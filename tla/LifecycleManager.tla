-------------------------- MODULE LifecycleManager --------------------------
(* The LifecycleManager plugin: application contexts, the queue of state    *)
(* transition requests (gRequests), the request handler thread that drains  *)
(* it, the API calls of clients under mAdminLock, and the worker-pool jobs  *)
(* (Dispatch) that bring the events of RuntimeManager and RDKWindowManager. *)
(*                                                                          *)
(* Granularity.  The request handler thread holds gRequestMutex from the    *)
(* first request it takes until it waits on the semaphore, so a request is  *)
(* added only while it waits; it does not take mAdminLock, so it runs       *)
(* concurrently with a client or a job that holds that lock.  A call to     *)
(* another plugin is split into the call and its return, because the event  *)
(* the call provokes can be handled in between.                             *)
EXTENDS LifecycleStates, FiniteSets

CONSTANTS
  App,          \* application ids
  Client,       \* threads that call the plugin's API
  Pool,         \* the worker-pool thread that owns mAdminLock in Dispatch
  PathOf,       \* PathOf[s][t]: what getStatePath returns, <<>> when it fails
  SpawnTarget,  \* target states passed to SpawnApp
  SetTarget,    \* target states passed to SetTargetAppState
  CloseNext,    \* what CloseApp does after the kill: "none" or a state to spawn
  Failing,      \* calls that may fail: "run", "render", "hibernate", "wake", "terminate"
                \* (answered with an error), "stop" (Dobby's stop, behind a success)
  MaxCalls,     \* bound: API calls made in a behaviour
  MaxInst,      \* bound: instance ids generated in a behaviour
  MaxExits,     \* bound: containers that exit by themselves
  MayDeinitialize \* whether the plugin may be deinitialised

Ctx    == 1..MaxCalls   \* context objects, in the order they are created
Inst   == 1..MaxInst    \* appInstanceId values, in the order they are generated
NoCtx  == 0
NoInst == 0
Thread == Client \cup {Pool}
NoLock == "unlocked"
Event  == {"none", "onAppRunning", "onFirstFrame", "onAppTerminating"}
Job    == [kind : {"unloaded", "terminated", "running", "ready"}, inst : Inst]

ASSUME ThreadAssumption == Pool \notin Client /\ NoLock \notin Thread
ASSUME TargetAssumption ==
  /\ SpawnTarget \subseteq LifecycleState
  /\ SetTarget \subseteq LifecycleState
  /\ CloseNext \subseteq {"none", "PAUSED", "ACTIVE"}
ASSUME BoundAssumption ==
  /\ MaxCalls \in Nat /\ MaxInst \in Nat /\ MaxExits \in Nat
  /\ MayDeinitialize \in BOOLEAN

(* All that is used of the path search: a path starts at the current state, *)
(* goes along the transition table, ends at the target (then UNLOADED).     *)
ASSUME PathAssumption ==
  \A s, t \in LifecycleState :
    LET p == PathOf[s][t] IN
    /\ p \in Seq(LifecycleState)
    /\ p # <<>> => /\ p[1] = s /\ Walk(p)
                   /\ s # t => Len(p) > 1

VARIABLES
  \* ---- application contexts, by object -----------------------------------
  created,       \* number of contexts created so far
  loaded,        \* mLoadedApplications; list order is creation order
  app,           \* mAppId
  inst,          \* mAppInstanceId
  state,         \* the value of mState
  target,        \* mTargetLifecycleState
  loadSem,       \* mReachedLoadingStateSemaphore
  pending,       \* mPendingStateTransition
  pendingStates, \* mPendingStates
  pendingOld,    \* mPendingOldState
  pendingEvent,  \* mPendingEventName
  \* ---- request queue and request handler thread --------------------------
  gRequests,     \* gRequests: records [ctx, to]
  gSem,          \* gRequestSemaphore
  sRunning,      \* sRunning
  wpc,           \* where the request handler thread is
  path,          \* statePath, from the next state to enter
  \* ---- clients and worker pool -------------------------------------------
  mAdminLock,    \* the thread that holds mAdminLock, or NoLock
  thread,        \* per thread: what it is doing
  jobs,          \* Dispatch jobs submitted and not yet run
  \* ---- the other plugins, seen from here ---------------------------------
  container,     \* the container of an instance
  frame,         \* whether the instance has drawn its first frame
  ran,           \* history: how often RuntimeManager::Run was called for it
  unstopped,     \* history: its stop failed and RuntimeManager answered ERROR_NONE
  \* ---- bookkeeping --------------------------------------------------------
  announced,     \* the last state change submitted for its observers
  uuid,          \* instance ids generated
  calls, exits,  \* API calls made, containers that exited by themselves
  aborted        \* the process died using a freed context

ctxVars  == <<created, loaded, app, inst, state, target, loadSem, announced, uuid>>
pendVars == <<pending, pendingStates, pendingOld, pendingEvent>>
reqVars  == <<gRequests, gSem, sRunning>>
workVars == <<wpc, path>>
apiVars  == <<mAdminLock, thread>>
extVars  == <<container, frame, ran, unstopped>>
bookVars == <<calls, exits, aborted>>
vars == <<ctxVars, pendVars, reqVars, workVars, apiVars, jobs, extVars, bookVars>>

(* What a thread is doing: where it is (pc), the context and state of its   *)
(* request, how many more requests it adds (left), whether it then waits    *)
(* for LOADING (first), and what CloseApp spawns afterwards (next).         *)
ThreadState ==
  [pc    : {"idle", "spawn", "set", "unload", "kill", "add", "post", "await", "respawn"},
   ctx   : Ctx \cup {NoCtx},
   app   : App \cup {"none"},
   to    : LifecycleState \cup {"none"},
   left  : Nat,
   first : BOOLEAN,
   next  : {"none", "PAUSED", "ACTIVE"}]

Idle == [pc |-> "idle", ctx |-> NoCtx, app |-> "none", to |-> "none",
         left |-> 0, first |-> FALSE, next |-> "none"]

ContainerState == {"none", "starting", "running", "stopping", "gone"}

TypeOK ==
  /\ created \in 0..MaxCalls /\ loaded \subseteq 1..created
  /\ app \in [Ctx -> App \cup {"none"}]
  /\ inst \in [Ctx -> Inst \cup {NoInst}]
  /\ state \in [Ctx -> LifecycleState]
  /\ target \in [Ctx -> LifecycleState]
  /\ loadSem \in [Ctx -> Nat]
  /\ announced \in [Ctx -> LifecycleState]
  /\ uuid \in 0..MaxInst
  /\ pending \in [Ctx -> BOOLEAN]
  /\ pendingStates \in [Ctx -> Seq(LifecycleState)]
  /\ pendingOld \in [Ctx -> LifecycleState]
  /\ pendingEvent \in [Ctx -> Event]
  /\ gRequests \in Seq([ctx : Ctx, to : LifecycleState])
  /\ gSem \in Nat /\ sRunning \in BOOLEAN
  /\ wpc \in {"wait", "stuck", "drain", "walk", "run", "render", "terminate", "ended"}
  /\ path \in Seq(LifecycleState)
  /\ mAdminLock \in Thread \cup {NoLock}
  /\ thread \in [Thread -> ThreadState]
  /\ jobs \subseteq Job
  /\ container \in [Inst -> ContainerState]
  /\ frame \in [Inst -> BOOLEAN]
  /\ ran \in [Inst -> Nat] /\ unstopped \subseteq Inst
  /\ calls \in Nat /\ exits \in Nat /\ aborted \in BOOLEAN

Init ==
  /\ created = 0 /\ loaded = {}
  /\ app = [x \in Ctx |-> "none"]
  /\ inst = [x \in Ctx |-> NoInst]
  /\ state = [x \in Ctx |-> "UNLOADED"]
  /\ target = [x \in Ctx |-> "UNLOADED"]
  /\ loadSem = [x \in Ctx |-> 0]
  /\ announced = [x \in Ctx |-> "UNLOADED"]
  /\ uuid = 0
  /\ pending = [x \in Ctx |-> FALSE]
  /\ pendingStates = [x \in Ctx |-> <<>>]
  /\ pendingOld = [x \in Ctx |-> "UNLOADED"]
  /\ pendingEvent = [x \in Ctx |-> "none"]
  /\ gRequests = <<>> /\ gSem = 0 /\ sRunning = TRUE
  /\ wpc = "drain" /\ path = <<>>
  /\ mAdminLock = NoLock
  /\ thread = [t \in Thread |-> Idle]
  /\ jobs = {}
  /\ container = [i \in Inst |-> "none"]
  /\ frame = [i \in Inst |-> FALSE]
  /\ ran = [i \in Inst |-> 0] /\ unstopped = {}
  /\ calls = 0 /\ exits = 0 /\ aborted = FALSE

-----------------------------------------------------------------------------
(* Helpers. *)

(* gRequestMutex is held by the request handler thread except while it      *)
(* waits on gRequestSemaphore (or has ended).                               *)
RequestMutexFree == wpc \in {"wait", "stuck", "ended"}

Freed(x) == x \in 1..created /\ x \notin loaded

(* getContext: the first context of the list in S, NoCtx if there is none.  *)
FirstLoaded(S) ==
  IF S \cap loaded = {} THEN {NoCtx}
  ELSE {x \in S \cap loaded : \A y \in S \cap loaded : x <= y}

getContextByApp(a)  == FirstLoaded({x \in Ctx : app[x] = a})
getContextByInst(i) == FirstLoaded({x \in Ctx : inst[x] = i})

(* Using a freed context is undefined: the process dies, or the stale       *)
(* fields are still readable and the code goes on with them.                *)
Abort ==
  /\ aborted' = TRUE
  /\ UNCHANGED <<ctxVars, pendVars, reqVars, workVars, apiVars, jobs, extVars,
                 calls, exits>>

-----------------------------------------------------------------------------
(* Client threads. *)

Call(c) == thread[c].pc = "idle" /\ calls < MaxCalls /\ calls' = calls + 1

(* Looks a context up, without the lock, before anything else.             *)
Begin(c, step) ==
  /\ thread' = [thread EXCEPT ![c] = step]
  /\ UNCHANGED <<ctxVars, pendVars, reqVars, workVars, mAdminLock, jobs, extVars,
                 exits, aborted>>

(* SpawnApp: getContext("", appId), before mAdminLock is taken.            *)
SpawnApp(c, a, t) ==
  /\ Call(c)
  /\ \E x \in getContextByApp(a) :
       Begin(c, [Idle EXCEPT !.pc = "spawn", !.ctx = x, !.app = a, !.to = t])

SetTargetAppState(c, i, t) ==
  /\ Call(c)
  /\ \E x \in getContextByInst(i) \ {NoCtx} :
       Begin(c, [Idle EXCEPT !.pc = "set", !.ctx = x, !.to = t])

UnloadApp(c, i) ==
  /\ Call(c)
  /\ \E x \in getContextByInst(i) \ {NoCtx} :
       Begin(c, [Idle EXCEPT !.pc = "unload", !.ctx = x, !.to = "TERMINATING"])

KillApp(c, i) ==
  /\ Call(c)
  /\ \E x \in getContextByInst(i) \ {NoCtx} :
       Begin(c, [Idle EXCEPT !.pc = "kill", !.ctx = x, !.to = "TERMINATING"])

(* CloseApp: KillApp on the instance of the app's context, then SpawnApp    *)
(* for KILL_AND_RUN (PAUSED) and KILL_AND_ACTIVATE (ACTIVE).                *)
CloseApp(c, a, after) ==
  /\ Call(c)
  /\ \E x \in getContextByApp(a) \ {NoCtx} :
       /\ inst[x] # NoInst
       /\ Begin(c, [Idle EXCEPT !.pc = "kill", !.ctx = x, !.app = a,
                                !.to = "TERMINATING", !.next = after])

(* The spawn of CloseApp: SpawnApp begins again with its own lookup.        *)
Respawn(c) ==
  /\ thread[c].pc = "respawn"
  /\ \E x \in getContextByApp(thread[c].app) :
       Begin(c, [Idle EXCEPT !.pc = "spawn", !.ctx = x, !.app = thread[c].app,
                             !.to = thread[c].next])
  /\ UNCHANGED calls

(* SpawnApp under mAdminLock, no context found: a new one is listed, and    *)
(* the caller will wait for it to reach LOADING.                            *)
SpawnNew(c) ==
  /\ thread[c].pc = "spawn" /\ thread[c].ctx = NoCtx /\ mAdminLock = NoLock
  /\ created < MaxCalls
  /\ LET x == created + 1 IN
     /\ created' = x
     /\ loaded' = loaded \cup {x}
     /\ app' = [app EXCEPT ![x] = thread[c].app]
     /\ target' = [target EXCEPT ![x] = thread[c].to]
     /\ thread' = [thread EXCEPT ![c].pc = "add", ![c].ctx = x, ![c].first = TRUE]
  /\ mAdminLock' = c
  /\ UNCHANGED <<inst, state, loadSem, announced, uuid, pendVars, reqVars, workVars,
                 jobs, extVars, bookVars>>

(* SpawnApp, SetTargetAppState, UnloadApp and KillApp under mAdminLock, on  *)
(* the context found before: the target is recorded, the request follows.   *)
MarkTarget(c) ==
  /\ thread[c].pc \in {"spawn", "set", "unload", "kill"}
  /\ thread[c].ctx # NoCtx /\ mAdminLock = NoLock
  /\ target' = [target EXCEPT ![thread[c].ctx] = thread[c].to]
  /\ thread' = [thread EXCEPT ![c].pc = "add"]
  /\ mAdminLock' = c
  /\ UNCHANGED <<created, loaded, app, inst, state, loadSem, announced, uuid,
                 pendVars, reqVars, workVars, jobs, extVars, bookVars>>

ClientUsesFreed(c) ==
  /\ thread[c].pc \in {"spawn", "set", "unload", "kill"}
  /\ Freed(thread[c].ctx) /\ mAdminLock = NoLock
  /\ Abort

(* addRequest: the push under gRequestMutex.                               *)
PushRequest(t) ==
  /\ thread[t].pc = "add" /\ RequestMutexFree
  /\ gRequests' = Append(gRequests, [ctx |-> thread[t].ctx, to |-> thread[t].to])
  /\ thread' = [thread EXCEPT ![t].pc = "post"]
  /\ UNCHANGED <<ctxVars, pendVars, gSem, sRunning, workVars, mAdminLock, jobs,
                 extVars, bookVars>>

(* Slip: only the request of a first launch is posted.                     *)
PostForLaunch(r) == gSem' = IF r.first THEN gSem + 1 ELSE gSem

Post(r) == gSem' = gSem + 1

(* addRequest: the post of gRequestSemaphore, and the return to the caller: *)
(* the next request, the wait of a first launch, or the end of the call.    *)
PostRequest(t) ==
  /\ thread[t].pc = "post"
  /\ Post(thread[t])
  /\ LET r == thread[t] IN
     IF r.left > 0 THEN
       /\ thread' = [thread EXCEPT ![t] = [r EXCEPT !.pc = "add", !.left = @ - 1]]
       /\ UNCHANGED mAdminLock
     ELSE IF r.first THEN
       /\ thread' = [thread EXCEPT ![t] = [r EXCEPT !.pc = "await"]]
       /\ UNCHANGED mAdminLock
     ELSE
       /\ thread' = [thread EXCEPT ![t] =
            IF r.next = "none" THEN Idle ELSE [r EXCEPT !.pc = "respawn"]]
       /\ mAdminLock' = NoLock
  /\ UNCHANGED <<ctxVars, pendVars, gRequests, sRunning, workVars, jobs, extVars,
                 bookVars>>

(* SpawnApp: sem_wait on mReachedLoadingStateSemaphore, mAdminLock held.    *)
AwaitLoading(c) ==
  /\ thread[c].pc = "await" /\ loadSem[thread[c].ctx] > 0
  /\ loadSem' = [loadSem EXCEPT ![thread[c].ctx] = @ - 1]
  /\ thread' = [thread EXCEPT ![c] = Idle]
  /\ mAdminLock' = NoLock
  /\ UNCHANGED <<created, loaded, app, inst, state, target, announced, uuid, pendVars,
                 reqVars, workVars, jobs, extVars, bookVars>>

-----------------------------------------------------------------------------
(* Worker-pool jobs (Dispatch), in any order, each under mAdminLock.        *)

TakeJob(j) == j \in jobs /\ mAdminLock = NoLock /\ jobs' = jobs \ {j}

(* handleStateChangeEvent for UNLOADED: the context is deleted.  (The other *)
(* state changes only call the observers and are not kept in `jobs`.)       *)
HandleUnloaded(j) ==
  /\ TakeJob(j) /\ j.kind = "unloaded"
  /\ loaded' = loaded \ getContextByInst(j.inst)
  /\ UNCHANGED <<created, app, inst, state, target, loadSem, announced, uuid, pendVars,
                 reqVars, workVars, apiVars, extVars, bookVars>>

(* Requests that Dispatch adds after looking at the context: it keeps       *)
(* mAdminLock and may wait for gRequestMutex.                               *)
AddFromDispatch(x, to, n) ==
  /\ mAdminLock' = Pool
  /\ thread' = [thread EXCEPT ![Pool] =
                  [Idle EXCEPT !.pc = "add", !.ctx = x, !.to = to, !.left = n - 1]]

(* addStateTransitionRequest: the event counts only if it is awaited now;   *)
(* otherwise it is dropped ("received wrong state transition request").     *)
addStateTransitionRequest(x, event) ==
  IF pending[x] /\ pendingEvent[x] = event
  THEN AddFromDispatch(x, target[x], 1)
  ELSE UNCHANGED apiVars

HandleAwaited(j) ==
  /\ TakeJob(j) /\ j.kind \in {"running", "ready"}
  /\ \E x \in getContextByInst(j.inst) :
       IF x = NoCtx THEN UNCHANGED apiVars
       ELSE addStateTransitionRequest(x, IF j.kind = "running" THEN "onAppRunning"
                                                               ELSE "onFirstFrame")
  /\ UNCHANGED <<ctxVars, pendVars, reqVars, workVars, extVars, bookVars>>

(* onTerminated.  Outside TERMINATING the exit counts as unexpected and two *)
(* TERMINATING requests are added: terminate() and then updateState().      *)
HandleTerminated(j) ==
  /\ TakeJob(j) /\ j.kind = "terminated"
  /\ \E x \in getContextByInst(j.inst) :
       IF x = NoCtx THEN UNCHANGED <<target, apiVars>>
       ELSE IF state[x] = "TERMINATING"
       THEN addStateTransitionRequest(x, "onAppTerminating") /\ UNCHANGED target
       ELSE /\ target' = [target EXCEPT ![x] = "TERMINATING"]
            /\ AddFromDispatch(x, "TERMINATING", 2)
  /\ UNCHANGED <<created, loaded, app, inst, state, loadSem, announced, uuid, pendVars,
                 reqVars, workVars, extVars, bookVars>>

-----------------------------------------------------------------------------
(* The request handler thread.  The request in hand is the head of the      *)
(* queue; it is erased only when changeState succeeds.                      *)

Head1 == gRequests[1]
Cur   == gRequests[1].ctx

(* Slip: nothing is announced while a transition is pending.               *)
SendUnlessPending(x, new) ==
  announced' = IF pending[x] THEN announced ELSE [announced EXCEPT ![x] = new]

sendEvent(x, new) == announced' = [announced EXCEPT ![x] = new]

WakeUp ==
  /\ wpc \in {"wait", "stuck"} /\ gSem > 0
  /\ gSem' = gSem - 1
  /\ wpc' = IF sRunning THEN "drain" ELSE "ended"
  /\ UNCHANGED <<ctxVars, pendVars, gRequests, sRunning, path, apiVars, jobs, extVars,
                 bookVars>>

QueueDrained ==
  /\ wpc = "drain" /\ gRequests = <<>>
  /\ wpc' = "wait"
  /\ UNCHANGED <<ctxVars, pendVars, reqVars, path, apiVars, jobs, extVars, bookVars>>

WorkerUsesFreed ==
  /\ wpc \in {"drain", "walk", "run", "render", "terminate"} /\ gRequests # <<>>
  /\ Freed(Cur)
  /\ Abort

(* changeState while a transition is pending: whatever the request asks     *)
(* for, the interrupted path is continued; the state that was waited in is  *)
(* announced now (TERMINATING was announced when it was entered).           *)
ContinuePath ==
  /\ wpc = "drain" /\ gRequests # <<>> /\ pending[Cur]
  /\ IF state[Cur] # "TERMINATING" THEN sendEvent(Cur, state[Cur])
                                   ELSE UNCHANGED announced
  /\ pending' = [pending EXCEPT ![Cur] = FALSE]
  /\ path' = Tail(pendingStates[Cur])
  /\ wpc' = "walk"
  /\ UNCHANGED <<created, loaded, app, inst, state, target, loadSem, uuid, pendingStates,
                 pendingOld, pendingEvent, reqVars, apiVars, jobs, extVars, bookVars>>

AlreadyThere ==
  /\ wpc = "drain" /\ gRequests # <<>>
  /\ ~pending[Cur] /\ state[Cur] = Head1.to
  /\ gRequests' = Tail(gRequests)
  /\ UNCHANGED <<ctxVars, pendVars, gSem, sRunning, workVars, apiVars, jobs, extVars,
                 bookVars>>

(* getStatePath fails: the thread leaves the loop without erasing the       *)
(* request and waits for the next post ("stuck").                           *)
NoPath ==
  /\ wpc = "drain" /\ gRequests # <<>>
  /\ ~pending[Cur] /\ state[Cur] # Head1.to /\ PathOf[state[Cur]][Head1.to] = <<>>
  /\ wpc' = "stuck"
  /\ UNCHANGED <<ctxVars, pendVars, reqVars, path, apiVars, jobs, extVars, bookVars>>

StartPath ==
  /\ wpc = "drain" /\ gRequests # <<>>
  /\ ~pending[Cur] /\ state[Cur] # Head1.to /\ PathOf[state[Cur]][Head1.to] # <<>>
  /\ path' = Tail(PathOf[state[Cur]][Head1.to])
  /\ wpc' = "walk"
  /\ UNCHANGED <<ctxVars, pendVars, reqVars, apiVars, jobs, extVars, bookVars>>

-----------------------------------------------------------------------------
(* The loop of changeState over the states of the path.                     *)

Walking(new) == wpc = "walk" /\ path # <<>> /\ path[1] = new

(* Slip: the state asked for is announced at every step of the path.       *)
EnteredAnnouncingTarget(x, new) ==
  /\ state' = [state EXCEPT ![x] = new]
  /\ sendEvent(x, Head1.to)
  /\ path' = Tail(path)

(* A state entered without waiting: setState, then the event.               *)
Entered(x, new) ==
  /\ state' = [state EXCEPT ![x] = new]
  /\ sendEvent(x, new)
  /\ path' = Tail(path)

(* Slip: a failed step keeps the rest of an earlier wait.                  *)
FailKeepingPath ==
  /\ pending' = [pending EXCEPT ![Cur] = FALSE]
  /\ pendingEvent' = [pendingEvent EXCEPT ![Cur] = "none"]
  /\ path' = <<>>
  /\ wpc' = "stuck"
  /\ UNCHANGED <<pendingStates, pendingOld, reqVars>>

(* handle() failed: the loop ends, the pending fields are cleared, and the  *)
(* thread waits with the request still at the head of the queue.            *)
StepFails ==
  /\ pending' = [pending EXCEPT ![Cur] = FALSE]
  /\ pendingStates' = [pendingStates EXCEPT ![Cur] = <<>>]
  /\ pendingEvent' = [pendingEvent EXCEPT ![Cur] = "none"]
  /\ path' = <<>>
  /\ wpc' = "stuck"
  /\ UNCHANGED <<pendingOld, reqVars>>

(* handle() asked to wait for an event: the path from the state just        *)
(* entered is kept for the next request, and this request is done.          *)
Interrupt(x, event) ==
  /\ pending' = [pending EXCEPT ![x] = TRUE]
  /\ pendingEvent' = [pendingEvent EXCEPT ![x] = event]
  /\ pendingStates' = [pendingStates EXCEPT ![x] = path]
  /\ state' = [state EXCEPT ![x] = path[1]]
  /\ gRequests' = Tail(gRequests)
  /\ path' = <<>>
  /\ wpc' = "drain"

Alive(x) == container[inst[x]] \in {"starting", "running"}

(* Which handle() returns false.  PAUSED looks at the current state; a      *)
(* container is hibernated and woken through RuntimeManager.  Hibernate     *)
(* answers an error when Dobby fails; Wake answers one only when it does    *)
(* not hold the container for hibernated, and Dobby's failure is logged.    *)
MustFail(x, new) ==
  \/ new = "PAUSED" /\ state[x] \notin {"INITIALIZING", "ACTIVE", "SUSPENDED"}
  \/ new = "HIBERNATED" /\ ~Alive(x)

MayFail(x, new) ==
  \/ MustFail(x, new)
  \/ new = "HIBERNATED" /\ "hibernate" \in Failing
  \/ new = "SUSPENDED" /\ state[x] = "HIBERNATED" /\ (~Alive(x) \/ "wake" \in Failing)

(* Slips: a context keeps its first instance id; the semaphore is not      *)
(* posted.                                                                  *)
KeepInstance(x, id) == inst' = [inst EXCEPT ![x] = IF @ = NoInst THEN id ELSE @]
NotPosted(x) == loadSem' = loadSem

SetInstance(x, id) == inst' = [inst EXCEPT ![x] = id]
PostLoading(x) == loadSem' = [loadSem EXCEPT ![x] = @ + 1]

(* LoadingState: a new instance id, and the post SpawnApp waits for.        *)
EnterLoading ==
  /\ Walking("LOADING") /\ uuid < MaxInst
  /\ uuid' = uuid + 1
  /\ SetInstance(Cur, uuid + 1)
  /\ PostLoading(Cur)
  /\ Entered(Cur, "LOADING")
  /\ UNCHANGED <<created, loaded, app, target, pendVars, reqVars, wpc, apiVars, jobs,
                 extVars, bookVars>>

EnterSettled(new) ==
  /\ new \in {"PAUSED", "SUSPENDED", "HIBERNATED"}
  /\ Walking(new) /\ ~MustFail(Cur, new)
  /\ Entered(Cur, new)
  /\ UNCHANGED <<created, loaded, app, inst, target, loadSem, uuid, pendVars, reqVars, wpc,
                 apiVars, jobs, extVars, bookVars>>

EnterSettledFails(new) ==
  /\ new \in {"PAUSED", "SUSPENDED", "HIBERNATED"}
  /\ Walking(new) /\ MayFail(Cur, new)
  /\ StepFails
  /\ UNCHANGED <<ctxVars, apiVars, jobs, extVars, bookVars>>

(* The event of the last step makes Dispatch delete the context.            *)
EnterUnloaded ==
  /\ Walking("UNLOADED")
  /\ Entered(Cur, "UNLOADED")
  /\ jobs' = jobs \cup {[kind |-> "unloaded", inst |-> inst[Cur]]}
  /\ UNCHANGED <<created, loaded, app, inst, target, loadSem, uuid, pendVars, reqVars, wpc,
                 apiVars, extVars, bookVars>>

(* InitializingState: RuntimeManager::Run, whose result is ignored; only    *)
(* after it has returned does the context await onAppRunning.               *)
EnterInitializing ==
  /\ Walking("INITIALIZING")
  /\ \/ container' = [container EXCEPT ![inst[Cur]] = "starting"]
     \/ "run" \in Failing /\ UNCHANGED container
  /\ ran' = [ran EXCEPT ![inst[Cur]] = @ + 1]
  /\ wpc' = "run"
  /\ UNCHANGED <<ctxVars, pendVars, reqVars, path, apiVars, jobs, frame, unstopped,
                 bookVars>>

RunReturned ==
  /\ wpc = "run"
  /\ Interrupt(Cur, "onAppRunning")
  /\ pendingOld' = [pendingOld EXCEPT ![Cur] = state[Cur]]
  /\ UNCHANGED <<created, loaded, app, inst, target, loadSem, announced, uuid, gSem,
                 sRunning, apiVars, jobs, extVars, bookVars>>

(* ActiveState: RDKWindowManager::RenderReady answers, then its answer is   *)
(* looked at; onFirstFrame is awaited from then on.                         *)
EnterActive ==
  /\ Walking("ACTIVE") /\ frame[inst[Cur]]
  /\ Entered(Cur, "ACTIVE")
  /\ UNCHANGED <<created, loaded, app, inst, target, loadSem, uuid, pendVars, reqVars, wpc,
                 apiVars, jobs, extVars, bookVars>>

EnterActiveNotReady ==
  /\ Walking("ACTIVE") /\ ~frame[inst[Cur]]
  /\ wpc' = "render"
  /\ UNCHANGED <<ctxVars, pendVars, reqVars, path, apiVars, jobs, extVars, bookVars>>

EnterActiveFails ==
  /\ Walking("ACTIVE") /\ "render" \in Failing
  /\ StepFails
  /\ UNCHANGED <<ctxVars, apiVars, jobs, extVars, bookVars>>

NotReadyReturned ==
  /\ wpc = "render"
  /\ Interrupt(Cur, "onFirstFrame")
  /\ pendingOld' = [pendingOld EXCEPT ![Cur] = state[Cur]]
  /\ UNCHANGED <<created, loaded, app, inst, target, loadSem, announced, uuid, gSem,
                 sRunning, apiVars, jobs, extVars, bookVars>>

(* RuntimeManager::Terminate (or Kill): the container stops; or Dobby did   *)
(* not stop it, which RuntimeManager logs and answers with ERROR_NONE.      *)
StopContainer(i) ==
  \/ /\ container' = [container EXCEPT ![i] =
                        IF @ \in {"starting", "running"} THEN "stopping" ELSE @]
     /\ UNCHANGED unstopped
  \/ /\ "stop" \in Failing /\ container[i] \in {"starting", "running"}
     /\ unstopped' = unstopped \cup {i}
     /\ UNCHANGED container

(* TERMINATING is announced first; then the container is stopped, and       *)
(* onAppTerminating is awaited once the call has returned.                  *)
EnterTerminating ==
  /\ Walking("TERMINATING")
  /\ sendEvent(Cur, "TERMINATING")
  /\ StopContainer(inst[Cur])
  /\ wpc' = "terminate"
  /\ UNCHANGED <<created, loaded, app, inst, state, target, loadSem, uuid, pendVars,
                 reqVars, path, apiVars, jobs, frame, ran, bookVars>>

(* Slip: the error RuntimeManager answers is not looked at.                *)
TerminateIgnoringError ==
  /\ Walking("TERMINATING") /\ "terminate" \in Failing
  /\ sendEvent(Cur, "TERMINATING")
  /\ wpc' = "terminate"
  /\ UNCHANGED <<created, loaded, app, inst, state, target, loadSem, uuid, pendVars,
                 reqVars, path, apiVars, jobs, extVars, bookVars>>

(* RuntimeManager answers an error: it does not know the instance, or its   *)
(* OCIContainer plugin is not there.                                        *)
EnterTerminatingFails ==
  /\ Walking("TERMINATING") /\ "terminate" \in Failing
  /\ sendEvent(Cur, "TERMINATING")
  /\ StepFails
  /\ UNCHANGED <<created, loaded, app, inst, state, target, loadSem, uuid,
                 apiVars, jobs, extVars, bookVars>>

TerminateReturned ==
  /\ wpc = "terminate"
  /\ Interrupt(Cur, "onAppTerminating")
  /\ UNCHANGED <<created, loaded, app, inst, target, loadSem, announced, uuid, pendingOld,
                 gSem, sRunning, apiVars, jobs, extVars, bookVars>>

(* The end of the path: the pending fields are cleared, the request erased. *)
PathDone ==
  /\ wpc = "walk" /\ path = <<>>
  /\ pendingStates' = [pendingStates EXCEPT ![Cur] = <<>>]
  /\ pendingEvent' = [pendingEvent EXCEPT ![Cur] = "none"]
  /\ gRequests' = Tail(gRequests)
  /\ wpc' = "drain"
  /\ UNCHANGED <<ctxVars, pending, pendingOld, gSem, sRunning, path, apiVars, jobs,
                 extVars, bookVars>>

-----------------------------------------------------------------------------
(* Slip: the thread is not woken.                                          *)
DeinitializeSilently ==
  /\ MayDeinitialize /\ sRunning /\ RequestMutexFree
  /\ sRunning' = FALSE
  /\ UNCHANGED <<ctxVars, pendVars, gRequests, gSem, workVars, apiVars, jobs, extVars,
                 bookVars>>

(* RequestHandler::terminate: StateTransitionHandler::terminate.            *)
Deinitialize ==
  /\ MayDeinitialize /\ sRunning /\ RequestMutexFree
  /\ sRunning' = FALSE
  /\ gSem' = gSem + 1
  /\ UNCHANGED <<ctxVars, pendVars, gRequests, workVars, apiVars, jobs, extVars, bookVars>>

-----------------------------------------------------------------------------
(* RuntimeManager and RDKWindowManager: containers and first frames, and    *)
(* the events that reach onRuntimeManagerEvent and onWindowManagerEvent.    *)

Submit(kind, i) == jobs' = jobs \cup {[kind |-> kind, inst |-> i]}

ContainerRunning(i) ==
  /\ container[i] = "starting"
  /\ container' = [container EXCEPT ![i] = "running"]
  /\ Submit("running", i)
  /\ UNCHANGED <<ctxVars, pendVars, reqVars, workVars, apiVars, frame, ran, unstopped,
                 bookVars>>

ContainerStopped(i) ==
  /\ container[i] = "stopping"
  /\ container' = [container EXCEPT ![i] = "gone"]
  /\ Submit("terminated", i)
  /\ UNCHANGED <<ctxVars, pendVars, reqVars, workVars, apiVars, frame, ran, unstopped,
                 bookVars>>

ContainerExits(i) ==
  /\ container[i] \in {"starting", "running"} /\ exits < MaxExits
  /\ exits' = exits + 1
  /\ container' = [container EXCEPT ![i] = "gone"]
  /\ Submit("terminated", i)
  /\ UNCHANGED <<ctxVars, pendVars, reqVars, workVars, apiVars, frame, ran, unstopped,
                 calls, aborted>>

FirstFrame(i) ==
  /\ container[i] = "running" /\ ~frame[i]
  /\ frame' = [frame EXCEPT ![i] = TRUE]
  /\ Submit("ready", i)
  /\ UNCHANGED <<ctxVars, pendVars, reqVars, workVars, apiVars, container, ran, unstopped,
                 bookVars>>

-----------------------------------------------------------------------------
ClientCall(c) ==
  \/ \E a \in App, t \in SpawnTarget : SpawnApp(c, a, t)
  \/ \E i \in Inst, t \in SetTarget : SetTargetAppState(c, i, t)
  \/ \E i \in Inst : UnloadApp(c, i) \/ KillApp(c, i)
  \/ \E a \in App, t \in CloseNext : CloseApp(c, a, t)

ClientStep(c) ==
  Respawn(c) \/ SpawnNew(c) \/ MarkTarget(c) \/ AwaitLoading(c)

RequestStep(t) == PushRequest(t) \/ PostRequest(t)

JobStep == \E j \in jobs : HandleUnloaded(j) \/ HandleAwaited(j) \/ HandleTerminated(j)

WorkerStep ==
  \/ WakeUp \/ QueueDrained
  \/ ContinuePath \/ AlreadyThere \/ NoPath \/ StartPath
  \/ EnterLoading \/ EnterInitializing \/ RunReturned
  \/ \E new \in LifecycleState : EnterSettled(new) \/ EnterSettledFails(new)
  \/ EnterActive \/ EnterActiveNotReady \/ EnterActiveFails \/ NotReadyReturned
  \/ EnterTerminating \/ EnterTerminatingFails \/ TerminateReturned
  \/ EnterUnloaded \/ PathDone

ExternalStep(i) == ContainerRunning(i) \/ ContainerStopped(i) \/ FirstFrame(i)

Next ==
  /\ ~aborted
  /\ \/ \E c \in Client : ClientCall(c) \/ ClientStep(c) \/ ClientUsesFreed(c)
     \/ \E t \in Thread : RequestStep(t)
     \/ JobStep
     \/ WorkerStep \/ WorkerUsesFreed
     \/ Deinitialize
     \/ \E i \in Inst : ExternalStep(i) \/ ContainerExits(i)

Spec == Init /\ [][Next]_vars

(* Every thread keeps running, the calls to other plugins return, a started *)
(* container comes up and draws, a stopped one ends.  Clients need not call *)
(* and containers need not exit.                                            *)
Fairness ==
  /\ \A c \in Client : WF_vars(~aborted /\ ClientStep(c))
  /\ \A t \in Thread : WF_vars(~aborted /\ RequestStep(t))
  /\ WF_vars(~aborted /\ JobStep)
  /\ WF_vars(~aborted /\ WorkerStep)
  /\ \A i \in Inst : WF_vars(~aborted /\ ExternalStep(i))

FairSpec == Spec /\ Fairness
=============================================================================
