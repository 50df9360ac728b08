----------------------- MODULE LifecycleManager_proofs ----------------------
(* Proofs about LifecycleManager, for any applications, clients, instances, *)
(* failures and any path search that keeps to the transition table          *)
(* (PathAssumption).  The types alone are not inductive: that the event of  *)
(* UNLOADED names an instance rests on the walk of the request handler      *)
(* thread being legal, and that on what was kept of an interrupted path.    *)
(* To IInv are added, each for its own theorems: RInv, what is known of the *)
(* container of a context by its state; SInv, what was submitted of it; and *)
(* KInv, which states and contexts the abstract AppLifecycle has.           *)
EXTENDS LifecycleManagerProps, TLAPS

(* The request handler thread has a request in hand, and is about to take a *)
(* legal step with it; the context in its hands does not wait.              *)
Hands ==
  wpc \in {"walk", "run", "render", "terminate"} =>
    /\ gRequests # <<>> /\ Walk(path)
    /\ pending[Cur] = FALSE
    /\ path # <<>> => Edge(state[Cur], path[1])
    /\ wpc = "run"       => path # <<>> /\ path[1] = "INITIALIZING"
    /\ wpc = "render"    => path # <<>> /\ path[1] = "ACTIVE"
    /\ wpc = "terminate" => path # <<>> /\ path[1] = "TERMINATING"

(* A thread that is about to add a request knows its context and state.     *)
Ready(r) ==
  /\ r.pc \in {"set", "unload", "kill", "add", "post", "await"} => r.ctx \in Ctx
  /\ r.pc \in {"spawn", "set", "unload", "kill", "add", "post"} => r.to \in LifecycleState
  /\ r.pc = "respawn" => r.next # "none"

Requests == \A t \in Thread : Ready(thread[t])

(* Requests are added, and LOADING is awaited, with mAdminLock held.        *)
Holding == {"add", "post", "await"}
Locked  == \A t \in Thread : thread[t].pc \in Holding => mAdminLock = t

(* A context that has left UNLOADED has an instance id.                     *)
Named == \A x \in Ctx : state[x] # "UNLOADED" => inst[x] \in Inst

IInv ==
  /\ TypeOK /\ Hands /\ Requests /\ Locked /\ Named
  /\ PendingCoherent /\ NoLostWakeUp

-----------------------------------------------------------------------------
(* The transition table: UNLOADED is left to LOADING and entered from       *)
(* TERMINATING only, and INITIALIZING is entered from LOADING only.         *)
LEMMA Table ==
  /\ \A t \in LifecycleState : Edge("UNLOADED", t) => t = "LOADING"
  /\ \A s \in LifecycleState : Edge(s, "UNLOADED") => s = "TERMINATING"
  /\ \A s \in LifecycleState : Edge(s, "INITIALIZING") => s = "LOADING"
<1>1. \A t \in LifecycleState : Edge("UNLOADED", t) => t = "LOADING"
  <2>1. ~Edge("UNLOADED", "UNLOADED") /\ ~Edge("UNLOADED", "INITIALIZING")
    BY DEF Edge, mPossibleStateTransitions
  <2>2. ~Edge("UNLOADED", "PAUSED") /\ ~Edge("UNLOADED", "ACTIVE")
    BY DEF Edge, mPossibleStateTransitions
  <2>3. ~Edge("UNLOADED", "SUSPENDED") /\ ~Edge("UNLOADED", "HIBERNATED")
    BY DEF Edge, mPossibleStateTransitions
  <2>4. ~Edge("UNLOADED", "TERMINATING")
    BY DEF Edge, mPossibleStateTransitions
  <2> QED
    BY <2>1, <2>2, <2>3, <2>4 DEF LifecycleState
<1>2. \A s \in LifecycleState : Edge(s, "UNLOADED") => s = "TERMINATING"
  BY DEF Edge, LifecycleState, mPossibleStateTransitions
<1>3. \A s \in LifecycleState : Edge(s, "INITIALIZING") => s = "LOADING"
  BY DEF Edge, LifecycleState, mPossibleStateTransitions
<1> QED
  BY <1>1, <1>2, <1>3

(* What is left of a legal walk is a legal walk that goes on from its       *)
(* first state.                                                             *)
LEMMA TailWalk ==
  ASSUME NEW p \in Seq(LifecycleState), p # <<>>, Walk(p)
  PROVE  /\ p[1] \in LifecycleState
         /\ Tail(p) \in Seq(LifecycleState) /\ Walk(Tail(p))
         /\ Tail(p) # <<>> => Edge(p[1], Tail(p)[1])
<1>1. Len(p) \in Nat /\ Len(p) > 0 /\ Len(Tail(p)) = Len(p) - 1
      /\ \A k \in 1..Len(Tail(p)) : Tail(p)[k] = p[k + 1]
  OBVIOUS
<1>2. Walk(Tail(p))
  BY <1>1 DEF Walk
<1>3. Tail(p) # <<>> => Edge(p[1], Tail(p)[1])
  <2>1. Tail(p) # <<>> => 1 \in 1..(Len(p) - 1) /\ Tail(p)[1] = p[2]
    BY <1>1
  <2> QED
    BY <2>1 DEF Walk
<1> QED
  BY <1>1, <1>2, <1>3

(* getContext finds a listed context or none.                               *)
LEMMA Found ==
  ASSUME NEW S \in SUBSET Ctx, NEW x \in FirstLoaded(S)
  PROVE  x \in Ctx \cup {NoCtx} /\ (x # NoCtx => x \in Ctx)
BY DEF FirstLoaded

LEMMA InductiveInit == Init => IInv
<1> SUFFICES ASSUME Init PROVE IInv
  OBVIOUS
<1> USE BoundAssumption, ThreadAssumption
<1>1. thread \in [Thread -> ThreadState]
  BY DEF Init, ThreadState, Idle, NoCtx
<1>2. created \in 0..MaxCalls /\ loaded \subseteq 1..created /\ uuid \in 0..MaxInst
  BY DEF Init
<1>3. /\ gRequests \in Seq([ctx : Ctx, to : LifecycleState])
      /\ path \in Seq(LifecycleState)
      /\ pendingStates \in [Ctx -> Seq(LifecycleState)]
  BY DEF Init
<1>4. TypeOK
  BY <1>1, <1>2, <1>3 DEF Init, TypeOK, LifecycleState, Event, ContainerState
<1>5. Hands /\ Named /\ PendingCoherent /\ NoLostWakeUp
  BY DEF Init, Hands, Named, PendingCoherent, Coherent, NoLostWakeUp
<1>6. Requests /\ Locked
  BY DEF Init, Requests, Ready, Locked, Holding, Idle
<1> QED
  BY <1>4, <1>5, <1>6 DEF IInv

-----------------------------------------------------------------------------
(* Steps of the threads and jobs.                                          *)

(* Steps that leave the contexts' states and what is pending alone, and do  *)
(* not touch the request in hand.                                           *)
LEMMA Aside ==
  ASSUME IInv, TypeOK', Requests', Locked', NoLostWakeUp',
         UNCHANGED <<state, inst, pendVars, path>>,
         \/ wpc' = wpc /\ gRequests' = gRequests
         \/ /\ wpc  \notin {"walk", "run", "render", "terminate"}
            /\ wpc' \notin {"walk", "run", "render", "terminate"}
  PROVE  IInv'
<1> USE DEF IInv, pendVars
<1>1. Hands'
  BY DEF Hands, Cur
<1>2. Named'
  BY DEF Named
<1>3. \A x \in Ctx : InHand(x)' <=> InHand(x)
  BY DEF InHand, Cur
<1>4. PendingCoherent'
  BY <1>3 DEF PendingCoherent, Coherent
<1> QED
  BY <1>1, <1>2, <1>4

(* A thread moves on to r: mAdminLock is held where it must be, and whoever *)
(* else holds it goes on holding it.  A post is not forgotten.              *)
LEMMA ThreadMoves ==
  ASSUME IInv, NEW t \in Thread, NEW r \in ThreadState, Ready(r),
         thread' = [thread EXCEPT ![t] = r],
         r.pc \in Holding => mAdminLock' = t,
         mAdminLock' = mAdminLock \/ mAdminLock \in {t, NoLock}
  PROVE  /\ thread' \in [Thread -> ThreadState]
         /\ Requests' /\ Locked'
         /\ wpc' = wpc /\ gRequests' = gRequests /\ gSem' = gSem
            /\ thread[t].pc # "post" => NoLostWakeUp'
<1>1. thread \in [Thread -> ThreadState]
  BY DEF IInv, TypeOK
<1>2. thread' \in [Thread -> ThreadState]
  BY <1>1
<1>3. thread'[t] = r /\ \A u \in Thread \ {t} : thread'[u] = thread[u]
  BY <1>1
<1>4. Requests'
  BY <1>3 DEF IInv, Requests, Ready
<1>5. Locked'
  <2>1. \A u \in Thread \ {t} : thread[u].pc \in Holding => mAdminLock' = u
    BY ThreadAssumption DEF IInv, Locked
  <2> QED
    BY <1>3, <2>1 DEF Locked
<1>6. ASSUME wpc' = wpc, gRequests' = gRequests, gSem' = gSem, thread[t].pc # "post"
      PROVE  NoLostWakeUp'
  <2>1. Posting => Posting'
    BY <1>3, <1>6 DEF Posting
  <2> QED
    BY <1>6, <2>1 DEF IInv, NoLostWakeUp
<1> QED
  BY <1>2, <1>4, <1>5, <1>6

(* The records the threads go through.                                     *)
LEMMA ThreadUpdates ==
  ASSUME NEW r \in ThreadState, NEW x \in Ctx
  PROVE  /\ [r EXCEPT !.pc = "add"] \in ThreadState
         /\ [r EXCEPT !.pc = "post"] \in ThreadState
         /\ [r EXCEPT !.pc = "await"] \in ThreadState
         /\ [r EXCEPT !.pc = "respawn"] \in ThreadState
         /\ r.left > 0 => [r EXCEPT !.pc = "add", !.left = @ - 1] \in ThreadState
         /\ [r EXCEPT !.pc = "add", !.ctx = x, !.first = TRUE] \in ThreadState
         /\ Idle \in ThreadState
<1>1. [r EXCEPT !.pc = "add"] \in ThreadState /\ [r EXCEPT !.pc = "post"] \in ThreadState
  BY DEF ThreadState
<1>2. [r EXCEPT !.pc = "await"] \in ThreadState
  BY DEF ThreadState
<1>3. [r EXCEPT !.pc = "respawn"] \in ThreadState
  BY DEF ThreadState
<1>4. r.left > 0 => [r EXCEPT !.pc = "add", !.left = @ - 1] \in ThreadState
  <2>1. r.left \in Nat
    BY DEF ThreadState
  <2>2. r.left > 0 => r.left - 1 \in Nat
    BY <2>1
  <2> QED
    BY <2>2 DEF ThreadState
<1>5. [r EXCEPT !.pc = "add", !.ctx = x, !.first = TRUE] \in ThreadState
  BY DEF ThreadState
<1>6. Idle \in ThreadState
  BY DEF ThreadState, Idle, NoCtx
<1> QED
  BY <1>1, <1>2, <1>3, <1>4, <1>5, <1>6

(* Begin, the first step of every call and of the spawn of CloseApp.        *)
LEMMA BeginStep ==
  ASSUME IInv, NEW c \in Client, NEW r \in ThreadState, Ready(r),
         r.pc \notin Holding, thread[c].pc # "post", Begin(c, r), calls' \in Nat
  PROVE  IInv'
<1>1. c \in Thread
  BY DEF Thread
<1>2. /\ thread' \in [Thread -> ThreadState]
      /\ Requests' /\ Locked' /\ NoLostWakeUp'
  BY <1>1, ThreadMoves DEF Begin, reqVars, workVars
<1>3. TypeOK'
  BY <1>2 DEF Begin, IInv, TypeOK, ctxVars, pendVars, reqVars, workVars, extVars
<1> QED
  BY <1>2, <1>3, Aside DEF Begin, ctxVars, pendVars, reqVars, workVars

LEMMA SpawnAppStep ==
  ASSUME IInv, NEW c \in Client, NEW a \in App, NEW t \in SpawnTarget, SpawnApp(c, a, t)
  PROVE  IInv'
<1>1. PICK x \in getContextByApp(a) :
        Begin(c, [Idle EXCEPT !.pc = "spawn", !.ctx = x, !.app = a, !.to = t])
  BY DEF SpawnApp
<1>2. x \in Ctx \cup {NoCtx} /\ t \in LifecycleState
  BY Found, TargetAssumption DEF getContextByApp
<1> DEFINE r == [Idle EXCEPT !.pc = "spawn", !.ctx = x, !.app = a, !.to = t]
<1>3. r \in ThreadState /\ Ready(r) /\ r.pc \notin Holding
  BY <1>2 DEF ThreadState, Idle, Ready, Holding
<1>4. thread[c].pc # "post" /\ calls' \in Nat
  BY DEF SpawnApp, Call, IInv, TypeOK
<1> QED
  BY <1>1, <1>3, <1>4, BeginStep

LEMMA SetTargetAppStateStep ==
  ASSUME IInv, NEW c \in Client, NEW i \in Inst, NEW t \in SetTarget,
         SetTargetAppState(c, i, t)
  PROVE  IInv'
<1>1. PICK x \in getContextByInst(i) \ {NoCtx} :
        Begin(c, [Idle EXCEPT !.pc = "set", !.ctx = x, !.to = t])
  BY DEF SetTargetAppState
<1>2. x \in Ctx /\ t \in LifecycleState
  BY Found, TargetAssumption DEF getContextByInst
<1> DEFINE r == [Idle EXCEPT !.pc = "set", !.ctx = x, !.to = t]
<1>3. r \in ThreadState /\ Ready(r) /\ r.pc \notin Holding
  BY <1>2 DEF ThreadState, Idle, Ready, Holding
<1>4. thread[c].pc # "post" /\ calls' \in Nat
  BY DEF SetTargetAppState, Call, IInv, TypeOK
<1> QED
  BY <1>1, <1>3, <1>4, BeginStep

LEMMA UnloadAppStep ==
  ASSUME IInv, NEW c \in Client, NEW i \in Inst, UnloadApp(c, i) \/ KillApp(c, i)
  PROVE  IInv'
<1>1. PICK x \in getContextByInst(i) \ {NoCtx}, p \in {"unload", "kill"} :
        Begin(c, [Idle EXCEPT !.pc = p, !.ctx = x, !.to = "TERMINATING"])
  BY DEF UnloadApp, KillApp
<1>2. x \in Ctx
  BY Found DEF getContextByInst
<1> DEFINE r == [Idle EXCEPT !.pc = p, !.ctx = x, !.to = "TERMINATING"]
<1>3. r \in ThreadState /\ Ready(r) /\ r.pc \notin Holding
  BY <1>2 DEF ThreadState, Idle, Ready, Holding, LifecycleState
<1>4. thread[c].pc # "post" /\ calls' \in Nat
  <2>1. Call(c)
    BY DEF UnloadApp, KillApp
  <2> QED
    BY <2>1 DEF Call, IInv, TypeOK
<1> QED
  BY <1>1, <1>3, <1>4, BeginStep

LEMMA CloseAppStep ==
  ASSUME IInv, NEW c \in Client, NEW a \in App, NEW n \in CloseNext, CloseApp(c, a, n)
  PROVE  IInv'
<1>1. PICK x \in getContextByApp(a) \ {NoCtx} :
        Begin(c, [Idle EXCEPT !.pc = "kill", !.ctx = x, !.app = a,
                              !.to = "TERMINATING", !.next = n])
  BY DEF CloseApp
<1>2. x \in Ctx /\ n \in {"none", "PAUSED", "ACTIVE"}
  BY Found, TargetAssumption DEF getContextByApp
<1> DEFINE r == [Idle EXCEPT !.pc = "kill", !.ctx = x, !.app = a,
                             !.to = "TERMINATING", !.next = n]
<1>3. r \in ThreadState /\ Ready(r) /\ r.pc \notin Holding
  BY <1>2 DEF ThreadState, Idle, Ready, Holding, LifecycleState
<1>4. thread[c].pc # "post" /\ calls' \in Nat
  BY DEF CloseApp, Call, IInv, TypeOK
<1> QED
  BY <1>1, <1>3, <1>4, BeginStep

LEMMA RespawnStep ==
  ASSUME IInv, NEW c \in Client, Respawn(c)
  PROVE  IInv'
<1>1. PICK x \in getContextByApp(thread[c].app) :
        Begin(c, [Idle EXCEPT !.pc = "spawn", !.ctx = x, !.app = thread[c].app,
                              !.to = thread[c].next])
  BY DEF Respawn
<1>2. thread[c] \in ThreadState /\ Ready(thread[c]) /\ thread[c].pc = "respawn"
  BY DEF IInv, TypeOK, Requests, Thread, Respawn
<1>3. /\ x \in Ctx \cup {NoCtx} /\ thread[c].app \in App \cup {"none"}
      /\ thread[c].next \in LifecycleState
  BY <1>2, Found DEF getContextByApp, ThreadState, Ready, LifecycleState
<1> DEFINE r == [Idle EXCEPT !.pc = "spawn", !.ctx = x, !.app = thread[c].app,
                             !.to = thread[c].next]
<1>4. r \in ThreadState /\ Ready(r) /\ r.pc \notin Holding
  BY <1>3 DEF ThreadState, Idle, Ready, Holding
<1>5. thread[c].pc # "post" /\ calls' \in Nat
  BY <1>2 DEF Respawn, IInv, TypeOK
<1> QED
  BY <1>1, <1>4, <1>5, BeginStep

LEMMA SpawnNewStep ==
  ASSUME IInv, NEW c \in Client, SpawnNew(c)
  PROVE  IInv'
<1> USE BoundAssumption
<1> DEFINE x == created + 1
           r == [thread[c] EXCEPT !.pc = "add", !.ctx = x, !.first = TRUE]
<1>1. x \in Ctx /\ x \in 0..MaxCalls
  BY DEF SpawnNew, Ctx, IInv, TypeOK
<1>2. c \in Thread /\ thread[c] \in ThreadState /\ Ready(thread[c])
      /\ thread[c].pc = "spawn"
  BY DEF IInv, TypeOK, Requests, Thread, SpawnNew
<1>3. r \in ThreadState /\ Ready(r)
  <2>1. r \in ThreadState
    BY <1>1, <1>2, ThreadUpdates
  <2>2. r.pc = "add" /\ r.ctx = x /\ r.to = thread[c].to
    BY <1>2 DEF ThreadState
  <2>3. r.to \in LifecycleState
    BY <1>2, <2>2 DEF Ready
  <2> QED
    BY <1>1, <2>1, <2>2, <2>3 DEF Ready
<1>4. thread' = [thread EXCEPT ![c] = r] /\ mAdminLock' = c /\ mAdminLock = NoLock
  BY DEF SpawnNew
<1>5. /\ thread' \in [Thread -> ThreadState]
      /\ Requests' /\ Locked' /\ NoLostWakeUp'
  BY <1>2, <1>3, <1>4, ThreadMoves DEF SpawnNew, reqVars, workVars
<1>6. app' \in [Ctx -> App \cup {"none"}] /\ target' \in [Ctx -> LifecycleState]
  BY <1>2 DEF SpawnNew, IInv, TypeOK, ThreadState, Ready
<1>7. created' \in 0..MaxCalls /\ loaded' \subseteq 1..created'
  BY <1>1 DEF SpawnNew, IInv, TypeOK
<1>8. TypeOK'
  BY <1>2, <1>5, <1>6, <1>7
     DEF SpawnNew, IInv, TypeOK, pendVars, reqVars, workVars, extVars, bookVars
<1> QED
  BY <1>5, <1>8, Aside DEF SpawnNew, reqVars, workVars

LEMMA MarkTargetStep ==
  ASSUME IInv, NEW c \in Client, MarkTarget(c)
  PROVE  IInv'
<1> DEFINE r == [thread[c] EXCEPT !.pc = "add"]
<1>1. /\ c \in Thread /\ thread[c] \in ThreadState /\ Ready(thread[c])
      /\ thread[c].pc \in {"spawn", "set", "unload", "kill"}
  BY DEF IInv, TypeOK, Requests, Thread, MarkTarget
<1>2. thread[c].ctx \in Ctx /\ thread[c].to \in LifecycleState
  BY <1>1 DEF MarkTarget, ThreadState, Ready
<1>3. r \in ThreadState /\ Ready(r)
  <2>1. r \in ThreadState
    BY <1>1, <1>2, ThreadUpdates
  <2>2. r.ctx = thread[c].ctx /\ r.to = thread[c].to /\ r.pc = "add"
    BY <1>1 DEF ThreadState
  <2>3. Ready(r)
    BY <1>2, <2>2 DEF Ready
  <2> QED
    BY <2>1, <2>3
<1>4. thread' = [thread EXCEPT ![c] = r] /\ mAdminLock' = c /\ mAdminLock = NoLock
  BY DEF MarkTarget
<1>5. /\ thread' \in [Thread -> ThreadState]
      /\ Requests' /\ Locked' /\ NoLostWakeUp'
  BY <1>1, <1>3, <1>4, ThreadMoves DEF MarkTarget, reqVars, workVars
<1>6. target' \in [Ctx -> LifecycleState]
  BY <1>2 DEF MarkTarget, IInv, TypeOK
<1>7. TypeOK'
  BY <1>1, <1>5, <1>6
     DEF MarkTarget, IInv, TypeOK, pendVars, reqVars, workVars, extVars, bookVars
<1> QED
  BY <1>5, <1>7, Aside DEF MarkTarget, reqVars, workVars

LEMMA PushRequestStep ==
  ASSUME IInv, NEW t \in Thread, PushRequest(t)
  PROVE  IInv'
<1> DEFINE r == [thread[t] EXCEPT !.pc = "post"]
<1>1. thread[t] \in ThreadState /\ Ready(thread[t]) /\ thread[t].pc = "add"
  BY DEF IInv, TypeOK, Requests, PushRequest
<1>2. thread[t].ctx \in Ctx /\ thread[t].to \in LifecycleState /\ mAdminLock = t
  BY <1>1 DEF Ready, IInv, Locked, Holding
<1>3. r \in ThreadState /\ Ready(r) /\ r.pc = "post"
  <2>1. r \in ThreadState
    BY <1>1, <1>2, ThreadUpdates
  <2>2. r.ctx = thread[t].ctx /\ r.to = thread[t].to /\ r.pc = "post"
    BY <1>1 DEF ThreadState
  <2>3. Ready(r)
    BY <1>2, <2>2 DEF Ready
  <2> QED
    BY <2>1, <2>2, <2>3
<1>4. thread' = [thread EXCEPT ![t] = r] /\ mAdminLock' = mAdminLock
  BY DEF PushRequest
<1>5. thread' \in [Thread -> ThreadState] /\ Requests' /\ Locked'
  BY <1>2, <1>3, <1>4, ThreadMoves
<1>6. NoLostWakeUp'
  BY <1>3, <1>4, <1>5 DEF NoLostWakeUp, Posting
<1>7. gRequests' \in Seq([ctx : Ctx, to : LifecycleState])
  BY <1>2 DEF PushRequest, IInv, TypeOK
<1>8. TypeOK'
  BY <1>5, <1>7
     DEF PushRequest, IInv, TypeOK, ctxVars, pendVars, workVars, extVars, bookVars
<1>9. wpc \notin {"walk", "run", "render", "terminate"} /\ wpc' = wpc
  BY DEF PushRequest, RequestMutexFree, workVars
<1> QED
  BY <1>5, <1>6, <1>8, <1>9, Aside DEF PushRequest, ctxVars, pendVars, workVars

LEMMA PostRequestStep ==
  ASSUME IInv, NEW t \in Thread, PostRequest(t)
  PROVE  IInv'
<1>1. thread[t] \in ThreadState /\ Ready(thread[t]) /\ thread[t].pc = "post"
  BY DEF IInv, TypeOK, Requests, PostRequest
<1>2. /\ thread[t].ctx \in Ctx /\ thread[t].to \in LifecycleState
      /\ mAdminLock = t
  BY <1>1 DEF Ready, IInv, Locked, Holding
<1>3. thread' \in [Thread -> ThreadState] /\ Requests' /\ Locked'
  <2>1. CASE thread[t].left > 0
    <3> DEFINE r == [thread[t] EXCEPT !.pc = "add", !.left = @ - 1]
    <3>1. r \in ThreadState
      BY <1>1, <1>2, <2>1, ThreadUpdates
    <3>2. r.ctx = thread[t].ctx /\ r.to = thread[t].to /\ r.pc = "add"
      BY <1>1 DEF ThreadState
    <3>3. Ready(r)
      BY <1>2, <3>2 DEF Ready
    <3>4. thread' = [thread EXCEPT ![t] = r] /\ mAdminLock' = mAdminLock
      BY <2>1 DEF PostRequest
    <3> QED
      BY <1>2, <3>1, <3>3, <3>4, ThreadMoves
  <2>2. CASE ~(thread[t].left > 0) /\ thread[t].first = TRUE
    <3> DEFINE r == [thread[t] EXCEPT !.pc = "await"]
    <3>1. r \in ThreadState
      BY <1>1, <1>2, ThreadUpdates
    <3>2. r.ctx = thread[t].ctx /\ r.pc = "await"
      BY <1>1 DEF ThreadState
    <3>3. Ready(r)
      BY <1>2, <3>2 DEF Ready
    <3>4. thread' = [thread EXCEPT ![t] = r] /\ mAdminLock' = mAdminLock
      BY <2>2 DEF PostRequest
    <3> QED
      BY <1>2, <3>1, <3>3, <3>4, ThreadMoves
  <2>3. CASE ~(thread[t].left > 0) /\ thread[t].first = FALSE
    <3> DEFINE r == IF thread[t].next = "none" THEN Idle
                    ELSE [thread[t] EXCEPT !.pc = "respawn"]
    <3>1. r \in ThreadState
      BY <1>1, <1>2, ThreadUpdates
    <3>2. r.pc \notin Holding /\ Ready(r)
      BY <1>1 DEF ThreadState, Idle, Ready, Holding
    <3>3. thread' = [thread EXCEPT ![t] = r] /\ mAdminLock' = NoLock
      BY <2>3 DEF PostRequest
    <3>4. mAdminLock \in {t, NoLock}
      BY <1>2
    <3> HIDE DEF r
    <3> QED
      BY <3>1, <3>2, <3>3, <3>4, ThreadMoves
  <2> QED
    BY <1>1, <2>1, <2>2, <2>3 DEF ThreadState
<1>4. gSem' \in Nat /\ gSem' > 0
  BY DEF PostRequest, Post, IInv, TypeOK
<1>5. NoLostWakeUp'
  BY <1>4 DEF NoLostWakeUp
<1>6. mAdminLock' \in Thread \cup {NoLock}
  BY DEF PostRequest, IInv, TypeOK
<1>7. TypeOK'
  BY <1>3, <1>4, <1>6
     DEF PostRequest, IInv, TypeOK, ctxVars, pendVars, workVars, extVars, bookVars
<1> QED
  BY <1>3, <1>5, <1>7, Aside DEF PostRequest, ctxVars, pendVars, workVars

LEMMA AwaitLoadingStep ==
  ASSUME IInv, NEW c \in Client, AwaitLoading(c)
  PROVE  IInv'
<1>1. c \in Thread /\ Idle \in ThreadState /\ Ready(Idle) /\ Idle.pc \notin Holding
  BY DEF Thread, ThreadState, Idle, Ready, Holding, NoCtx
<1>2. /\ thread[c].ctx \in Ctx /\ mAdminLock = c
      /\ thread[c].pc # "post"
  BY <1>1 DEF AwaitLoading, IInv, Requests, Ready, Locked, Holding
<1>3. /\ thread' \in [Thread -> ThreadState]
      /\ Requests' /\ Locked' /\ NoLostWakeUp'
  BY <1>1, <1>2, ThreadMoves DEF AwaitLoading, reqVars, workVars
<1>4. loadSem' \in [Ctx -> Nat]
  BY <1>2 DEF AwaitLoading, IInv, TypeOK
<1>5. TypeOK'
  BY <1>3, <1>4
     DEF AwaitLoading, IInv, TypeOK, pendVars, reqVars, workVars, extVars, bookVars
<1> QED
  BY <1>3, <1>5, Aside DEF AwaitLoading, pendVars, reqVars, workVars

(* A job leaves the queue; Dispatch then adds requests or none.            *)
LEMMA DispatchMoves ==
  ASSUME IInv, mAdminLock = NoLock, UNCHANGED <<wpc, gRequests, gSem>>,
         \/ UNCHANGED apiVars
         \/ \E x \in Ctx, to \in LifecycleState, n \in {1, 2} : AddFromDispatch(x, to, n)
  PROVE  /\ thread' \in [Thread -> ThreadState] /\ mAdminLock' \in Thread \cup {NoLock}
         /\ Requests' /\ Locked' /\ NoLostWakeUp'
<1>1. CASE UNCHANGED apiVars
  BY <1>1 DEF apiVars, IInv, TypeOK, Requests, Ready, Locked, NoLostWakeUp, Posting
<1>2. ASSUME NEW x \in Ctx, NEW to \in LifecycleState, NEW n \in {1, 2},
             AddFromDispatch(x, to, n)
      PROVE  /\ thread' \in [Thread -> ThreadState]
             /\ mAdminLock' \in Thread \cup {NoLock}
             /\ Requests' /\ Locked' /\ NoLostWakeUp'
  <2> DEFINE r == [Idle EXCEPT !.pc = "add", !.ctx = x, !.to = to, !.left = n - 1]
  <2>1. r \in ThreadState /\ Ready(r)
    <3>1. n - 1 \in Nat
      OBVIOUS
    <3>2. r \in ThreadState
      BY <3>1 DEF ThreadState, Idle
    <3>3. r.pc = "add" /\ r.ctx = x /\ r.to = to
      BY DEF Idle
    <3> QED
      BY <3>2, <3>3 DEF Ready
  <2>2. Pool \in Thread
    BY DEF Thread
  <2>3. thread[Pool].pc # "post"
    BY <2>2, ThreadAssumption DEF IInv, Locked, Holding
  <2>4. thread' = [thread EXCEPT ![Pool] = r] /\ mAdminLock' = Pool
    BY <1>2 DEF AddFromDispatch
  <2> QED
    BY <2>1, <2>2, <2>3, <2>4, ThreadMoves
<1> QED
  BY <1>1, <1>2

LEMMA JobsStep ==
  ASSUME IInv, NEW j \in jobs,
         HandleUnloaded(j) \/ HandleAwaited(j) \/ HandleTerminated(j)
  PROVE  IInv'
<1>1. mAdminLock = NoLock /\ jobs' \subseteq Job
  <2>1. TakeJob(j)
    BY DEF HandleUnloaded, HandleAwaited, HandleTerminated
  <2> QED
    BY <2>1 DEF TakeJob, IInv, TypeOK
<1>2. /\ UNCHANGED <<created, app, inst, state, loadSem, announced, uuid, pendVars,
                      reqVars, workVars, extVars, bookVars>>
      /\ loaded' \subseteq loaded
      /\ target' \in [Ctx -> LifecycleState]
      /\ \/ UNCHANGED apiVars
         \/ \E x \in Ctx, to \in LifecycleState, n \in {1, 2} : AddFromDispatch(x, to, n)
  <2>1. CASE HandleUnloaded(j)
    BY <2>1 DEF HandleUnloaded, IInv, TypeOK
  <2>2. CASE HandleAwaited(j)
    <3>1. PICK x \in getContextByInst(j.inst) :
            IF x = NoCtx THEN UNCHANGED apiVars
            ELSE addStateTransitionRequest(x, IF j.kind = "running" THEN "onAppRunning"
                                                                    ELSE "onFirstFrame")
      BY <2>2 DEF HandleAwaited
    <3>2. x # NoCtx => x \in Ctx /\ target[x] \in LifecycleState
      BY Found DEF getContextByInst, IInv, TypeOK
    <3>3. \/ UNCHANGED apiVars
          \/ \E y \in Ctx, to \in LifecycleState, n \in {1, 2} : AddFromDispatch(y, to, n)
      BY <3>1, <3>2 DEF addStateTransitionRequest
    <3> QED
      BY <2>2, <3>3 DEF HandleAwaited, ctxVars, IInv, TypeOK
  <2>3. CASE HandleTerminated(j)
    <3>1. PICK x \in getContextByInst(j.inst) :
            IF x = NoCtx THEN UNCHANGED <<target, apiVars>>
            ELSE IF state[x] = "TERMINATING"
            THEN addStateTransitionRequest(x, "onAppTerminating") /\ UNCHANGED target
            ELSE /\ target' = [target EXCEPT ![x] = "TERMINATING"]
                 /\ AddFromDispatch(x, "TERMINATING", 2)
      BY <2>3 DEF HandleTerminated
    <3>2. x # NoCtx => x \in Ctx /\ target[x] \in LifecycleState
      BY Found DEF getContextByInst, IInv, TypeOK
    <3>3. \/ UNCHANGED apiVars
          \/ \E y \in Ctx, to \in LifecycleState, n \in {1, 2} : AddFromDispatch(y, to, n)
      <4>1. "TERMINATING" \in LifecycleState
        BY DEF LifecycleState
      <4> QED
        BY <3>1, <3>2, <4>1 DEF addStateTransitionRequest
    <3>4. target' \in [Ctx -> LifecycleState]
      BY <3>1 DEF IInv, TypeOK, LifecycleState
    <3> QED
      BY <2>3, <3>3, <3>4 DEF HandleTerminated
  <2> QED
    BY <2>1, <2>2, <2>3
<1>3. wpc' = wpc /\ gRequests' = gRequests /\ gSem' = gSem
  BY <1>2 DEF workVars, reqVars
<1>4. /\ thread' \in [Thread -> ThreadState] /\ mAdminLock' \in Thread \cup {NoLock}
      /\ Requests' /\ Locked' /\ NoLostWakeUp'
  BY <1>1, <1>2, <1>3, DispatchMoves
<1>5. TypeOK'
  BY <1>1, <1>2, <1>4 DEF IInv, TypeOK, pendVars, reqVars, workVars, extVars, bookVars
<1> QED
  BY <1>2, <1>4, <1>5, Aside DEF workVars, reqVars

-----------------------------------------------------------------------------
(* Steps that leave the threads alone.                                     *)

LEMMA ThreadsStay ==
  ASSUME IInv, UNCHANGED apiVars
  PROVE  /\ Requests' /\ Locked'
         /\ wpc' # "wait" => NoLostWakeUp'
         /\ wpc' = wpc /\ gRequests' = gRequests /\ gSem' \in Nat /\ gSem' >= gSem
              => NoLostWakeUp'
<1>1. Requests' /\ Locked' /\ (Posting' <=> Posting)
  BY DEF apiVars, IInv, Requests, Ready, Locked, Posting
<1>2. gSem \in Nat
  BY DEF IInv, TypeOK
<1> QED
  BY <1>1, <1>2 DEF IInv, NoLostWakeUp

LEMMA AbortStep ==
  ASSUME IInv, Abort
  PROVE  IInv'
<1>1. TypeOK'
  BY DEF Abort, IInv, TypeOK, ctxVars, pendVars, reqVars, workVars, apiVars, extVars
<1>2. Requests' /\ Locked' /\ NoLostWakeUp'
  BY ThreadsStay DEF Abort, reqVars, workVars, IInv, TypeOK
<1> QED
  BY <1>1, <1>2, Aside DEF Abort, ctxVars, reqVars, workVars

LEMMA DeinitializeStep ==
  ASSUME IInv, Deinitialize
  PROVE  IInv'
<1>1. TypeOK'
  <2>1. gSem' = gSem + 1 /\ sRunning' = FALSE /\ gRequests' = gRequests
    BY Zenon DEF Deinitialize
  <2>2. UNCHANGED <<ctxVars, pendVars, workVars, apiVars, jobs, extVars, bookVars>>
    BY DEF Deinitialize
  <2>3. gSem' \in Nat
    BY <2>1 DEF IInv, TypeOK
  <2>4. sRunning' \in BOOLEAN
    BY <2>1
  <2>5. gRequests' \in Seq([ctx : Ctx, to : LifecycleState])
    BY <2>1 DEF IInv, TypeOK
  <2> QED
    BY <2>2, <2>3, <2>4, <2>5
       DEF IInv, TypeOK, ctxVars, pendVars, workVars, apiVars, extVars, bookVars
<1>2. Requests' /\ Locked' /\ NoLostWakeUp'
  BY ThreadsStay DEF Deinitialize, workVars, IInv, TypeOK
<1> QED
  BY <1>1, <1>2, Aside DEF Deinitialize, ctxVars, workVars

LEMMA ExternalStepStep ==
  ASSUME IInv, NEW i \in Inst, ExternalStep(i) \/ ContainerExits(i)
  PROVE  IInv'
<1>1. /\ UNCHANGED <<ctxVars, pendVars, reqVars, workVars, apiVars, calls, aborted>>
      /\ container' \in [Inst -> ContainerState] /\ frame' \in [Inst -> BOOLEAN]
      /\ jobs' \subseteq Job /\ exits' \in Nat
  <2>1. CASE ContainerRunning(i)
    BY <2>1 DEF ContainerRunning, Submit, Job, ContainerState, IInv, TypeOK, bookVars
  <2>2. CASE ContainerStopped(i)
    BY <2>2 DEF ContainerStopped, Submit, Job, ContainerState, IInv, TypeOK, bookVars
  <2>3. CASE ContainerExits(i)
    BY <2>3 DEF ContainerExits, Submit, Job, ContainerState, IInv, TypeOK
  <2>4. CASE FirstFrame(i)
    BY <2>4 DEF FirstFrame, Submit, Job, IInv, TypeOK, bookVars
  <2> QED
    BY <2>1, <2>2, <2>3, <2>4 DEF ExternalStep
<1>1a. ran' = ran /\ unstopped' = unstopped
  BY DEF ExternalStep, ContainerRunning, ContainerStopped, ContainerExits, FirstFrame
<1>2. TypeOK'
  BY <1>1, <1>1a DEF IInv, TypeOK, ctxVars, pendVars, reqVars, workVars, apiVars
<1>3. Requests' /\ Locked' /\ NoLostWakeUp'
  BY <1>1, ThreadsStay DEF reqVars, workVars, IInv, TypeOK
<1> QED
  BY <1>1, <1>2, <1>3, Aside DEF ctxVars, reqVars, workVars

(* The request handler thread between two requests.                        *)
LEMMA WakeUpStep ==
  ASSUME IInv, WakeUp
  PROVE  IInv'
<1>1. TypeOK'
  BY DEF WakeUp, IInv, TypeOK, ctxVars, pendVars, apiVars, extVars, bookVars
<1>2. Requests' /\ Locked' /\ NoLostWakeUp'
  BY ThreadsStay DEF WakeUp
<1> QED
  BY <1>1, <1>2, Aside DEF WakeUp, ctxVars

LEMMA QueueDrainedStep ==
  ASSUME IInv, QueueDrained
  PROVE  IInv'
<1>1. TypeOK'
  BY DEF QueueDrained, IInv, TypeOK, ctxVars, pendVars, reqVars, apiVars, extVars, bookVars
<1>2. Requests' /\ Locked'
  BY ThreadsStay DEF QueueDrained
<1>3. NoLostWakeUp'
  BY DEF QueueDrained, reqVars, NoLostWakeUp
<1> QED
  BY <1>1, <1>2, <1>3, Aside DEF QueueDrained, ctxVars

LEMMA NoPathStep ==
  ASSUME IInv, NoPath
  PROVE  IInv'
<1>1. TypeOK'
  BY DEF NoPath, IInv, TypeOK, ctxVars, pendVars, reqVars, apiVars, extVars, bookVars
<1>2. Requests' /\ Locked' /\ NoLostWakeUp'
  BY ThreadsStay DEF NoPath
<1> QED
  BY <1>1, <1>2, Aside DEF NoPath, ctxVars

LEMMA AlreadyThereStep ==
  ASSUME IInv, AlreadyThere
  PROVE  IInv'
<1>1. gRequests' \in Seq([ctx : Ctx, to : LifecycleState]) /\ wpc = "drain" /\ wpc' = wpc
  BY DEF AlreadyThere, IInv, TypeOK, workVars
<1>2. TypeOK'
  BY <1>1 DEF AlreadyThere, IInv, TypeOK, ctxVars, pendVars, workVars, apiVars, extVars,
              bookVars
<1>3. Requests' /\ Locked' /\ NoLostWakeUp'
  BY <1>1, ThreadsStay DEF AlreadyThere
<1> QED
  BY <1>1, <1>2, <1>3, Aside DEF AlreadyThere, ctxVars, workVars

-----------------------------------------------------------------------------
(* The request handler thread with a request in hand.                      *)

LEMMA HeadOfSeq ==
  ASSUME NEW S, NEW q \in Seq(S), q # <<>>
  PROVE  q[1] \in S
<1>1. Len(q) \in Nat /\ Len(q) > 0
  OBVIOUS
<1> QED
  BY <1>1

LEMMA HeadRequest ==
  ASSUME IInv, gRequests # <<>>
  PROVE  /\ Cur \in Ctx /\ Head1.to \in LifecycleState
         /\ Tail(gRequests) \in Seq([ctx : Ctx, to : LifecycleState])
<1>1. gRequests \in Seq([ctx : Ctx, to : LifecycleState])
  BY DEF IInv, TypeOK
<1>2. gRequests[1] \in [ctx : Ctx, to : LifecycleState]
  BY <1>1, HeadOfSeq
<1>3. Tail(gRequests) \in Seq([ctx : Ctx, to : LifecycleState])
  BY <1>1
<1> QED
  BY <1>2, <1>3 DEF Cur, Head1

(* changeState begins to walk along p for the request at the head.          *)
LEMMA TakeInHand ==
  ASSUME IInv, wpc = "drain", gRequests # <<>>, wpc' = "walk", TypeOK',
         Walk(path'), path' # <<>> => Edge(state[Cur], path'[1]),
         UNCHANGED <<state, inst, gRequests, pendingStates, pendingEvent, apiVars>>,
         pending' = [pending EXCEPT ![Cur] = FALSE]
  PROVE  IInv'
<1>1. Cur \in Ctx /\ Cur' = Cur
  BY HeadRequest DEF Cur
<1>2. /\ pending'[Cur] = FALSE
      /\ \A x \in Ctx \ {Cur} : pending'[x] = pending[x]
  BY <1>1 DEF IInv, TypeOK
<1>3. Hands'
  BY <1>1, <1>2 DEF Hands
<1>4. Requests' /\ Locked' /\ NoLostWakeUp'
  BY ThreadsStay
<1>5. Named'
  BY DEF IInv, Named
<1>6. \A x \in Ctx : ~InHand(x) /\ (InHand(x)' <=> x = Cur)
  BY <1>1 DEF InHand
<1>7. PendingCoherent'
  <2> SUFFICES ASSUME NEW x \in Ctx PROVE Coherent(x)'
    BY DEF PendingCoherent
  <2>1. CASE x = Cur
    BY <1>2, <1>6, <2>1 DEF Coherent
  <2>2. CASE x # Cur
    <3>1. pending'[x] = pending[x] /\ Coherent(x)
      BY <1>2, <2>2 DEF IInv, PendingCoherent
    <3> QED
      BY <1>6, <3>1 DEF Coherent
  <2> QED
    BY <2>1, <2>2
<1> QED
  BY <1>3, <1>4, <1>5, <1>7 DEF IInv

LEMMA ContinuePathStep ==
  ASSUME IInv, ContinuePath
  PROVE  IInv'
<1>1. Cur \in Ctx
  BY HeadRequest DEF ContinuePath
<1> DEFINE p == pendingStates[Cur]
<1>2. p \in Seq(LifecycleState) /\ p # <<>> /\ Walk(p) /\ p[1] = state[Cur]
  BY <1>1 DEF ContinuePath, IInv, TypeOK, PendingCoherent, Coherent
<1>3. /\ Tail(p) \in Seq(LifecycleState) /\ Walk(Tail(p))
      /\ Tail(p) # <<>> => Edge(state[Cur], Tail(p)[1])
  BY <1>2, TailWalk
<1>4. path' = Tail(p)
  BY DEF ContinuePath
<1>5. announced' \in [Ctx -> LifecycleState] /\ pending' \in [Ctx -> BOOLEAN]
  <2>1. state[Cur] \in LifecycleState /\ announced \in [Ctx -> LifecycleState]
    BY <1>1 DEF IInv, TypeOK
  <2>2. announced' \in {announced, [announced EXCEPT ![Cur] = state[Cur]]}
    BY Zenon DEF ContinuePath, sendEvent
  <2>3. pending \in [Ctx -> BOOLEAN] /\ pending' = [pending EXCEPT ![Cur] = FALSE]
    BY DEF ContinuePath, IInv, TypeOK
  <2> QED
    BY <1>1, <2>1, <2>2, <2>3
<1>6. TypeOK'
  BY <1>3, <1>4, <1>5
     DEF ContinuePath, IInv, TypeOK, reqVars, apiVars, extVars, bookVars
<1> HIDE DEF p
<1> QED
  BY <1>3, <1>4, <1>6, TakeInHand DEF ContinuePath, reqVars

LEMMA StartPathStep ==
  ASSUME IInv, StartPath
  PROVE  IInv'
<1> DEFINE p == PathOf[state[Cur]][Head1.to]
<1>1. Cur \in Ctx /\ Head1.to \in LifecycleState /\ state[Cur] \in LifecycleState
  BY HeadRequest DEF StartPath, IInv, TypeOK
<1>2. p \in Seq(LifecycleState) /\ p # <<>> /\ p[1] = state[Cur] /\ Walk(p)
  BY <1>1, PathAssumption DEF StartPath
<1>3. /\ Tail(p) \in Seq(LifecycleState) /\ Walk(Tail(p))
      /\ Tail(p) # <<>> => Edge(state[Cur], Tail(p)[1])
  BY <1>2, TailWalk
<1>4. path' = Tail(p)
  BY DEF StartPath
<1>5. pending' = [pending EXCEPT ![Cur] = FALSE]
  BY <1>1 DEF StartPath, pendVars, IInv, TypeOK
<1>6. TypeOK'
  BY <1>3, <1>4
     DEF StartPath, IInv, TypeOK, ctxVars, pendVars, reqVars, apiVars, extVars, bookVars
<1> HIDE DEF p
<1> QED
  BY <1>3, <1>4, <1>5, <1>6, TakeInHand DEF StartPath, ctxVars, pendVars, reqVars

(* What is known of the walk.                                              *)
LEMMA InTheLoop ==
  ASSUME IInv, wpc \in {"walk", "run", "render", "terminate"}
  PROVE  /\ gRequests # <<>> /\ Cur \in Ctx /\ pending[Cur] = FALSE
         /\ Tail(gRequests) \in Seq([ctx : Ctx, to : LifecycleState])
         /\ path \in Seq(LifecycleState) /\ Walk(path)
         /\ \A x \in Ctx : InHand(x) <=> x = Cur
         /\ path # <<>> =>
              /\ path[1] \in LifecycleState /\ Edge(state[Cur], path[1])
              /\ Tail(path) \in Seq(LifecycleState) /\ Walk(Tail(path))
              /\ Tail(path) # <<>> => Edge(path[1], Tail(path)[1])
<1>1. /\ gRequests # <<>> /\ pending[Cur] = FALSE /\ Walk(path)
      /\ path # <<>> => Edge(state[Cur], path[1])
  BY DEF IInv, Hands
<1>2. path \in Seq(LifecycleState)
  BY DEF IInv, TypeOK
<1>3. \A x \in Ctx : InHand(x) <=> x = Cur
  BY <1>1 DEF InHand
<1>4. path # <<>> =>
         /\ path[1] \in LifecycleState
         /\ Tail(path) \in Seq(LifecycleState) /\ Walk(Tail(path))
         /\ Tail(path) # <<>> => Edge(path[1], Tail(path)[1])
  BY <1>1, <1>2, TailWalk
<1> QED
  BY <1>1, <1>2, <1>3, <1>4, HeadRequest

(* A state is entered without waiting.                                     *)
LEMMA EnteredKeeps ==
  ASSUME IInv, NEW new \in LifecycleState, Walking(new), Entered(Cur, new), TypeOK',
         UNCHANGED <<pendVars, gRequests, wpc, apiVars>>,
         \/ inst' = inst /\ new # "LOADING"
         \/ inst'[Cur] \in Inst /\ \A x \in Ctx \ {Cur} : inst'[x] = inst[x]
  PROVE  IInv'
<1>1. wpc = "walk" /\ path # <<>> /\ path[1] = new /\ path' = Tail(path)
      /\ state' = [state EXCEPT ![Cur] = new]
  BY DEF Walking, Entered
<1>2. /\ gRequests # <<>> /\ Cur \in Ctx /\ pending[Cur] = FALSE
      /\ Edge(state[Cur], new) /\ Walk(path')
      /\ path' # <<>> => Edge(new, path'[1])
      /\ \A x \in Ctx : InHand(x) <=> x = Cur
  BY <1>1, InTheLoop
<1>3. Cur' = Cur /\ \A x \in Ctx : InHand(x)' <=> x = Cur
  BY <1>1, <1>2 DEF Cur, InHand
<1>4. state'[Cur] = new /\ \A x \in Ctx \ {Cur} : state'[x] = state[x]
  BY <1>1, <1>2 DEF IInv, TypeOK
<1>5. Hands'
  BY <1>1, <1>2, <1>3, <1>4 DEF Hands, pendVars
<1>6. Requests' /\ Locked' /\ NoLostWakeUp'
  BY <1>1, ThreadsStay
<1>7. Named'
  <2>1. inst'[Cur] \in Inst \/ new = "UNLOADED"
    <3>1. CASE inst' = inst /\ new # "LOADING"
      <4>1. state[Cur] # "UNLOADED"
        BY <1>2, <3>1, Table
      <4> QED
        BY <1>2, <3>1, <4>1 DEF IInv, Named
    <3> QED
      BY <3>1
  <2>2. \A x \in Ctx \ {Cur} : inst'[x] = inst[x]
    OBVIOUS
  <2> QED
    BY <1>4, <2>1, <2>2 DEF IInv, Named
<1>8. PendingCoherent'
  <2> SUFFICES ASSUME NEW x \in Ctx PROVE Coherent(x)'
    BY DEF PendingCoherent
  <2>1. CASE x = Cur
    BY <1>2, <1>3, <2>1 DEF Coherent, pendVars
  <2>2. CASE x # Cur
    <3>1. Coherent(x) /\ state'[x] = state[x]
      BY <1>4, <2>2 DEF IInv, PendingCoherent
    <3> QED
      BY <1>2, <1>3, <2>2, <3>1 DEF Coherent, pendVars
  <2> QED
    BY <2>1, <2>2
<1> QED
  BY <1>5, <1>6, <1>7, <1>8 DEF IInv

(* A call to another plugin begins.                                        *)
LEMMA CallKeeps ==
  ASSUME IInv, TypeOK', wpc = "walk", path # <<>>,
         UNCHANGED <<state, inst, path, pendVars, gRequests, apiVars>>,
         \/ wpc' = "run" /\ path[1] = "INITIALIZING"
         \/ wpc' = "render" /\ path[1] = "ACTIVE"
         \/ wpc' = "terminate" /\ path[1] = "TERMINATING"
  PROVE  IInv'
<1>1. Cur' = Cur /\ \A x \in Ctx : InHand(x)' <=> InHand(x)
  BY DEF Cur, InHand
<1>2. Hands'
  BY <1>1 DEF IInv, Hands, pendVars
<1>3. Requests' /\ Locked' /\ NoLostWakeUp'
  BY ThreadsStay
<1>4. Named' /\ PendingCoherent'
  BY <1>1 DEF IInv, Named, PendingCoherent, Coherent, pendVars
<1> QED
  BY <1>2, <1>3, <1>4 DEF IInv

(* The call has returned, and the context waits for the event.              *)
LEMMA InterruptKeeps ==
  ASSUME IInv, wpc \in {"run", "render", "terminate"}, NEW e, Interrupt(Cur, e),
         e = AwaitedIn(path[1]), UNCHANGED <<inst, gSem, apiVars>>
  PROVE  /\ TypeOK => /\ pending' \in [Ctx -> BOOLEAN]
                       /\ pendingStates' \in [Ctx -> Seq(LifecycleState)]
                       /\ pendingEvent' \in [Ctx -> Event]
                       /\ state' \in [Ctx -> LifecycleState]
                       /\ gRequests' \in Seq([ctx : Ctx, to : LifecycleState])
                       /\ path' \in Seq(LifecycleState)
                       /\ wpc' = "drain"
         /\ TypeOK' => IInv'
<1>1. /\ gRequests # <<>> /\ Cur \in Ctx /\ pending[Cur] = FALSE
      /\ path \in Seq(LifecycleState) /\ Walk(path) /\ path # <<>>
      /\ path[1] \in {"INITIALIZING", "ACTIVE", "TERMINATING"}
      /\ path[1] \in LifecycleState /\ Edge(state[Cur], path[1])
      /\ Tail(gRequests) \in Seq([ctx : Ctx, to : LifecycleState])
      /\ \A x \in Ctx : InHand(x) <=> x = Cur
  BY InTheLoop DEF IInv, Hands
<1>2. /\ pending' = [pending EXCEPT ![Cur] = TRUE]
      /\ pendingEvent' = [pendingEvent EXCEPT ![Cur] = e]
      /\ pendingStates' = [pendingStates EXCEPT ![Cur] = path]
      /\ state' = [state EXCEPT ![Cur] = path[1]]
      /\ gRequests' = Tail(gRequests) /\ path' = <<>> /\ wpc' = "drain"
  BY DEF Interrupt
<1>3. e \in Event /\ e # "none"
  BY <1>1 DEF AwaitedIn, Event
<1>4. ASSUME TypeOK
      PROVE  /\ pending' \in [Ctx -> BOOLEAN]
             /\ pendingStates' \in [Ctx -> Seq(LifecycleState)]
             /\ pendingEvent' \in [Ctx -> Event]
             /\ state' \in [Ctx -> LifecycleState]
             /\ gRequests' \in Seq([ctx : Ctx, to : LifecycleState])
             /\ path' \in Seq(LifecycleState)
             /\ wpc' = "drain"
  BY <1>1, <1>2, <1>3, <1>4 DEF TypeOK
<1>5. ASSUME TypeOK' PROVE IInv'
  <2>1. /\ pending'[Cur] = TRUE /\ pendingEvent'[Cur] = e
        /\ pendingStates'[Cur] = path /\ state'[Cur] = path[1]
    BY <1>1, <1>2 DEF IInv, TypeOK
  <2>2. \A x \in Ctx \ {Cur} :
          /\ pending'[x] = pending[x] /\ pendingEvent'[x] = pendingEvent[x]
          /\ pendingStates'[x] = pendingStates[x] /\ state'[x] = state[x]
    BY <1>1, <1>2 DEF IInv, TypeOK
  <2>3. Hands' /\ \A x \in Ctx : ~InHand(x)'
    BY <1>2 DEF Hands, InHand
  <2>4. Requests' /\ Locked' /\ NoLostWakeUp'
    BY <1>2, ThreadsStay
  <2>5. Named'
    <3>1. state[Cur] = "UNLOADED" => path[1] = "LOADING"
      BY <1>1, Table
    <3>2. inst[Cur] \in Inst
      BY <1>1, <3>1 DEF IInv, Named
    <3> QED
      BY <2>2, <3>2 DEF IInv, Named
  <2>6. PendingCoherent'
    <3> SUFFICES ASSUME NEW x \in Ctx PROVE Coherent(x)'
      BY DEF PendingCoherent
    <3>1. CASE x = Cur
      BY <1>1, <1>3, <2>1, <3>1 DEF Coherent
    <3>2. CASE x # Cur
      <4>1. Coherent(x)
        BY DEF IInv, PendingCoherent
      <4> QED
        BY <1>1, <2>2, <2>3, <3>2, <4>1 DEF Coherent
    <3> QED
      BY <3>1, <3>2
  <2> QED
    BY <1>5, <2>3, <2>4, <2>5, <2>6 DEF IInv
<1> QED
  BY <1>4, <1>5

(* A step failed: nothing is left of the wait.                             *)
LEMMA FailKeeps ==
  ASSUME IInv, wpc = "walk", StepFails, TypeOK', UNCHANGED <<state, inst, apiVars>>
  PROVE  IInv'
<1>1. Cur \in Ctx /\ \A x \in Ctx : InHand(x) <=> x = Cur
  BY InTheLoop
<1>2. /\ pending'[Cur] = FALSE /\ pendingStates'[Cur] = <<>> /\ pendingEvent'[Cur] = "none"
      /\ \A x \in Ctx \ {Cur} :
           /\ pending'[x] = pending[x] /\ pendingEvent'[x] = pendingEvent[x]
           /\ pendingStates'[x] = pendingStates[x]
  BY <1>1 DEF StepFails, IInv, TypeOK
<1>3. Hands' /\ wpc' = "stuck"
  BY DEF StepFails, Hands
<1>4. Requests' /\ Locked' /\ NoLostWakeUp'
  BY <1>3, ThreadsStay
<1>5. Named'
  BY DEF IInv, Named
<1>6. PendingCoherent'
  <2> SUFFICES ASSUME NEW x \in Ctx PROVE Coherent(x)'
    BY DEF PendingCoherent
  <2>1. CASE x = Cur
    BY <1>2, <2>1 DEF Coherent
  <2>2. CASE x # Cur
    <3>1. Coherent(x)
      BY DEF IInv, PendingCoherent
    <3> QED
      BY <1>1, <1>2, <2>2, <3>1 DEF Coherent
  <2> QED
    BY <2>1, <2>2
<1> QED
  BY <1>3, <1>4, <1>5, <1>6 DEF IInv

-----------------------------------------------------------------------------
(* The states of the path, one lemma per way of entering them.              *)

LEMMA EnterLoadingStep ==
  ASSUME IInv, EnterLoading
  PROVE  IInv'
<1>1. wpc = "walk" /\ path # <<>> /\ "LOADING" \in LifecycleState
  BY DEF EnterLoading, Walking, LifecycleState
<1>2. Cur \in Ctx /\ Tail(path) \in Seq(LifecycleState)
  BY <1>1, InTheLoop
<1>3. uuid + 1 \in Inst /\ uuid + 1 \in 0..MaxInst
  BY BoundAssumption DEF EnterLoading, Inst, IInv, TypeOK
<1>4. /\ inst' = [inst EXCEPT ![Cur] = uuid + 1]
      /\ loadSem' = [loadSem EXCEPT ![Cur] = @ + 1]
      /\ state' = [state EXCEPT ![Cur] = "LOADING"]
      /\ announced' = [announced EXCEPT ![Cur] = "LOADING"]
      /\ path' = Tail(path) /\ uuid' = uuid + 1
  BY DEF EnterLoading, SetInstance, PostLoading, Entered, sendEvent
<1>5. /\ inst' \in [Ctx -> Inst \cup {NoInst}] /\ loadSem' \in [Ctx -> Nat]
      /\ state' \in [Ctx -> LifecycleState] /\ announced' \in [Ctx -> LifecycleState]
  BY <1>1, <1>2, <1>3, <1>4 DEF IInv, TypeOK
<1>6. TypeOK'
  BY <1>2, <1>3, <1>4, <1>5
     DEF EnterLoading, IInv, TypeOK, pendVars, reqVars, apiVars, extVars, bookVars
<1>7. inst'[Cur] \in Inst /\ \A x \in Ctx \ {Cur} : inst'[x] = inst[x]
  BY <1>2, <1>3, <1>4 DEF IInv, TypeOK
<1> QED
  BY <1>1, <1>6, <1>7, EnteredKeeps DEF EnterLoading, reqVars

LEMMA EnteredTypes ==
  ASSUME IInv, NEW new \in LifecycleState, Walking(new), Entered(Cur, new)
  PROVE  /\ state' \in [Ctx -> LifecycleState] /\ announced' \in [Ctx -> LifecycleState]
         /\ path' \in Seq(LifecycleState) /\ Cur \in Ctx /\ Edge(state[Cur], new)
<1>1. Cur \in Ctx /\ Tail(path) \in Seq(LifecycleState) /\ Edge(state[Cur], new)
  BY InTheLoop DEF Walking
<1> QED
  BY <1>1 DEF Entered, sendEvent, IInv, TypeOK

LEMMA EnterSettledStep ==
  ASSUME IInv, NEW new \in LifecycleState, EnterSettled(new)
  PROVE  IInv'
<1>1. Walking(new) /\ Entered(Cur, new) /\ new # "LOADING"
  BY DEF EnterSettled
<1>2. TypeOK'
  BY <1>1, EnteredTypes
     DEF EnterSettled, IInv, TypeOK, pendVars, reqVars, apiVars, extVars, bookVars
<1> QED
  BY <1>1, <1>2, EnteredKeeps DEF EnterSettled, reqVars

LEMMA EnterActiveStep ==
  ASSUME IInv, EnterActive
  PROVE  IInv'
<1>1. Walking("ACTIVE") /\ Entered(Cur, "ACTIVE") /\ "ACTIVE" \in LifecycleState
  BY DEF EnterActive, LifecycleState
<1>2. TypeOK'
  BY <1>1, EnteredTypes
     DEF EnterActive, IInv, TypeOK, pendVars, reqVars, apiVars, extVars, bookVars
<1> QED
  BY <1>1, <1>2, EnteredKeeps DEF EnterActive, reqVars

LEMMA EnterUnloadedStep ==
  ASSUME IInv, EnterUnloaded
  PROVE  IInv'
<1>1. Walking("UNLOADED") /\ Entered(Cur, "UNLOADED") /\ "UNLOADED" \in LifecycleState
  BY DEF EnterUnloaded, LifecycleState
<1>2. Cur \in Ctx /\ state[Cur] # "UNLOADED"
  BY <1>1, EnteredTypes, Table
<1>3. jobs' \subseteq Job
  BY <1>2 DEF EnterUnloaded, Job, IInv, Named, TypeOK
<1>4. TypeOK'
  BY <1>1, <1>3, EnteredTypes
     DEF EnterUnloaded, IInv, TypeOK, pendVars, reqVars, apiVars, extVars, bookVars
<1> QED
  BY <1>1, <1>4, EnteredKeeps DEF EnterUnloaded, reqVars

(* Only LOADING is entered by a context that has no instance yet.           *)
LEMMA OnlyNamedStops ==
  ASSUME IInv, wpc \in {"walk", "run", "render", "terminate"}, path # <<>>,
         path[1] # "LOADING"
  PROVE  Cur \in Ctx /\ state[Cur] # "UNLOADED" /\ inst[Cur] \in Inst
<1>1. Cur \in Ctx /\ path[1] \in LifecycleState /\ Edge(state[Cur], path[1])
  BY InTheLoop
<1>2. state[Cur] # "UNLOADED"
  BY <1>1, Table
<1> QED
  BY <1>1, <1>2 DEF IInv, Named

LEMMA EnterInitializingStep ==
  ASSUME IInv, EnterInitializing
  PROVE  IInv'
<1>1. container' \in [Inst -> ContainerState]
  BY DEF EnterInitializing, ContainerState, IInv, TypeOK
<1>2. wpc = "walk" /\ path # <<>> /\ path[1] = "INITIALIZING" /\ wpc' = "run"
  BY DEF EnterInitializing, Walking
<1>1a. ran' \in [Inst -> Nat]
  <2>1. inst[Cur] \in Inst
    BY <1>2, OnlyNamedStops
  <2> QED
    BY <2>1 DEF EnterInitializing, IInv, TypeOK
<1>3. TypeOK'
  BY <1>1, <1>1a, <1>2
     DEF EnterInitializing, IInv, TypeOK, ctxVars, pendVars, reqVars, apiVars, bookVars
<1> QED
  BY <1>2, <1>3, CallKeeps DEF EnterInitializing, ctxVars, reqVars

LEMMA EnterActiveNotReadyStep ==
  ASSUME IInv, EnterActiveNotReady
  PROVE  IInv'
<1>1. wpc = "walk" /\ path # <<>> /\ path[1] = "ACTIVE" /\ wpc' = "render"
  BY DEF EnterActiveNotReady, Walking
<1>2. TypeOK'
  BY <1>1
     DEF EnterActiveNotReady, IInv, TypeOK, ctxVars, pendVars, reqVars, apiVars, extVars,
         bookVars
<1> QED
  BY <1>1, <1>2, CallKeeps DEF EnterActiveNotReady, ctxVars, reqVars

LEMMA EnterTerminatingStep ==
  ASSUME IInv, EnterTerminating
  PROVE  IInv'
<1>1. wpc = "walk" /\ path # <<>> /\ path[1] = "TERMINATING" /\ wpc' = "terminate"
  BY DEF EnterTerminating, Walking
<1>2. Cur \in Ctx
  BY <1>1, InTheLoop
<1>2a. inst[Cur] \in Inst
  BY <1>1, OnlyNamedStops
<1>3. /\ container' \in [Inst -> ContainerState] /\ announced' \in [Ctx -> LifecycleState]
      /\ unstopped' \subseteq Inst
  BY <1>2, <1>2a DEF EnterTerminating, StopContainer, sendEvent, ContainerState,
                     LifecycleState, IInv, TypeOK
<1>4. TypeOK'
  BY <1>1, <1>3
     DEF EnterTerminating, IInv, TypeOK, pendVars, reqVars, apiVars, bookVars
<1> QED
  BY <1>1, <1>4, CallKeeps DEF EnterTerminating, reqVars

LEMMA Returned ==
  ASSUME IInv, RunReturned \/ NotReadyReturned \/ TerminateReturned
  PROVE  IInv'
<1>1. PICK e : /\ wpc \in {"run", "render", "terminate"}
               /\ Interrupt(Cur, e) /\ e = AwaitedIn(path[1])
  BY DEF RunReturned, NotReadyReturned, TerminateReturned, IInv, Hands, AwaitedIn
<1>2. UNCHANGED <<created, loaded, app, inst, target, loadSem, announced, uuid, gSem,
                  sRunning, apiVars, jobs, extVars, bookVars>>
  BY DEF RunReturned, NotReadyReturned, TerminateReturned
<1>3. Cur \in Ctx
  BY <1>1, InTheLoop
<1>4. pendingOld' \in [Ctx -> LifecycleState]
  BY <1>3 DEF RunReturned, NotReadyReturned, TerminateReturned, IInv, TypeOK
<1>5. /\ pending' \in [Ctx -> BOOLEAN]
      /\ pendingStates' \in [Ctx -> Seq(LifecycleState)]
      /\ pendingEvent' \in [Ctx -> Event]
      /\ state' \in [Ctx -> LifecycleState]
      /\ gRequests' \in Seq([ctx : Ctx, to : LifecycleState])
      /\ path' \in Seq(LifecycleState)
      /\ wpc' = "drain"
  BY <1>1, <1>2, InterruptKeeps DEF IInv
<1>6. TypeOK'
  BY <1>2, <1>4, <1>5 DEF IInv, TypeOK, apiVars, extVars, bookVars
<1> QED
  BY <1>1, <1>2, <1>6, InterruptKeeps

LEMMA Fails ==
  ASSUME IInv,
         \/ \E new \in LifecycleState : EnterSettledFails(new)
         \/ EnterActiveFails \/ EnterTerminatingFails
  PROVE  IInv'
<1>1. /\ wpc = "walk" /\ path # <<>> /\ StepFails
      /\ UNCHANGED <<created, loaded, app, inst, state, target, loadSem, uuid,
                     apiVars, jobs, extVars, bookVars>>
      /\ announced' = announced \/ announced' = [announced EXCEPT ![Cur] = "TERMINATING"]
  BY DEF EnterSettledFails, EnterActiveFails, EnterTerminatingFails, Walking, ctxVars,
         sendEvent
<1>2. Cur \in Ctx
  BY <1>1, InTheLoop
<1>3. /\ announced' \in [Ctx -> LifecycleState]
      /\ pending' \in [Ctx -> BOOLEAN]
      /\ pendingStates' \in [Ctx -> Seq(LifecycleState)]
      /\ pendingEvent' \in [Ctx -> Event]
  <2>1. announced' \in [Ctx -> LifecycleState]
    BY <1>1, <1>2 DEF LifecycleState, IInv, TypeOK
  <2>2. pending' \in [Ctx -> BOOLEAN]
    BY <1>1, <1>2 DEF StepFails, IInv, TypeOK
  <2>3. pendingStates' \in [Ctx -> Seq(LifecycleState)]
    BY <1>1, <1>2 DEF StepFails, IInv, TypeOK
  <2>4. pendingEvent' \in [Ctx -> Event]
    BY <1>1, <1>2 DEF StepFails, Event, IInv, TypeOK
  <2> QED
    BY <2>1, <2>2, <2>3, <2>4
<1>4. path' \in Seq(LifecycleState) /\ wpc' = "stuck" /\ pendingOld' = pendingOld
      /\ UNCHANGED reqVars
  BY <1>1 DEF StepFails
<1>5. TypeOK'
  BY <1>1, <1>3, <1>4 DEF IInv, TypeOK, reqVars, apiVars, extVars, bookVars
<1> QED
  BY <1>1, <1>5, FailKeeps

LEMMA PathDoneStep ==
  ASSUME IInv, PathDone
  PROVE  IInv'
<1>1. /\ Cur \in Ctx /\ pending[Cur] = FALSE
      /\ Tail(gRequests) \in Seq([ctx : Ctx, to : LifecycleState])
      /\ \A x \in Ctx : InHand(x) <=> x = Cur
  BY InTheLoop DEF PathDone
<1>2. /\ pendingStates' = [pendingStates EXCEPT ![Cur] = <<>>]
      /\ pendingEvent' = [pendingEvent EXCEPT ![Cur] = "none"]
      /\ pending' = pending /\ state' = state /\ inst' = inst
      /\ gRequests' = Tail(gRequests) /\ wpc' = "drain"
  BY DEF PathDone, ctxVars
<1>3. pendingStates' \in [Ctx -> Seq(LifecycleState)] /\ pendingEvent' \in [Ctx -> Event]
  BY <1>1, <1>2 DEF Event, IInv, TypeOK
<1>4. TypeOK'
  BY <1>1, <1>2, <1>3 DEF PathDone, IInv, TypeOK, ctxVars, apiVars, extVars, bookVars
<1>5. Hands' /\ \A x \in Ctx : ~InHand(x)'
  BY <1>2 DEF Hands, InHand
<1>6. Requests' /\ Locked' /\ NoLostWakeUp'
  BY <1>2, ThreadsStay DEF PathDone
<1>7. Named'
  BY <1>2 DEF IInv, Named
<1>8. PendingCoherent'
  <2> SUFFICES ASSUME NEW x \in Ctx PROVE Coherent(x)'
    BY DEF PendingCoherent
  <2>1. CASE x = Cur
    BY <1>1, <1>2, <2>1 DEF Coherent, IInv, TypeOK
  <2>2. CASE x # Cur
    <3>1. Coherent(x) /\ pendingStates'[x] = pendingStates[x]
          /\ pendingEvent'[x] = pendingEvent[x]
      BY <1>1, <1>2, <2>2 DEF IInv, TypeOK, PendingCoherent
    <3> QED
      BY <1>1, <1>2, <2>2, <3>1 DEF Coherent
  <2> QED
    BY <2>1, <2>2
<1> QED
  BY <1>4, <1>5, <1>6, <1>7, <1>8 DEF IInv

LEMMA WorkerStepStep ==
  ASSUME IInv, WorkerStep
  PROVE  IInv'
<1>1. CASE WakeUp \/ QueueDrained \/ ContinuePath \/ AlreadyThere \/ NoPath \/ StartPath
  BY <1>1, WakeUpStep, QueueDrainedStep, ContinuePathStep, AlreadyThereStep, NoPathStep,
     StartPathStep
<1>2. CASE \/ EnterLoading \/ EnterActive \/ EnterUnloaded
           \/ \E new \in LifecycleState : EnterSettled(new)
  BY <1>2, EnterLoadingStep, EnterActiveStep, EnterUnloadedStep, EnterSettledStep
<1>3. CASE EnterInitializing \/ EnterActiveNotReady \/ EnterTerminating
  BY <1>3, EnterInitializingStep, EnterActiveNotReadyStep, EnterTerminatingStep
<1>4. CASE RunReturned \/ NotReadyReturned \/ TerminateReturned
  BY <1>4, Returned
<1>5. CASE \/ \E new \in LifecycleState : EnterSettledFails(new)
           \/ EnterActiveFails \/ EnterTerminatingFails
  BY <1>5, Fails
<1>6. CASE PathDone
  BY <1>6, PathDoneStep
<1> QED
  BY <1>1, <1>2, <1>3, <1>4, <1>5, <1>6 DEF WorkerStep

LEMMA InductiveStep == IInv /\ [Next]_vars => IInv'
<1> SUFFICES ASSUME IInv, [Next]_vars PROVE IInv'
  OBVIOUS
<1>1. ASSUME NEW c \in Client, ClientCall(c) PROVE IInv'
  BY <1>1, SpawnAppStep, SetTargetAppStateStep, UnloadAppStep, CloseAppStep DEF ClientCall
<1>2. ASSUME NEW c \in Client, ClientStep(c) PROVE IInv'
  BY <1>2, RespawnStep, SpawnNewStep, MarkTargetStep, AwaitLoadingStep DEF ClientStep
<1>3. ASSUME NEW t \in Thread, RequestStep(t) PROVE IInv'
  BY <1>3, PushRequestStep, PostRequestStep DEF RequestStep
<1>4. CASE JobStep
  BY <1>4, JobsStep DEF JobStep
<1>5. CASE WorkerStep
  BY <1>5, WorkerStepStep
<1>6. CASE WorkerUsesFreed \/ \E c \in Client : ClientUsesFreed(c)
  BY <1>6, AbortStep DEF WorkerUsesFreed, ClientUsesFreed
<1>7. CASE Deinitialize
  BY <1>7, DeinitializeStep
<1>8. ASSUME NEW i \in Inst, ExternalStep(i) \/ ContainerExits(i) PROVE IInv'
  BY <1>8, ExternalStepStep
<1>9. CASE UNCHANGED vars
  <2>1. TypeOK'
    BY <1>9 DEF vars, IInv, TypeOK, ctxVars, pendVars, reqVars, workVars, apiVars, extVars,
                bookVars
  <2>2. Requests' /\ Locked' /\ NoLostWakeUp'
    BY <1>9, ThreadsStay DEF vars, reqVars, workVars, IInv, TypeOK
  <2> QED
    BY <1>9, <2>1, <2>2, Aside DEF vars, ctxVars, reqVars, workVars
<1> QED
  BY <1>1, <1>2, <1>3, <1>4, <1>5, <1>6, <1>7, <1>8, <1>9 DEF Next

-----------------------------------------------------------------------------
(* Every variable keeps its type: contexts are looked up and updated within *)
(* the objects that exist, and an UNLOADED event names an instance.         *)
THEOREM TypeCorrect == Spec => []TypeOK
<1>1. IInv => TypeOK
  BY DEF IInv
<1> QED
  BY <1>1, InductiveInit, InductiveStep, PTL DEF Spec

(* A context waits in the state where its event is due with a legal rest of *)
(* its path, and one that does not wait has nothing left of an earlier wait *)
(* (StateHandler::changeState, State.cpp), whoever calls and whatever fails.*)
THEOREM PendingIsCoherent == Spec => []PendingCoherent
<1>1. IInv => PendingCoherent
  BY DEF IInv
<1> QED
  BY <1>1, InductiveInit, InductiveStep, PTL DEF Spec

(* No wake-up of the request handler thread is lost: it never waits with a  *)
(* request queued and no post made or about to be made                      *)
(* (StateTransitionHandler::initialize, addRequest).                        *)
THEOREM NoWakeUpIsLost == Spec => []NoLostWakeUp
<1>1. IInv => NoLostWakeUp
  BY DEF IInv
<1> QED
  BY <1>1, InductiveInit, InductiveStep, PTL DEF Spec

-----------------------------------------------------------------------------
(* The containers of the instances.  LOADING gives a context an instance id *)
(* nobody has used, its container is started from LOADING only, and from    *)
(* TERMINATING on it has been stopped, as far as RuntimeManager tells, or   *)
(* never ran.                                                               *)

Ended == {"none", "stopping", "gone"}

Rests(i) == container[i] \in Ended \/ i \in unstopped

(* An instance id names one context, and none that has not been generated   *)
(* was ever run or is the context of an UNLOADED event.                     *)
Instances ==
  /\ \A x \in Ctx : inst[x] <= uuid
  /\ \A x, y \in Ctx : inst[x] = inst[y] /\ inst[x] # NoInst => x = y
  /\ \A i \in Inst : i > uuid => ran[i] = 0
  /\ \A j \in jobs : j.kind = "unloaded" => j.inst <= uuid

NotYetRun ==
  /\ \A x \in Ctx : state[x] = "LOADING" => ran[inst[x]] = 0 \/ (wpc = "run" /\ Cur = x)
  /\ RunOncePerInstance

Stopped ==
  /\ \A x \in Ctx : inst[x] # NoInst /\ state[x] \in {"TERMINATING", "UNLOADED"}
                      => Rests(inst[x])
  /\ wpc = "terminate" => Rests(inst[Cur])
  /\ \A j \in jobs : j.kind = "unloaded" =>
       \A x \in Ctx : inst[x] = j.inst => state[x] = "UNLOADED"

RInv == Instances /\ NotYetRun /\ Stopped

LEMMA RInvInit == Init => RInv
BY BoundAssumption
   DEF Init, RInv, Instances, NotYetRun, RunOncePerInstance, Stopped, NoInst, Inst

(* Steps that move no context: containers move on by themselves, and the    *)
(* request handler thread is not in the middle of a run or a stop.          *)
LEMMA RunsAside ==
  ASSUME IInv, RInv, UNCHANGED <<inst, uuid, state, ran, unstopped>>,
         \A j \in jobs' : j.kind = "unloaded" => j \in jobs,
         \A i \in Inst : container[i] \in Ended => container'[i] \in Ended,
         \/ wpc' = wpc /\ gRequests' = gRequests
         \/ wpc \notin {"run", "terminate"} /\ wpc' \notin {"run", "terminate"}
  PROVE  RInv'
<1>1. inst \in [Ctx -> Inst \cup {NoInst}] /\ uuid \in Nat
  BY BoundAssumption DEF IInv, TypeOK
<1>2. \A i \in Inst : Rests(i) => Rests(i)'
  BY DEF Rests
<1>4. Instances'
  BY <1>1 DEF RInv, Instances
<1>5. NotYetRun'
  BY DEF RInv, NotYetRun, RunOncePerInstance, Cur
<1>6. Stopped'
  <2>1. wpc' = "terminate" => Rests(inst[Cur])'
    <3> SUFFICES ASSUME wpc' = "terminate" PROVE Rests(inst[Cur])'
      OBVIOUS
    <3>1. wpc = "terminate" /\ Cur' = Cur /\ Cur \in Ctx /\ path # <<>>
          /\ path[1] = "TERMINATING" /\ Edge(state[Cur], path[1])
      BY InTheLoop DEF Cur, IInv, Hands
    <3>2. inst[Cur] \in Inst /\ inst'[Cur'] = inst[Cur]
      BY <3>1, OnlyNamedStops
    <3> QED
      BY <3>1, <3>2 DEF RInv, Stopped, Rests
  <2>2. \A x \in Ctx : inst[x] # NoInst => inst[x] \in Inst
    BY <1>1
  <2>3. \A x \in Ctx : inst'[x] # NoInst /\ state'[x] \in {"TERMINATING", "UNLOADED"}
                         => Rests(inst[x])'
    BY <1>2, <2>2 DEF RInv, Stopped, Rests
  <2> QED
    BY <2>1, <2>3 DEF RInv, Stopped
<1> QED
  BY <1>4, <1>5, <1>6 DEF RInv

(* The context in hand goes on to a state that is not LOADING, without its  *)
(* container being touched.                                                 *)
LEMMA RunsMoved ==
  ASSUME IInv, RInv, wpc \in {"walk", "run", "render", "terminate"},
         path # <<>>, path[1] # "LOADING",
         state' = [state EXCEPT ![Cur] = path[1]],
         UNCHANGED <<inst, uuid, container, ran, unstopped>>,
         wpc' \notin {"run", "terminate"},
         path[1] \in {"TERMINATING", "UNLOADED"} => Rests(inst[Cur]),
         \A j \in jobs' : j.kind = "unloaded" =>
           j \in jobs \/ (j.inst = inst[Cur] /\ path[1] = "UNLOADED")
  PROVE  RInv'
<1>1. Cur \in Ctx /\ state[Cur] # "UNLOADED" /\ inst[Cur] \in Inst
  BY OnlyNamedStops
<1>2. state'[Cur] = path[1] /\ \A x \in Ctx \ {Cur} : state'[x] = state[x]
  BY <1>1 DEF IInv, TypeOK
<1>3. inst[Cur] <= uuid /\ \A x \in Ctx : inst[x] = inst[Cur] => x = Cur
  BY <1>1 DEF RInv, Instances, Inst, NoInst
<1>4. Instances'
  BY <1>3 DEF RInv, Instances
<1>5. NotYetRun'
  <2> SUFFICES ASSUME NEW x \in Ctx, state'[x] = "LOADING"
               PROVE  ran[inst[x]] = 0
    BY DEF RInv, NotYetRun, RunOncePerInstance
  <2>1. x # Cur /\ state[x] = "LOADING"
    BY <1>2
  <2> QED
    BY <2>1 DEF RInv, NotYetRun
<1>6. Stopped'
  <2>1. \A x \in Ctx : inst[x] # NoInst /\ state'[x] \in {"TERMINATING", "UNLOADED"}
                         => Rests(inst[x])
    BY <1>1, <1>2 DEF RInv, Stopped
  <2>2. ASSUME NEW j \in jobs', j.kind = "unloaded", NEW x \in Ctx, inst[x] = j.inst
        PROVE  state'[x] = "UNLOADED"
    <3>1. CASE j \in jobs
      <4>1. state[x] = "UNLOADED" /\ x # Cur
        BY <1>1, <2>2, <3>1 DEF RInv, Stopped
      <4> QED
        BY <1>2, <4>1
    <3>2. CASE j.inst = inst[Cur] /\ path[1] = "UNLOADED"
      BY <1>2, <1>3, <2>2, <3>2
    <3> QED
      BY <2>2, <3>1, <3>2
  <2> QED
    BY <2>1, <2>2 DEF Stopped, Rests
<1> QED
  BY <1>4, <1>5, <1>6 DEF RInv

(* LOADING: the context gets an instance id that nobody has used.           *)
LEMMA RunsLoading ==
  ASSUME IInv, RInv, EnterLoading
  PROVE  RInv'
<1>1. /\ Cur \in Ctx /\ wpc = "walk" /\ wpc' = "walk"
      /\ inst' = [inst EXCEPT ![Cur] = uuid + 1] /\ uuid' = uuid + 1
      /\ state' = [state EXCEPT ![Cur] = "LOADING"]
      /\ jobs' = jobs /\ UNCHANGED <<container, ran, unstopped>>
  BY InTheLoop DEF EnterLoading, Walking, SetInstance, Entered, extVars
<1>2. uuid \in Nat /\ uuid + 1 \in Inst
  BY BoundAssumption DEF EnterLoading, Inst, IInv, TypeOK
<1>3. /\ inst'[Cur] = uuid + 1 /\ state'[Cur] = "LOADING"
      /\ \A x \in Ctx \ {Cur} : inst'[x] = inst[x] /\ state'[x] = state[x]
  BY <1>1 DEF IInv, TypeOK
<1>4. \A x \in Ctx : inst[x] \in Nat /\ inst[x] <= uuid
  BY DEF IInv, TypeOK, RInv, Instances, Inst, NoInst
<1>5. \A j \in jobs : j.inst \in Nat
  BY DEF IInv, TypeOK, Job, Inst
<1>6. ran[uuid + 1] = 0
  BY <1>2 DEF RInv, Instances
<1>7. Instances'
  <2>1. \A x \in Ctx : inst'[x] <= uuid'
    BY <1>1, <1>2, <1>3, <1>4
  <2>2. \A x, y \in Ctx : inst'[x] = inst'[y] /\ inst'[x] # NoInst => x = y
    BY <1>2, <1>3, <1>4 DEF RInv, Instances
  <2>3. \A i \in Inst : i > uuid' => ran'[i] = 0
    BY <1>1, <1>2 DEF RInv, Instances, Inst
  <2>4. \A j \in jobs' : j.kind = "unloaded" => j.inst <= uuid'
    BY <1>1, <1>2, <1>5 DEF RInv, Instances
  <2> QED
    BY <2>1, <2>2, <2>3, <2>4 DEF Instances
<1>8. NotYetRun'
  BY <1>1, <1>3, <1>6 DEF RInv, NotYetRun, RunOncePerInstance
<1>9. Stopped'
  <2>1. \A x \in Ctx : inst'[x] # NoInst /\ state'[x] \in {"TERMINATING", "UNLOADED"}
                         => Rests(inst'[x])
    BY <1>3 DEF RInv, Stopped
  <2>2. \A j \in jobs : j.kind = "unloaded" =>
          \A x \in Ctx : inst'[x] = j.inst => state'[x] = "UNLOADED"
    <3> SUFFICES ASSUME NEW j \in jobs, j.kind = "unloaded", NEW x \in Ctx,
                        inst'[x] = j.inst
                 PROVE  state'[x] = "UNLOADED"
      OBVIOUS
    <3>1. j.inst \in Nat /\ j.inst <= uuid
      BY <1>5 DEF RInv, Instances
    <3>2. x # Cur
      BY <1>2, <1>3, <3>1
    <3> QED
      BY <1>3, <3>2 DEF RInv, Stopped
  <2> QED
    BY <1>1, <2>1, <2>2 DEF Stopped, Rests
<1> QED
  BY <1>7, <1>8, <1>9 DEF RInv

(* INITIALIZING: the instance of the context in hand has not been run.      *)
LEMMA FirstRun ==
  ASSUME IInv, RInv, EnterInitializing
  PROVE  /\ Cur \in Ctx /\ state[Cur] = "LOADING" /\ inst[Cur] \in Inst
         /\ ran[inst[Cur]] = 0
<1>1. wpc = "walk" /\ path # <<>> /\ path[1] = "INITIALIZING"
  BY DEF EnterInitializing, Walking
<1>2. Cur \in Ctx /\ Edge(state[Cur], "INITIALIZING") /\ inst[Cur] \in Inst
  BY <1>1, InTheLoop, OnlyNamedStops
<1>3. state[Cur] = "LOADING"
  BY <1>2, Table DEF IInv, TypeOK
<1> QED
  BY <1>1, <1>2, <1>3 DEF RInv, NotYetRun

LEMMA RunsInitializing ==
  ASSUME IInv, RInv, EnterInitializing
  PROVE  RInv'
<1>1. /\ Cur \in Ctx /\ state[Cur] = "LOADING" /\ inst[Cur] \in Inst /\ ran[inst[Cur]] = 0
  BY FirstRun
<1>2. /\ wpc' = "run" /\ Cur' = Cur
      /\ inst' = inst /\ uuid' = uuid /\ state' = state /\ jobs' = jobs
      /\ unstopped' = unstopped /\ ran' = [ran EXCEPT ![inst[Cur]] = @ + 1]
      /\ container' = container \/ container' = [container EXCEPT ![inst[Cur]] = "starting"]
  BY DEF EnterInitializing, ctxVars, reqVars, Cur
<1>3. /\ \A i \in Inst \ {inst[Cur]} : container'[i] = container[i] /\ ran'[i] = ran[i]
      /\ ran'[inst[Cur]] = 1
  BY <1>1, <1>2 DEF IInv, TypeOK
<1>4. inst[Cur] <= uuid /\ \A x \in Ctx \ {Cur} : inst[x] # inst[Cur]
  BY <1>1 DEF RInv, Instances, Inst, NoInst
<1>5. \A x \in Ctx \ {Cur} :
        inst[x] \in Inst => container'[inst[x]] = container[inst[x]] /\ ran'[inst[x]] = ran[inst[x]]
  BY <1>3, <1>4
<1>6. \A x \in Ctx : inst[x] \in Inst \cup {NoInst}
  BY DEF IInv, TypeOK
<1>7. Instances'
  <2>1. uuid \in Nat /\ \A i \in Inst : i \in Nat
    BY DEF IInv, TypeOK, Inst
  <2>2. \A i \in Inst : i > uuid => i # inst[Cur]
    BY <1>1, <1>4, <2>1
  <2>3. \A i \in Inst : i > uuid => ran'[i] = 0
    BY <1>3, <2>2 DEF RInv, Instances
  <2> QED
    BY <1>2, <2>3 DEF RInv, Instances
<1>8. NotYetRun'
  <2>1. ASSUME NEW x \in Ctx, state[x] = "LOADING", x # Cur PROVE ran'[inst[x]] = 0
    <3>1. inst[x] \in Inst
      BY <2>1 DEF IInv, Named
    <3>2. wpc # "run"
      BY DEF EnterInitializing, Walking
    <3>3. ran[inst[x]] = 0
      BY <2>1, <3>2 DEF RInv, NotYetRun
    <3> QED
      BY <1>5, <2>1, <3>1, <3>3
  <2>2. \A i \in Inst : ran'[i] <= 1
    BY <1>3 DEF RInv, NotYetRun, RunOncePerInstance
  <2> QED
    BY <1>2, <2>1, <2>2 DEF NotYetRun, RunOncePerInstance
<1>9. Stopped'
  <2>1. \A x \in Ctx : inst[x] # NoInst /\ state[x] \in {"TERMINATING", "UNLOADED"}
                         => container'[inst[x]] \in Ended \/ inst[x] \in unstopped
    <3> SUFFICES ASSUME NEW x \in Ctx, inst[x] # NoInst,
                        state[x] \in {"TERMINATING", "UNLOADED"}
                 PROVE  container'[inst[x]] \in Ended \/ inst[x] \in unstopped
      OBVIOUS
    <3>1. x # Cur /\ inst[x] \in Inst
      BY <1>1, <1>6
    <3> QED
      BY <1>5, <3>1 DEF RInv, Stopped, Rests
  <2> QED
    BY <1>2, <2>1 DEF RInv, Stopped, Rests
<1> QED
  BY <1>7, <1>8, <1>9 DEF RInv

(* TERMINATING: the container is stopped, or its stop is said to be done.   *)
LEMMA RunsTerminating ==
  ASSUME IInv, RInv, EnterTerminating
  PROVE  RInv'
<1>1. wpc = "walk" /\ path # <<>> /\ path[1] = "TERMINATING"
  BY DEF EnterTerminating, Walking
<1>2. Cur \in Ctx /\ inst[Cur] \in Inst
  BY <1>1, OnlyNamedStops
<1>3. /\ wpc' = "terminate" /\ Cur' = Cur /\ StopContainer(inst[Cur])
      /\ inst' = inst /\ uuid' = uuid /\ state' = state /\ jobs' = jobs /\ ran' = ran
  BY DEF EnterTerminating, reqVars, Cur
<1>4. container \in [Inst -> ContainerState] /\ unstopped \subseteq Inst
  BY DEF IInv, TypeOK
<1>5. Rests(inst[Cur])'
  <2>1. container'[inst[Cur]] \in Ended \/ inst[Cur] \in unstopped'
    BY <1>2, <1>3, <1>4 DEF StopContainer, Ended, ContainerState
  <2> QED
    BY <1>3, <2>1 DEF Rests
<1>6. \A i \in Inst : Rests(i) => Rests(i)'
  BY <1>2, <1>3, <1>4 DEF StopContainer, Rests, Ended
<1>7. Instances'
  BY <1>3 DEF RInv, Instances
<1>8. NotYetRun'
  BY <1>1, <1>3 DEF RInv, NotYetRun, RunOncePerInstance
<1>9. Stopped'
  <2>1. \A x \in Ctx : inst[x] # NoInst => inst[x] \in Inst
    BY DEF IInv, TypeOK
  <2>2. \A x \in Ctx : inst[x] # NoInst /\ state[x] \in {"TERMINATING", "UNLOADED"}
                         => container'[inst[x]] \in Ended \/ inst[x] \in unstopped'
    BY <1>6, <2>1 DEF RInv, Stopped, Rests
  <2> QED
    BY <1>3, <1>5, <2>2 DEF RInv, Stopped, Rests
<1> QED
  BY <1>7, <1>8, <1>9 DEF RInv

(* Steps of the threads, and the end of the plugin.                         *)
LEMMA RunsThreads ==
  ASSUME IInv, RInv,
         \/ \E c \in Client : ClientCall(c) \/ ClientStep(c)
         \/ \E t \in Thread : RequestStep(t)
         \/ Deinitialize \/ Abort \/ UNCHANGED vars
  PROVE  RInv'
<1>1. CASE \E c \in Client : ClientCall(c) \/ ClientStep(c)
  <2>1. UNCHANGED <<inst, uuid, state, jobs, extVars, wpc, gRequests>>
    <3>1. PICK c \in Client : ClientCall(c) \/ ClientStep(c)
      BY <1>1
    <3>2. CASE ClientCall(c)
      BY <3>2 DEF ClientCall, SpawnApp, SetTargetAppState, UnloadApp, KillApp, CloseApp,
                  Begin, ctxVars, reqVars, workVars, extVars
    <3>3. CASE ClientStep(c)
      BY <3>3 DEF ClientStep, Respawn, SpawnNew, MarkTarget, AwaitLoading, Begin, ctxVars,
                  reqVars, workVars, extVars
    <3> QED
      BY <3>1, <3>2, <3>3
  <2> QED
    BY <2>1, RunsAside DEF extVars
<1>2. CASE \E t \in Thread : RequestStep(t)
  <2>1. PICK t \in Thread : PushRequest(t) \/ PostRequest(t)
    BY <1>2 DEF RequestStep
  <2>2. UNCHANGED <<inst, uuid, state, jobs, extVars, wpc>>
    BY <2>1 DEF PushRequest, PostRequest, ctxVars, workVars, extVars
  <2>3. \/ wpc' = wpc /\ gRequests' = gRequests
        \/ wpc \notin {"run", "terminate"} /\ wpc' \notin {"run", "terminate"}
    BY <2>1, <2>2 DEF PushRequest, PostRequest, RequestMutexFree
  <2> QED
    BY <2>2, <2>3, RunsAside DEF extVars
<1>3. CASE Deinitialize \/ Abort \/ UNCHANGED vars
  <2>1. UNCHANGED <<inst, uuid, state, jobs, extVars, wpc, gRequests>>
    BY <1>3 DEF Deinitialize, Abort, vars, ctxVars, reqVars, workVars, extVars
  <2> QED
    BY <2>1, RunsAside DEF extVars
<1> QED
  BY <1>1, <1>2, <1>3

(* Jobs and containers.                                                    *)
LEMMA RunsOthers ==
  ASSUME IInv, RInv,
         JobStep \/ \E i \in Inst : ExternalStep(i) \/ ContainerExits(i)
  PROVE  RInv'
<1>1. CASE JobStep
  <2>1. UNCHANGED <<inst, uuid, state, extVars, wpc, gRequests>> /\ jobs' \subseteq jobs
    BY <1>1 DEF JobStep, HandleUnloaded, HandleAwaited, HandleTerminated, TakeJob, ctxVars,
                reqVars, workVars, extVars
  <2> QED
    BY <2>1, RunsAside DEF extVars
<1>2. ASSUME NEW i \in Inst, ExternalStep(i) \/ ContainerExits(i) PROVE RInv'
  <2>1. UNCHANGED <<inst, uuid, state, wpc, gRequests, ran, unstopped>>
    BY <1>2 DEF ExternalStep, ContainerRunning, ContainerStopped, FirstFrame,
                ContainerExits, ctxVars, reqVars, workVars
  <2>2. \A j \in jobs' : j.kind = "unloaded" => j \in jobs
    BY <1>2 DEF ExternalStep, ContainerRunning, ContainerStopped, FirstFrame,
                ContainerExits, Submit
  <2>3. container \in [Inst -> ContainerState]
    BY DEF IInv, TypeOK
  <2>4. \A k \in Inst : container[k] \in Ended => container'[k] \in Ended
    BY <1>2, <2>3 DEF ExternalStep, ContainerRunning, ContainerStopped, FirstFrame,
                      ContainerExits, Ended
  <2> QED
    BY <2>1, <2>2, <2>4, RunsAside
<1> QED
  BY <1>1, <1>2

(* The request handler thread, except where it takes the context in hand on.*)
LEMMA RunsWorkerAside ==
  ASSUME IInv, RInv,
         \/ WakeUp \/ QueueDrained
         \/ ContinuePath \/ AlreadyThere \/ NoPath \/ StartPath
         \/ \E new \in LifecycleState : EnterSettledFails(new)
         \/ EnterActiveNotReady \/ EnterActiveFails \/ EnterTerminatingFails \/ PathDone
  PROVE  RInv'
<1>1. UNCHANGED <<inst, uuid, state, container, ran, unstopped, jobs>>
  BY DEF WakeUp, QueueDrained, ContinuePath, AlreadyThere, NoPath, StartPath,
         EnterSettledFails, EnterActiveNotReady, EnterActiveFails, EnterTerminatingFails,
         PathDone, ctxVars, extVars
<1>2. wpc \notin {"run", "terminate"}
  BY DEF WakeUp, QueueDrained, ContinuePath, AlreadyThere, NoPath, StartPath,
         EnterSettledFails, EnterActiveNotReady, EnterActiveFails, EnterTerminatingFails,
         PathDone, Walking
<1>3. wpc' \notin {"run", "terminate"}
  BY <1>2 DEF WakeUp, QueueDrained, ContinuePath, AlreadyThere, NoPath, StartPath,
         EnterSettledFails, EnterActiveNotReady, EnterActiveFails, EnterTerminatingFails,
         PathDone, StepFails, workVars
<1> QED
  BY <1>1, <1>2, <1>3, RunsAside

(* The request handler thread takes the context in hand on.                 *)
LEMMA RunsEntered ==
  ASSUME IInv, RInv,
         \/ EnterActive \/ EnterUnloaded \/ \E new \in LifecycleState : EnterSettled(new)
         \/ RunReturned \/ NotReadyReturned \/ TerminateReturned
  PROVE  RInv'
<1>1. CASE EnterActive \/ \E new \in LifecycleState : EnterSettled(new)
  <2>1. /\ wpc = "walk" /\ wpc' = "walk" /\ path # <<>>
        /\ path[1] \in {"PAUSED", "SUSPENDED", "HIBERNATED", "ACTIVE"}
        /\ state' = [state EXCEPT ![Cur] = path[1]]
        /\ UNCHANGED <<inst, uuid, container, ran, unstopped, jobs>>
    BY <1>1 DEF EnterActive, EnterSettled, Walking, Entered, extVars
  <2> QED
    BY <2>1, RunsMoved
<1>2. CASE EnterUnloaded
  <2>1. /\ wpc = "walk" /\ wpc' = "walk" /\ path # <<>> /\ path[1] = "UNLOADED"
        /\ state' = [state EXCEPT ![Cur] = path[1]]
        /\ UNCHANGED <<inst, uuid, container, ran, unstopped>>
        /\ \A j \in jobs' : j \in jobs \/ j.inst = inst[Cur]
    BY <1>2 DEF EnterUnloaded, Walking, Entered, extVars
  <2>2. state[Cur] = "TERMINATING" /\ inst[Cur] \in Inst /\ Cur \in Ctx
    <3>1. Cur \in Ctx /\ Edge(state[Cur], "UNLOADED") /\ inst[Cur] \in Inst
      BY <2>1, InTheLoop, OnlyNamedStops
    <3> QED
      BY <3>1, Table DEF IInv, TypeOK
  <2>3. Rests(inst[Cur])
    BY <2>2 DEF RInv, Stopped, Inst, NoInst
  <2> QED
    BY <2>1, <2>3, RunsMoved
<1>3. CASE RunReturned \/ NotReadyReturned \/ TerminateReturned
  <2>1. /\ wpc \in {"run", "render", "terminate"} /\ wpc' = "drain"
        /\ state' = [state EXCEPT ![Cur] = path[1]]
        /\ UNCHANGED <<inst, uuid, container, ran, unstopped, jobs>>
    BY <1>3 DEF RunReturned, NotReadyReturned, TerminateReturned, Interrupt, extVars
  <2>2. /\ path # <<>> /\ path[1] \in {"INITIALIZING", "ACTIVE", "TERMINATING"}
        /\ path[1] = "TERMINATING" => wpc = "terminate"
    BY <2>1 DEF IInv, Hands
  <2>3. wpc = "terminate" => Rests(inst[Cur])
    BY DEF RInv, Stopped
  <2> QED
    BY <2>1, <2>2, <2>3, RunsMoved
<1> QED
  BY <1>1, <1>2, <1>3

LEMMA RInvStep == IInv /\ RInv /\ [Next]_vars => RInv'
<1> SUFFICES ASSUME IInv, RInv, [Next]_vars PROVE RInv'
  OBVIOUS
<1>1. CASE WorkerStep
  BY <1>1, RunsWorkerAside, RunsEntered, RunsLoading, RunsInitializing, RunsTerminating
     DEF WorkerStep
<1>2. CASE JobStep \/ \E i \in Inst : ExternalStep(i) \/ ContainerExits(i)
  BY <1>2, RunsOthers
<1>3. CASE \/ \E c \in Client : ClientCall(c) \/ ClientStep(c)
           \/ \E t \in Thread : RequestStep(t)
           \/ Deinitialize \/ Abort \/ UNCHANGED vars
  BY <1>3, RunsThreads
<1> QED
  BY <1>1, <1>2, <1>3 DEF Next, ClientUsesFreed, WorkerUsesFreed

(* Only an UNLOADED event makes a context disappear.                        *)
LEMMA OnlyUnloadedForgets ==
  ASSUME [Next]_vars, NEW x \in loaded \ loaded'
  PROVE  \E j \in jobs : HandleUnloaded(j) /\ x \in getContextByInst(j.inst)
<1>1. CASE \E j \in jobs : HandleUnloaded(j)
  BY <1>1 DEF HandleUnloaded
<1>2. CASE \/ \E c \in Client : ClientCall(c) \/ ClientStep(c)
           \/ \E t \in Thread : RequestStep(t)
           \/ \E j \in jobs : HandleAwaited(j) \/ HandleTerminated(j)
           \/ Deinitialize \/ Abort \/ UNCHANGED vars
           \/ \E i \in Inst : ExternalStep(i) \/ ContainerExits(i)
  <2>1. CASE \E c \in Client : ClientCall(c) \/ ClientStep(c)
    BY <2>1 DEF ClientCall, SpawnApp, SetTargetAppState, UnloadApp, KillApp, CloseApp,
                ClientStep, Respawn, SpawnNew, MarkTarget, AwaitLoading, Begin, ctxVars
  <2>2. CASE \/ \E t \in Thread : RequestStep(t)
             \/ \E j \in jobs : HandleAwaited(j) \/ HandleTerminated(j)
    BY <2>2 DEF RequestStep, PushRequest, PostRequest, HandleAwaited, HandleTerminated,
                ctxVars
  <2>3. CASE \/ Deinitialize \/ Abort \/ UNCHANGED vars
             \/ \E i \in Inst : ExternalStep(i) \/ ContainerExits(i)
    BY <2>3 DEF Deinitialize, Abort, ExternalStep, ContainerRunning, ContainerStopped,
                FirstFrame, ContainerExits, vars, ctxVars
  <2> QED
    BY <1>2, <2>1, <2>2, <2>3
<1>3. CASE WorkerStep
  BY <1>3 DEF WorkerStep, WakeUp, QueueDrained, ContinuePath, AlreadyThere, NoPath,
              StartPath, EnterLoading, EnterInitializing, RunReturned, EnterSettled,
              EnterSettledFails, EnterActive, EnterActiveNotReady, EnterActiveFails,
              NotReadyReturned, EnterTerminating, EnterTerminatingFails, TerminateReturned,
              EnterUnloaded, PathDone, ctxVars
<1> QED
  BY <1>1, <1>2, <1>3 DEF Next, JobStep, ClientUsesFreed, WorkerUsesFreed

(* Whoever disappears is in UNLOADED, and its container rests.              *)
LEMMA ForgottenStep ==
  ASSUME IInv, RInv, [Next]_vars, NEW x \in loaded \ loaded'
  PROVE  /\ x \in Ctx /\ state[x] = "UNLOADED"
         /\ inst[x] # NoInst /\ Rests(inst[x])
<1>1. PICK j \in jobs : HandleUnloaded(j) /\ x \in getContextByInst(j.inst)
  BY OnlyUnloadedForgets
<1>2. j.kind = "unloaded" /\ j.inst \in Inst
  BY <1>1 DEF HandleUnloaded, IInv, TypeOK, Job
<1>3. x \in Ctx
  BY BoundAssumption DEF IInv, TypeOK, Ctx
<1>4. inst[x] = j.inst
  BY <1>1, <1>3 DEF getContextByInst, FirstLoaded, Ctx, NoCtx
<1>5. inst[x] # NoInst
  BY <1>2, <1>4 DEF Inst, NoInst
<1>6. state[x] = "UNLOADED"
  BY <1>2, <1>3, <1>4 DEF RInv, Stopped
<1> QED
  BY <1>3, <1>5, <1>6 DEF RInv, Stopped

LEMMA SpecKeepsRInv == Spec => [](IInv /\ RInv)
BY InductiveInit, InductiveStep, RInvInit, RInvStep, PTL DEF Spec

(* RuntimeManager::Run is called at most once for an instance id, whether   *)
(* the earlier call succeeded, failed or has not returned, and whatever is  *)
(* retried or continued (LoadingState and InitializingState).               *)
THEOREM RunsOncePerInstance == Spec => []RunOncePerInstance
<1>1. RInv => RunOncePerInstance
  BY DEF RInv, NotYetRun
<1> QED
  BY <1>1, SpecKeepsRInv, PTL

(* A context is deleted only when its container was stopped, has ended or   *)
(* never ran, or RuntimeManager had said that it stopped it when Dobby had  *)
(* not; although the UNLOADED event is handled later than the step that     *)
(* raised it and looks the context up again (handleStateChangeEvent;        *)
(* State.cpp, TerminatingState::handle; RuntimeManager::Terminate).         *)
THEOREM ForgetsOnlyStopped == Spec => ForgottenOnlyWhenStopped
<1>1. IInv /\ RInv /\ [Next]_vars =>
        [\A x \in loaded \ loaded' :
           /\ inst[x] # NoInst
           /\ \/ container[inst[x]] \in {"none", "stopping", "gone"}
              \/ inst[x] \in unstopped]_vars
  BY ForgottenStep DEF Ended, Rests
<1> QED
  BY <1>1, SpecKeepsRInv, PTL DEF Spec, ForgottenOnlyWhenStopped

-----------------------------------------------------------------------------
(* What has been submitted for the observers of a context.                  *)

(* s is the last state announced for x, unless a stop of x may have failed  *)
(* after it was announced.                                                  *)
Told(x, s) ==
  announced[x] = s \/ ("terminate" \in Failing /\ announced[x] = "TERMINATING")

(* The announcement lags while the context waits in INITIALIZING or ACTIVE, *)
(* runs ahead while its container is told to stop, and is right otherwise.  *)
Shown(x) ==
  IF pending[x] /\ state[x] # "TERMINATING"
  THEN Told(x, pendingOld[x]) /\ Edge(pendingOld[x], state[x])
  ELSE IF wpc = "terminate" /\ Cur = x THEN announced[x] = "TERMINATING"
  ELSE Told(x, state[x])

SInv == \A x \in Ctx : Shown(x)

LEMMA SInvInit == Init => SInv
BY DEF Init, SInv, Shown, Told

(* Steps that announce nothing and move no context.                         *)
LEMMA ShownAside ==
  ASSUME SInv, UNCHANGED <<pending, pendingOld, announced, state>>,
         \/ wpc' = wpc /\ gRequests' = gRequests
         \/ wpc # "terminate" /\ wpc' # "terminate"
  PROVE  SInv'
BY DEF SInv, Shown, Told, Cur

(* A step that moves or announces the context in hand only.                 *)
LEMMA ShownInHand ==
  ASSUME SInv, NEW c \in Ctx, c = Cur,
         wpc' = "terminate" => gRequests' = gRequests,
         \A x \in Ctx \ {c} :
           /\ pending'[x] = pending[x] /\ pendingOld'[x] = pendingOld[x]
           /\ announced'[x] = announced[x] /\ state'[x] = state[x],
         Shown(c)'
  PROVE  SInv'
<1>1. ASSUME NEW x \in Ctx, x # c PROVE Shown(x)'
  <2>1. Shown(x)
    BY DEF SInv
  <2>2. ~(wpc' = "terminate" /\ Cur' = x) /\ ~(wpc = "terminate" /\ Cur = x)
    BY <1>1 DEF Cur
  <2> QED
    BY <1>1, <2>1, <2>2 DEF Shown, Told
<1> QED
  BY <1>1 DEF SInv

(* A state entered without waiting.                                        *)
LEMMA ShownEntered ==
  ASSUME IInv, SInv, NEW new \in LifecycleState, Walking(new), Entered(Cur, new),
         UNCHANGED <<pending, pendingOld, wpc>>
  PROVE  SInv'
<1>1. PICK c \in Ctx : c = Cur
  BY InTheLoop DEF Walking
<1>2. /\ state' = [state EXCEPT ![c] = new] /\ announced' = [announced EXCEPT ![c] = new]
      /\ pending[c] = FALSE /\ wpc' = "walk"
  BY <1>1, InTheLoop DEF Entered, sendEvent, Walking
<1>3. state'[c] = new /\ announced'[c] = new
  BY <1>2 DEF IInv, TypeOK
<1>4. Shown(c)'
  BY <1>2, <1>3 DEF Shown, Told
<1>5. \A x \in Ctx \ {c} : announced'[x] = announced[x] /\ state'[x] = state[x]
  BY <1>2 DEF IInv, TypeOK
<1> QED
  BY <1>1, <1>2, <1>4, <1>5, ShownInHand

(* The interrupted path is continued: the state waited in is announced.     *)
LEMMA ShownContinue ==
  ASSUME IInv, SInv, ContinuePath
  PROVE  SInv'
<1>1. PICK c \in Ctx : c = Cur
  BY HeadRequest DEF ContinuePath
<1>2. /\ pending[c] /\ pending' = [pending EXCEPT ![c] = FALSE] /\ wpc' = "walk"
      /\ pendingOld' = pendingOld /\ state' = state
      /\ announced' = IF state[c] # "TERMINATING" THEN [announced EXCEPT ![c] = state[c]]
                                                  ELSE announced
  BY <1>1 DEF ContinuePath, sendEvent
<1>3. pending'[c] = FALSE /\ \A x \in Ctx \ {c} : pending'[x] = pending[x]
  BY <1>2 DEF IInv, TypeOK
<1>4. \A x \in Ctx \ {c} : announced'[x] = announced[x]
  BY <1>2 DEF IInv, TypeOK
<1>5. announced'[c] = state[c] \/ (state[c] = "TERMINATING" /\ announced' = announced)
  BY <1>2 DEF IInv, TypeOK
<1>6. Shown(c)
  BY DEF SInv
<1>7. Shown(c)'
  BY <1>2, <1>3, <1>5, <1>6 DEF Shown, Told, ContinuePath
<1> QED
  BY <1>1, <1>2, <1>3, <1>4, <1>7, ShownInHand

(* The context begins to wait: for onAppRunning or onFirstFrame with the    *)
(* state it leaves kept, for onAppTerminating with TERMINATING announced.   *)
LEMMA ShownReturned ==
  ASSUME IInv, SInv, RunReturned \/ NotReadyReturned \/ TerminateReturned
  PROVE  SInv'
<1>1. wpc \in {"run", "render", "terminate"} /\ wpc' = "drain" /\ announced' = announced
  BY DEF RunReturned, NotReadyReturned, TerminateReturned, Interrupt
<1>2. PICK c \in Ctx : c = Cur
  BY <1>1, InTheLoop
<1>3. /\ pending' = [pending EXCEPT ![c] = TRUE]
      /\ state' = [state EXCEPT ![c] = path[1]]
      /\ wpc = "terminate" => path[1] = "TERMINATING" /\ pendingOld' = pendingOld
      /\ wpc # "terminate" => /\ path[1] # "TERMINATING"
                              /\ pendingOld' = [pendingOld EXCEPT ![c] = state[c]]
      /\ Edge(state[c], path[1]) /\ pending[c] = FALSE
  <2>1. pending[c] = FALSE /\ path # <<>> /\ Edge(state[c], path[1])
    BY <1>1, <1>2 DEF IInv, Hands
  <2>2. /\ wpc = "run" => path[1] = "INITIALIZING"
        /\ wpc = "render" => path[1] = "ACTIVE"
        /\ wpc = "terminate" => path[1] = "TERMINATING"
    BY DEF IInv, Hands
  <2> QED
    BY <1>1, <1>2, <2>1, <2>2
       DEF RunReturned, NotReadyReturned, TerminateReturned, Interrupt
<1>4. /\ pending'[c] = TRUE /\ state'[c] = path[1]
      /\ wpc # "terminate" => pendingOld'[c] = state[c]
  BY <1>3 DEF IInv, TypeOK
<1>5. \A x \in Ctx \ {c} : /\ pending'[x] = pending[x] /\ state'[x] = state[x]
                           /\ pendingOld'[x] = pendingOld[x]
  BY <1>1, <1>3 DEF IInv, TypeOK
<1>6. Shown(c)
  BY DEF SInv
<1>7. Shown(c)'
  <2>1. CASE wpc = "terminate"
    BY <1>1, <1>2, <1>3, <1>4, <1>6, <2>1 DEF Shown, Told
  <2>2. CASE wpc # "terminate"
    BY <1>1, <1>3, <1>4, <1>6, <2>2 DEF Shown, Told
  <2> QED
    BY <2>1, <2>2
<1> QED
  BY <1>1, <1>2, <1>5, <1>7, ShownInHand

(* TERMINATING is announced before the container is told to stop.           *)
LEMMA ShownTerminating ==
  ASSUME IInv, SInv, EnterTerminating \/ EnterTerminatingFails
  PROVE  SInv'
<1>1. /\ wpc = "walk" /\ sendEvent(Cur, "TERMINATING")
      /\ state' = state /\ pendingOld' = pendingOld /\ gRequests' = gRequests
  BY DEF EnterTerminating, EnterTerminatingFails, Walking, pendVars, StepFails, reqVars
<1>2. PICK c \in Ctx : c = Cur
  BY <1>1, InTheLoop
<1>3. announced' = [announced EXCEPT ![c] = "TERMINATING"] /\ pending[c] = FALSE
  BY <1>1, <1>2, InTheLoop DEF sendEvent
<1>4. pending' = pending \/ pending' = [pending EXCEPT ![c] = FALSE]
  BY <1>2 DEF EnterTerminating, EnterTerminatingFails, pendVars, StepFails
<1>5. /\ announced'[c] = "TERMINATING" /\ pending'[c] = FALSE
      /\ \A x \in Ctx \ {c} : announced'[x] = announced[x] /\ pending'[x] = pending[x]
  BY <1>3, <1>4 DEF IInv, TypeOK
<1>6. (wpc' = "terminate" /\ Cur' = c) \/ "terminate" \in Failing
  BY <1>1, <1>2 DEF EnterTerminating, EnterTerminatingFails, Cur
<1>7. Shown(c)'
  BY <1>5, <1>6 DEF Shown, Told
<1> QED
  BY <1>1, <1>2, <1>5, <1>7, ShownInHand

LEMMA ShownFails ==
  ASSUME IInv, SInv, EnterActiveFails \/ \E new \in LifecycleState : EnterSettledFails(new)
  PROVE  SInv'
<1>1. wpc = "walk" /\ StepFails /\ UNCHANGED ctxVars
  BY DEF EnterActiveFails, EnterSettledFails, Walking
<1>2. Cur \in Ctx /\ pending[Cur] = FALSE
  BY <1>1, InTheLoop
<1>3. pending' = pending
  BY <1>1, <1>2 DEF StepFails, IInv, TypeOK
<1> QED
  BY <1>1, <1>3, ShownAside DEF StepFails, ctxVars

LEMMA ShownWorker ==
  ASSUME IInv, SInv, WorkerStep
  PROVE  SInv'
<1>1. CASE \/ WakeUp \/ QueueDrained \/ AlreadyThere \/ NoPath \/ StartPath
           \/ EnterInitializing \/ EnterActiveNotReady \/ PathDone
  <2>1. UNCHANGED <<pending, pendingOld, announced, state>>
    BY <1>1 DEF WakeUp, QueueDrained, AlreadyThere, NoPath, StartPath, EnterInitializing,
                EnterActiveNotReady, PathDone, ctxVars, pendVars
  <2>2. wpc # "terminate" /\ wpc' # "terminate"
    BY <1>1 DEF WakeUp, QueueDrained, AlreadyThere, NoPath, StartPath, EnterInitializing,
                EnterActiveNotReady, PathDone, Walking, workVars
  <2> QED
    BY <2>1, <2>2, ShownAside
<1>2. CASE \/ EnterLoading \/ EnterActive \/ EnterUnloaded
           \/ \E new \in LifecycleState : EnterSettled(new)
  <2>1. PICK new \in LifecycleState : Walking(new) /\ Entered(Cur, new)
    BY <1>2 DEF EnterLoading, EnterActive, EnterUnloaded, EnterSettled, LifecycleState
  <2>2. UNCHANGED <<pending, pendingOld, wpc>>
    BY <1>2 DEF EnterLoading, EnterActive, EnterUnloaded, EnterSettled, pendVars
  <2> QED
    BY <2>1, <2>2, ShownEntered
<1> QED
  BY <1>1, <1>2, ShownContinue, ShownReturned, ShownTerminating, ShownFails DEF WorkerStep

LEMMA SInvStep == IInv /\ SInv /\ [Next]_vars => SInv'
<1> SUFFICES ASSUME IInv, SInv, [Next]_vars PROVE SInv'
  OBVIOUS
<1>1. CASE \/ \E c \in Client : ClientCall(c) \/ ClientStep(c)
           \/ \E t \in Thread : RequestStep(t)
           \/ JobStep \/ Deinitialize \/ Abort \/ UNCHANGED vars
           \/ \E i \in Inst : ExternalStep(i) \/ ContainerExits(i)
  <2>1. /\ UNCHANGED <<pending, pendingOld, announced, state>>
        /\ \/ wpc' = wpc /\ gRequests' = gRequests
           \/ wpc # "terminate" /\ wpc' # "terminate"
    <3>1. CASE \E c \in Client : ClientCall(c) \/ ClientStep(c)
      BY <3>1 DEF ClientCall, SpawnApp, SetTargetAppState, UnloadApp, KillApp, CloseApp,
                  ClientStep, Respawn, SpawnNew, MarkTarget, AwaitLoading, Begin, ctxVars,
                  pendVars, workVars, reqVars
    <3>2. CASE \E t \in Thread : RequestStep(t)
      BY <3>2 DEF RequestStep, PushRequest, PostRequest, RequestMutexFree, ctxVars,
                  pendVars, workVars
    <3>3. CASE JobStep \/ Deinitialize \/ Abort \/ UNCHANGED vars
      BY <3>3 DEF JobStep, HandleUnloaded, HandleAwaited, HandleTerminated, Deinitialize,
                  Abort, vars, ctxVars, pendVars, workVars, reqVars
    <3>4. CASE \E i \in Inst : ExternalStep(i) \/ ContainerExits(i)
      BY <3>4 DEF ExternalStep, ContainerRunning, ContainerStopped, FirstFrame,
                  ContainerExits, ctxVars, pendVars, workVars, reqVars
    <3> QED
      BY <1>1, <3>1, <3>2, <3>3, <3>4
  <2> QED
    BY <2>1, ShownAside
<1> QED
  BY <1>1, ShownWorker DEF Next, ClientUsesFreed, WorkerUsesFreed

LEMMA SpecKeepsSInv == Spec => [](IInv /\ SInv)
BY InductiveInit, InductiveStep, SInvInit, SInvStep, PTL DEF Spec

(* What has been announced of a context is where it is, one edge behind     *)
(* while it waits, whoever calls, whatever fails and whatever is dispatched *)
(* meanwhile; only a TERMINATING whose stop failed can be wrong             *)
(* (StateHandler::changeState, sendEvent).                                  *)
THEOREM AnnouncedIsWhereItIs == Spec => []AnnouncedWhereItIs
<1>1. IInv /\ SInv => AnnouncedWhereItIs
  <2> SUFFICES ASSUME IInv, SInv, NEW x \in 1..created, ~InHand(x)
               PROVE  \/ announced[x] = state[x]
                      \/ /\ pending[x] /\ state[x] \in {"INITIALIZING", "ACTIVE"}
                         /\ announced[x] = pendingOld[x] /\ Edge(pendingOld[x], state[x])
                      \/ "terminate" \in Failing /\ announced[x] = "TERMINATING"
    BY DEF AnnouncedWhereItIs
  <2>1. x \in Ctx
    BY BoundAssumption DEF IInv, TypeOK, Ctx
  <2>2. pending[x] => state[x] \in {"INITIALIZING", "ACTIVE", "TERMINATING"}
    BY <2>1 DEF IInv, PendingCoherent, Coherent, AwaitedIn
  <2>3. ~(wpc = "terminate" /\ Cur = x)
    BY DEF InHand, IInv, Hands
  <2> QED
    BY <2>1, <2>2, <2>3 DEF SInv, Shown, Told
<1> QED
  BY <1>1, SpecKeepsSInv, PTL DEF Spec

-----------------------------------------------------------------------------
(* The refinement of AppLifecycle.  A context that has not been created is  *)
(* untouched: no thread and no request knows it.                            *)

Known ==
  /\ \A t \in Thread : thread[t].ctx <= created
  /\ \A k \in 1..Len(gRequests) : gRequests[k].ctx <= created

Untouched == \A x \in Ctx : x > created => announced[x] = "UNLOADED"

KInv == Known /\ Untouched

LEMMA KInvInit == Init => KInv
BY DEF Init, KInv, Known, Untouched, Idle, NoCtx

LEMMA FoundKnown ==
  ASSUME IInv, NEW S \in SUBSET Ctx, NEW x \in FirstLoaded(S)
  PROVE  x <= created
BY DEF FirstLoaded, NoCtx, IInv, TypeOK

LEMMA ElementOfSeq ==
  ASSUME NEW S, NEW q \in Seq(S), NEW k \in 1..Len(q)
  PROVE  q[k] \in S
OBVIOUS

LEMMA CurKnown ==
  ASSUME IInv, KInv, gRequests # <<>>
  PROVE  Cur \in Ctx /\ Cur <= created
<1>1. gRequests \in Seq([ctx : Ctx, to : LifecycleState])
  BY DEF IInv, TypeOK
<1>2. 1 \in 1..Len(gRequests)
  BY <1>1
<1> QED
  BY <1>2, HeadRequest DEF KInv, Known, Cur

(* What the threads and the queue know stays known.                         *)
LEMMA KnownAside ==
  ASSUME IInv, Known, created' \in Nat, created' >= created,
         gRequests' \in {gRequests, Tail(gRequests)},
         gRequests' = gRequests \/ gRequests # <<>>,
         \A t \in Thread : thread'[t].ctx = thread[t].ctx \/ thread'[t].ctx <= created'
  PROVE  Known'
<1>1. created \in Nat /\ gRequests \in Seq([ctx : Ctx, to : LifecycleState])
  BY DEF IInv, TypeOK
<1>2. \A t \in Thread : thread'[t].ctx <= created'
  <2> SUFFICES ASSUME NEW t \in Thread, thread'[t].ctx = thread[t].ctx
               PROVE  thread'[t].ctx <= created'
    OBVIOUS
  <2>1. thread[t].ctx \in Nat
    BY DEF IInv, TypeOK, ThreadState, Ctx, NoCtx
  <2>2. thread[t].ctx <= created
    BY DEF Known
  <2> QED
    BY <1>1, <2>1, <2>2
<1>3. \A k \in 1..Len(gRequests) : gRequests[k].ctx \in Nat /\ gRequests[k].ctx <= created'
  <2> SUFFICES ASSUME NEW k \in 1..Len(gRequests)
               PROVE  gRequests[k].ctx \in Nat /\ gRequests[k].ctx <= created'
    OBVIOUS
  <2>1. gRequests[k] \in [ctx : Ctx, to : LifecycleState]
    BY <1>1, ElementOfSeq
  <2>2. gRequests[k].ctx \in Nat /\ gRequests[k].ctx <= created
    BY <2>1 DEF Known, Ctx
  <2> QED
    BY <1>1, <2>2
<1>4. \A k \in 1..Len(gRequests') : gRequests'[k].ctx <= created'
  <2>1. CASE gRequests' = gRequests
    BY <1>3, <2>1
  <2>2. CASE gRequests # <<>> /\ gRequests' = Tail(gRequests)
    <3>1. /\ Len(gRequests') = Len(gRequests) - 1 /\ Len(gRequests) \in Nat
          /\ \A k \in 1..Len(gRequests') : gRequests'[k] = gRequests[k + 1]
      BY <1>1, <2>2
    <3> QED
      BY <1>3, <3>1
  <2> QED
    BY <2>1, <2>2
<1> QED
  BY <1>2, <1>4 DEF Known

LEMMA KnownCalls ==
  ASSUME IInv, KInv, NEW c \in Client, ClientCall(c) \/ ClientStep(c)
  PROVE  KInv'
<1>1. thread \in [Thread -> ThreadState] /\ c \in Thread /\ created \in Nat
  BY DEF IInv, TypeOK, Thread
<1>2. CASE ClientCall(c) \/ Respawn(c)
  <2>1. \E r : Begin(c, r) /\ r.ctx <= created
    <3>1. ASSUME NEW a \in App, NEW t \in SpawnTarget, SpawnApp(c, a, t)
          PROVE  \E r : Begin(c, r) /\ r.ctx <= created
      <4>1. PICK x \in getContextByApp(a) :
              Begin(c, [Idle EXCEPT !.pc = "spawn", !.ctx = x, !.app = a, !.to = t])
        BY <3>1 DEF SpawnApp
      <4>2. x <= created
        BY <4>1, FoundKnown DEF getContextByApp
      <4>3. [Idle EXCEPT !.pc = "spawn", !.ctx = x, !.app = a, !.to = t].ctx = x
        BY DEF Idle
      <4> QED
        BY <4>1, <4>2, <4>3
    <3>2. ASSUME NEW a \in App, NEW n \in CloseNext, CloseApp(c, a, n)
          PROVE  \E r : Begin(c, r) /\ r.ctx <= created
      <4>1. PICK x \in getContextByApp(a) :
              Begin(c, [Idle EXCEPT !.pc = "kill", !.ctx = x, !.app = a,
                                    !.to = "TERMINATING", !.next = n])
        BY <3>2 DEF CloseApp
      <4>2. x <= created
        BY <4>1, FoundKnown DEF getContextByApp
      <4>3. [Idle EXCEPT !.pc = "kill", !.ctx = x, !.app = a,
                         !.to = "TERMINATING", !.next = n].ctx = x
        BY DEF Idle
      <4> QED
        BY <4>1, <4>2, <4>3
    <3>3. ASSUME NEW i \in Inst, NEW t \in SetTarget, SetTargetAppState(c, i, t)
          PROVE  \E r : Begin(c, r) /\ r.ctx <= created
      <4>1. PICK x \in getContextByInst(i) :
              Begin(c, [Idle EXCEPT !.pc = "set", !.ctx = x, !.to = t])
        BY <3>3 DEF SetTargetAppState
      <4>2. x <= created
        BY <4>1, FoundKnown DEF getContextByInst
      <4>3. [Idle EXCEPT !.pc = "set", !.ctx = x, !.to = t].ctx = x
        BY DEF Idle
      <4> QED
        BY <4>1, <4>2, <4>3
    <3>4. ASSUME NEW i \in Inst, UnloadApp(c, i) \/ KillApp(c, i)
          PROVE  \E r : Begin(c, r) /\ r.ctx <= created
      <4>1. PICK x \in getContextByInst(i), p \in {"unload", "kill"} :
              Begin(c, [Idle EXCEPT !.pc = p, !.ctx = x, !.to = "TERMINATING"])
        BY <3>4 DEF UnloadApp, KillApp
      <4>2. x <= created
        BY <4>1, FoundKnown DEF getContextByInst
      <4>3. [Idle EXCEPT !.pc = p, !.ctx = x, !.to = "TERMINATING"].ctx = x
        BY DEF Idle
      <4> QED
        BY <4>1, <4>2, <4>3
    <3>5. CASE Respawn(c)
      <4>1. PICK x \in getContextByApp(thread[c].app) :
              Begin(c, [Idle EXCEPT !.pc = "spawn", !.ctx = x, !.app = thread[c].app,
                                    !.to = thread[c].next])
        BY <3>5 DEF Respawn
      <4>2. x <= created
        BY <4>1, FoundKnown DEF getContextByApp
      <4>3. [Idle EXCEPT !.pc = "spawn", !.ctx = x, !.app = thread[c].app,
                         !.to = thread[c].next].ctx = x
        BY DEF Idle
      <4> QED
        BY <4>1, <4>2, <4>3
    <3> QED
      BY <1>2, <3>1, <3>2, <3>3, <3>4, <3>5 DEF ClientCall
  <2>2. PICK r : Begin(c, r) /\ r.ctx <= created
    BY <2>1
  <2>3. thread' = [thread EXCEPT ![c] = r] /\ UNCHANGED <<created, gRequests, announced>>
    BY <2>2 DEF Begin, ctxVars, reqVars
  <2>4. \A t \in Thread : thread'[t].ctx = thread[t].ctx \/ thread'[t].ctx <= created
    BY <1>1, <2>2, <2>3
  <2> QED
    BY <1>1, <2>3, <2>4, KnownAside DEF KInv, Untouched
<1>3. CASE SpawnNew(c)
  <2>1. /\ created' = created + 1 /\ gRequests' = gRequests /\ announced' = announced
        /\ thread' = [thread EXCEPT ![c].pc = "add", ![c].ctx = created + 1,
                                    ![c].first = TRUE]
    BY <1>3 DEF SpawnNew, reqVars
  <2>2. \A t \in Thread : thread'[t].ctx = thread[t].ctx \/ thread'[t].ctx <= created'
    BY <1>1, <2>1 DEF ThreadState
  <2>3. Known'
    BY <1>1, <2>1, <2>2, KnownAside DEF KInv
  <2>4. Untouched'
    BY <1>1, <2>1 DEF KInv, Untouched, Ctx
  <2> QED
    BY <2>3, <2>4 DEF KInv
<1>4. CASE MarkTarget(c) \/ AwaitLoading(c)
  <2>1. UNCHANGED <<created, gRequests, announced>>
    BY <1>4 DEF MarkTarget, AwaitLoading, reqVars
  <2>2. thread' = [thread EXCEPT ![c].pc = "add"] \/ thread' = [thread EXCEPT ![c] = Idle]
    BY <1>4 DEF MarkTarget, AwaitLoading
  <2>3. \A t \in Thread : thread'[t].ctx = thread[t].ctx \/ thread'[t].ctx <= created
    BY <1>1, <2>2 DEF Idle, NoCtx, ThreadState
  <2> QED
    BY <1>1, <2>1, <2>3, KnownAside DEF KInv, Untouched
<1> QED
  BY <1>2, <1>3, <1>4 DEF ClientStep

LEMMA KnownRequests ==
  ASSUME IInv, KInv, NEW t \in Thread, RequestStep(t)
  PROVE  KInv'
<1>1. thread \in [Thread -> ThreadState] /\ created \in Nat /\ thread[t] \in ThreadState
      /\ gRequests \in Seq([ctx : Ctx, to : LifecycleState])
  BY DEF IInv, TypeOK
<1>2. UNCHANGED <<created, announced>>
  BY DEF RequestStep, PushRequest, PostRequest, ctxVars
<1>3. \A u \in Thread : thread'[u].ctx <= created
  <2>1. \A u \in Thread \ {t} : thread'[u] = thread[u]
    BY <1>1 DEF RequestStep, PushRequest, PostRequest
  <2>2. thread'[t].ctx \in {thread[t].ctx, NoCtx}
    <3>1. CASE PushRequest(t)
      BY <1>1, <3>1 DEF PushRequest, ThreadState
    <3>2. CASE PostRequest(t)
      <4>1. \/ thread'[t] = [thread[t] EXCEPT !.pc = "add", !.left = @ - 1]
            \/ thread'[t] = [thread[t] EXCEPT !.pc = "await"]
            \/ thread'[t] = Idle
            \/ thread'[t] = [thread[t] EXCEPT !.pc = "respawn"]
        BY <1>1, <3>2, Zenon DEF PostRequest
      <4>2. Idle.ctx = NoCtx
        BY DEF Idle
      <4> QED
        BY <1>1, <4>1, <4>2 DEF ThreadState
    <3> QED
      BY <3>1, <3>2 DEF RequestStep
  <2>3. \A u \in Thread : thread[u].ctx <= created
    BY DEF KInv, Known
  <2> QED
    BY <1>1, <2>1, <2>2, <2>3 DEF NoCtx
<1>4. \A k \in 1..Len(gRequests') : gRequests'[k].ctx <= created
  <2>1. CASE PushRequest(t)
    <3> DEFINE q == [ctx |-> thread[t].ctx, to |-> thread[t].to]
    <3>1. q \in [ctx : Ctx, to : LifecycleState]
      BY <2>1 DEF PushRequest, IInv, Requests, Ready
    <3>2. gRequests' = Append(gRequests, q) /\ q.ctx <= created
      BY <2>1 DEF PushRequest, KInv, Known
    <3>3. /\ Len(gRequests') = Len(gRequests) + 1 /\ Len(gRequests) \in Nat
          /\ gRequests'[Len(gRequests) + 1] = q
          /\ \A k \in 1..Len(gRequests) : gRequests'[k] = gRequests[k]
      BY <1>1, <3>1, <3>2
    <3>4. \A k \in 1..Len(gRequests) : gRequests[k].ctx <= created
      BY DEF KInv, Known
    <3> HIDE DEF q
    <3> QED
      BY <3>2, <3>3, <3>4
  <2>2. CASE PostRequest(t)
    BY <2>2 DEF PostRequest, KInv, Known
  <2> QED
    BY <2>1, <2>2 DEF RequestStep
<1> QED
  BY <1>2, <1>3, <1>4 DEF KInv, Known, Untouched

(* The request handler thread announces for the context in hand only, and   *)
(* along an edge of the table, or again what it announced last.             *)
LEMMA AnnouncesInHand ==
  ASSUME IInv, SInv, WorkerStep
  PROVE  \/ announced' = announced
         \/ /\ gRequests # <<>> /\ Cur \in Ctx
            /\ \E new \in LifecycleState :
                 /\ announced' = [announced EXCEPT ![Cur] = new]
                 /\ "terminate" \notin Failing =>
                      announced[Cur] = new \/ Edge(announced[Cur], new)
<1>1. CASE \/ EnterLoading \/ EnterActive \/ EnterUnloaded
           \/ \E new \in LifecycleState : EnterSettled(new)
  <2>1. PICK new \in LifecycleState : Walking(new) /\ Entered(Cur, new)
    BY <1>1 DEF EnterLoading, EnterActive, EnterUnloaded, EnterSettled, LifecycleState
  <2>2. /\ gRequests # <<>> /\ Cur \in Ctx /\ pending[Cur] = FALSE
        /\ Edge(state[Cur], new) /\ wpc = "walk"
    BY <2>1, InTheLoop DEF Walking
  <2>3. "terminate" \notin Failing => announced[Cur] = state[Cur]
    BY <2>2 DEF SInv, Shown, Told
  <2> QED
    BY <2>1, <2>2, <2>3 DEF Entered, sendEvent
<1>2. CASE ContinuePath
  <2>1. gRequests # <<>> /\ Cur \in Ctx /\ pending[Cur]
    BY <1>2, HeadRequest DEF ContinuePath
  <2>2. state[Cur] \in LifecycleState
    BY <2>1 DEF IInv, TypeOK
  <2>3. "terminate" \notin Failing /\ state[Cur] # "TERMINATING"
          => Edge(announced[Cur], state[Cur])
    BY <2>1 DEF SInv, Shown, Told
  <2> QED
    BY <1>2, <2>1, <2>2, <2>3 DEF ContinuePath, sendEvent
<1>3. CASE EnterTerminating \/ EnterTerminatingFails
  <2>1. /\ wpc = "walk" /\ path # <<>> /\ path[1] = "TERMINATING"
        /\ announced' = [announced EXCEPT ![Cur] = "TERMINATING"]
    BY <1>3 DEF EnterTerminating, EnterTerminatingFails, Walking, sendEvent
  <2>2. /\ gRequests # <<>> /\ Cur \in Ctx /\ pending[Cur] = FALSE
        /\ Edge(state[Cur], "TERMINATING")
    BY <2>1, InTheLoop
  <2>3. "terminate" \notin Failing => announced[Cur] = state[Cur]
    BY <2>1, <2>2 DEF SInv, Shown, Told
  <2> QED
    BY <2>1, <2>2, <2>3 DEF LifecycleState
<1>4. CASE \/ WakeUp \/ QueueDrained \/ AlreadyThere \/ NoPath \/ StartPath
           \/ EnterInitializing \/ RunReturned \/ NotReadyReturned \/ TerminateReturned
           \/ EnterActiveNotReady \/ EnterActiveFails \/ PathDone
           \/ \E new \in LifecycleState : EnterSettledFails(new)
  BY <1>4 DEF WakeUp, QueueDrained, AlreadyThere, NoPath, StartPath, EnterInitializing,
              RunReturned, NotReadyReturned, TerminateReturned, EnterActiveNotReady,
              EnterActiveFails, PathDone, EnterSettledFails, ctxVars
<1> QED
  BY <1>1, <1>2, <1>3, <1>4 DEF WorkerStep

(* Steps that create nothing, announce at most for the context in hand and  *)
(* take at most its request off the queue.                                  *)
LEMMA KnownWorker ==
  ASSUME IInv, SInv, KInv, WorkerStep
  PROVE  KInv'
<1>1. created \in Nat /\ created' = created /\ UNCHANGED thread
  BY DEF WorkerStep, WakeUp, QueueDrained, ContinuePath, AlreadyThere, NoPath, StartPath,
         EnterLoading, EnterInitializing, RunReturned, EnterSettled, EnterSettledFails,
         EnterActive, EnterActiveNotReady, EnterActiveFails, NotReadyReturned,
         EnterTerminating, EnterTerminatingFails, TerminateReturned, EnterUnloaded,
         PathDone, ctxVars, apiVars, IInv, TypeOK
<1>2. /\ gRequests' \in {gRequests, Tail(gRequests)}
      /\ gRequests' = gRequests \/ gRequests # <<>>
  <2>1. CASE AlreadyThere
    BY <2>1 DEF AlreadyThere
  <2>2. CASE RunReturned \/ NotReadyReturned \/ TerminateReturned \/ PathDone
    <3>1. wpc \in {"walk", "run", "render", "terminate"} /\ gRequests' = Tail(gRequests)
      BY <2>2 DEF RunReturned, NotReadyReturned, TerminateReturned, PathDone, Interrupt
    <3> QED
      BY <3>1, InTheLoop
  <2>3. CASE ~AlreadyThere /\ ~RunReturned /\ ~NotReadyReturned /\ ~TerminateReturned
             /\ ~PathDone
    BY <2>3 DEF WorkerStep, WakeUp, QueueDrained, ContinuePath, NoPath, StartPath,
         EnterLoading, EnterInitializing, EnterSettled, EnterSettledFails, EnterActive,
         EnterActiveNotReady, EnterActiveFails, EnterTerminating, EnterTerminatingFails,
         EnterUnloaded, StepFails, reqVars
  <2> QED
    BY <2>1, <2>2, <2>3
<1>3. \/ announced' = announced
      \/ gRequests # <<>> /\ \A x \in Ctx \ {Cur} : announced'[x] = announced[x]
  BY AnnouncesInHand DEF IInv, TypeOK
<1>4. Untouched'
  <2> SUFFICES ASSUME NEW x \in Ctx, x > created PROVE announced'[x] = "UNLOADED"
    BY <1>1 DEF Untouched
  <2>1. gRequests # <<>> => x # Cur
    BY <1>1, CurKnown DEF Ctx
  <2> QED
    BY <1>3, <2>1 DEF KInv, Untouched
<1> QED
  BY <1>1, <1>2, <1>4, KnownAside DEF KInv

LEMMA KInvStep == IInv /\ SInv /\ KInv /\ [Next]_vars => KInv'
<1> SUFFICES ASSUME IInv, SInv, KInv, [Next]_vars PROVE KInv'
  OBVIOUS
<1>1. CASE \/ JobStep \/ Deinitialize \/ Abort \/ UNCHANGED vars
           \/ \E i \in Inst : ExternalStep(i) \/ ContainerExits(i)
  <2>1. UNCHANGED <<created, announced, gRequests>> /\ created \in Nat
    <3>1. CASE JobStep
      BY <3>1 DEF JobStep, HandleUnloaded, HandleAwaited, HandleTerminated, ctxVars, reqVars,
                  IInv, TypeOK
    <3>2. CASE \/ Deinitialize \/ Abort \/ UNCHANGED vars
               \/ \E i \in Inst : ExternalStep(i) \/ ContainerExits(i)
      BY <3>2 DEF Deinitialize, Abort, ExternalStep, ContainerRunning, ContainerStopped,
                  FirstFrame, ContainerExits, vars, ctxVars, reqVars, IInv, TypeOK
    <3> QED
      BY <1>1, <3>1, <3>2
  <2>2. \A t \in Thread : thread'[t].ctx = thread[t].ctx \/ thread'[t].ctx <= created
    <3>1. CASE JobStep
      <4>1. PICK j \in jobs : HandleUnloaded(j) \/ HandleAwaited(j) \/ HandleTerminated(j)
        BY <3>1 DEF JobStep
      <4>2. \/ thread' = thread
            \/ \E x \in getContextByInst(j.inst) : \E to, n : AddFromDispatch(x, to, n)
        BY <4>1 DEF HandleUnloaded, HandleAwaited, HandleTerminated, apiVars,
                    addStateTransitionRequest
      <4>3. ASSUME NEW x \in getContextByInst(j.inst), NEW to, NEW n,
                   AddFromDispatch(x, to, n), NEW t \in Thread
            PROVE  thread'[t].ctx = thread[t].ctx \/ thread'[t].ctx <= created
        <5>1. x <= created
          BY FoundKnown DEF getContextByInst
        <5>2. [Idle EXCEPT !.pc = "add", !.ctx = x, !.to = to, !.left = n - 1].ctx = x
          BY DEF Idle
        <5>3. thread'[t] = thread[t]
              \/ thread'[t] = [Idle EXCEPT !.pc = "add", !.ctx = x, !.to = to, !.left = n - 1]
          BY <4>3 DEF AddFromDispatch, IInv, TypeOK
        <5> QED
          BY <5>1, <5>2, <5>3
      <4> QED
        BY <4>2, <4>3
    <3>2. CASE \/ Deinitialize \/ Abort \/ UNCHANGED vars
               \/ \E i \in Inst : ExternalStep(i) \/ ContainerExits(i)
      BY <3>2 DEF Deinitialize, Abort, ExternalStep, ContainerRunning, ContainerStopped,
                  FirstFrame, ContainerExits, vars, apiVars
    <3> QED
      BY <1>1, <3>1, <3>2
  <2> QED
    BY <2>1, <2>2, KnownAside DEF KInv, Untouched
<1> QED
  BY <1>1, KnownCalls, KnownRequests, KnownWorker DEF Next, ClientUsesFreed, WorkerUsesFreed

(* The changes submitted, as a behaviour of AppLifecycle.                   *)
PhaseOf(x) == IF x > created THEN "absent"
              ELSE IF x \notin loaded THEN "forgotten"
              ELSE announced[x]

SubmittedPhase == [x \in Ctx |-> PhaseOf(x)]

LEMMA PhaseChanges ==
  ASSUME NEW x \in Ctx, NEW v, PhaseOf(x)' = v,
         \A y \in Ctx \ {x} : PhaseOf(y)' = PhaseOf(y)
  PROVE  SubmittedPhase' = [SubmittedPhase EXCEPT ![x] = v]
<1> DEFINE q == [SubmittedPhase EXCEPT ![x] = v]
<1>1. q = [y \in Ctx |-> IF y = x THEN v ELSE PhaseOf(y)]
  BY DEF SubmittedPhase
<1>2. \A y \in Ctx : PhaseOf(y)' = IF y = x THEN v ELSE PhaseOf(y)
  OBVIOUS
<1> QED
  BY <1>1, <1>2 DEF SubmittedPhase

LEMMA SameEdge == \A s, t : Submitted!Edge(s, t) <=> Edge(s, t)
BY DEF Submitted!Edge, Edge, Submitted!mPossibleStateTransitions, mPossibleStateTransitions

LEMMA SubmittedInit == Init => Submitted!AbstractInit
BY DEF Init, Submitted!AbstractInit, Ctx

(* Nothing to see in a step that neither creates nor forgets nor announces. *)
LEMMA SubmittedStutter ==
  ASSUME UNCHANGED <<created, loaded, announced>>
  PROVE  UNCHANGED SubmittedPhase
BY DEF SubmittedPhase, PhaseOf

(* A new context is announced in no state yet: it begins UNLOADED.          *)
LEMMA SubmittedCreate ==
  ASSUME IInv, KInv, NEW c \in Client, SpawnNew(c)
  PROVE  Submitted!AbstractNext
<1>0. PICK n \in Ctx : n = created + 1
  BY BoundAssumption DEF SpawnNew, Ctx, IInv, TypeOK
<1>1. /\ created \in Nat /\ created' = n /\ loaded' = loaded \cup {n}
      /\ announced' = announced /\ announced[n] = "UNLOADED" /\ loaded \subseteq 1..created
  BY <1>0 DEF SpawnNew, Ctx, IInv, TypeOK, KInv, Untouched
<1>2. n \in Nat /\ n > created /\ \A y \in Ctx \ {n} : y > created <=> y > created'
  BY <1>0, <1>1 DEF Ctx
<1>3. SubmittedPhase[n] = "absent"
  BY <1>1, <1>2 DEF SubmittedPhase, PhaseOf
<1>4. SubmittedPhase' = [SubmittedPhase EXCEPT ![n] = "UNLOADED"]
  <2>1. PhaseOf(n)' = "UNLOADED"
    BY <1>1, <1>2 DEF PhaseOf
  <2>2. \A y \in Ctx \ {n} : PhaseOf(y)' = PhaseOf(y)
    BY <1>1, <1>2 DEF PhaseOf
  <2> QED
    BY <1>1, <2>1, <2>2, PhaseChanges
<1>5. Submitted!Create(n)
  BY <1>3, <1>4 DEF Submitted!Create, SubmittedPhase, PhaseOf
<1> QED
  BY <1>1, <1>5 DEF Submitted!AbstractNext

(* A context is forgotten in UNLOADED, and UNLOADED is what was announced.  *)
LEMMA SubmittedForget ==
  ASSUME IInv, RInv, SInv, "terminate" \notin Failing, [Next]_vars,
         NEW j \in jobs, HandleUnloaded(j)
  PROVE  Submitted!AbstractNext \/ UNCHANGED SubmittedPhase
<1>1. UNCHANGED <<created, announced>> /\ loaded' = loaded \ getContextByInst(j.inst)
  BY DEF HandleUnloaded
<1>2. CASE loaded' = loaded
  BY <1>1, <1>2, SubmittedStutter
<1>3. CASE loaded' # loaded
  <2>1. PICK x \in loaded \ loaded' : getContextByInst(j.inst) = {x}
    <3>1. PICK x \in loaded \ loaded' : TRUE
      BY <1>1, <1>3
    <3>2. x \in getContextByInst(j.inst) /\ x \in Ctx
      BY <1>1, BoundAssumption DEF IInv, TypeOK, Ctx
    <3>3. \A y \in getContextByInst(j.inst) : y = x
      BY <3>2 DEF getContextByInst, FirstLoaded, Ctx, NoCtx
    <3> QED
      BY <3>2, <3>3
  <2>2. x \in Ctx /\ state[x] = "UNLOADED"
    BY ForgottenStep
  <2>3. announced[x] = "UNLOADED"
    <3>1. ~pending[x]
      BY <2>2 DEF IInv, PendingCoherent, Coherent, AwaitedIn
    <3>2. ~(wpc = "terminate" /\ Cur = x)
      <4> SUFFICES ASSUME wpc = "terminate", Cur = x PROVE FALSE
        OBVIOUS
      <4>1. path # <<>> /\ path[1] = "TERMINATING"
        BY DEF IInv, Hands
      <4> QED
        BY <2>2, <4>1, OnlyNamedStops
    <3> QED
      BY <2>2, <3>1, <3>2 DEF SInv, Shown, Told
  <2>4. x \in 1..created /\ created \in Nat
    BY DEF IInv, TypeOK
  <2>5. SubmittedPhase[x] = "UNLOADED"
    BY <2>2, <2>3, <2>4 DEF SubmittedPhase, PhaseOf
  <2>6. SubmittedPhase' = [SubmittedPhase EXCEPT ![x] = "forgotten"]
    <3>1. PhaseOf(x)' = "forgotten"
      BY <1>1, <2>1, <2>4 DEF PhaseOf
    <3>2. \A y \in Ctx \ {x} : PhaseOf(y)' = PhaseOf(y)
      BY <1>1, <2>1 DEF PhaseOf
    <3> QED
      BY <2>2, <3>1, <3>2, PhaseChanges
  <2>7. Submitted!Forget(x)
    BY <2>5, <2>6 DEF Submitted!Forget, SubmittedPhase, PhaseOf
  <2> QED
    BY <2>2, <2>7 DEF Submitted!AbstractNext
<1> QED
  BY <1>2, <1>3

(* Every announcement goes along an edge of the table, or repeats the last. *)
LEMMA SubmittedAnnounce ==
  ASSUME IInv, SInv, KInv, "terminate" \notin Failing, WorkerStep
  PROVE  Submitted!AbstractNext \/ UNCHANGED SubmittedPhase
<1>1. UNCHANGED <<created, loaded>>
  BY DEF WorkerStep, WakeUp, QueueDrained, ContinuePath, AlreadyThere, NoPath, StartPath,
         EnterLoading, EnterInitializing, RunReturned, EnterSettled, EnterSettledFails,
         EnterActive, EnterActiveNotReady, EnterActiveFails, NotReadyReturned,
         EnterTerminating, EnterTerminatingFails, TerminateReturned, EnterUnloaded,
         PathDone, ctxVars
<1>2. CASE announced' = announced
  BY <1>1, <1>2, SubmittedStutter
<1>3. ASSUME announced' # announced
      PROVE  Submitted!AbstractNext \/ UNCHANGED SubmittedPhase
  <2>1. PICK new : /\ announced' = [announced EXCEPT ![Cur] = new]
                   /\ announced[Cur] = new \/ Edge(announced[Cur], new)
    BY <1>3, AnnouncesInHand
  <2>2. gRequests # <<>> /\ Cur \in Ctx /\ Cur <= created
    BY <1>3, AnnouncesInHand, CurKnown
  <2>3. PICK x \in Ctx : x = Cur /\ x <= created
    BY <2>2
  <2>4. announced' = [announced EXCEPT ![x] = new] /\ announced'[x] = new
        /\ announced \in [Ctx -> LifecycleState] /\ announced[x] # new
    BY <1>3, <2>1, <2>3 DEF IInv, TypeOK
  <2>5. created \in Nat /\ x \in Nat /\ new \in LifecycleState
    <3>1. announced' \in [Ctx -> LifecycleState]
      BY WorkerStepStep DEF IInv, TypeOK
    <3> QED
      BY <2>4, <3>1 DEF IInv, TypeOK, Ctx
  <2>6. CASE x \notin loaded
    <3>1. \A y \in Ctx : PhaseOf(y)' = PhaseOf(y)
      BY <1>1, <2>4, <2>6 DEF PhaseOf
    <3> QED
      BY <3>1 DEF SubmittedPhase
  <2>7. CASE x \in loaded
    <3>1. SubmittedPhase[x] = announced[x]
      BY <2>3, <2>5, <2>7 DEF SubmittedPhase, PhaseOf
    <3>2. SubmittedPhase' = [SubmittedPhase EXCEPT ![x] = new]
      <4>1. PhaseOf(x)' = new /\ \A y \in Ctx \ {x} : PhaseOf(y)' = PhaseOf(y)
        BY <1>1, <2>3, <2>4, <2>5, <2>7 DEF PhaseOf
      <4> QED
        BY <4>1, PhaseChanges
    <3>3. Submitted!Edge(announced[x], new)
      BY <2>1, <2>3, <2>4, SameEdge
    <3>4. Submitted!Announce(x, new)
      BY <2>4, <3>1, <3>2, <3>3
         DEF Submitted!Announce, SubmittedPhase, PhaseOf, Submitted!LifecycleState, LifecycleState
    <3> QED
      BY <2>5, <3>4 DEF Submitted!AbstractNext, Submitted!LifecycleState, LifecycleState
  <2> QED
    BY <2>6, <2>7
<1> QED
  BY <1>2, <1>3

LEMMA SubmittedStep ==
  ASSUME IInv, RInv, SInv, KInv, "terminate" \notin Failing, [Next]_vars
  PROVE  [Submitted!AbstractNext]_SubmittedPhase
<1>1. CASE \E c \in Client : SpawnNew(c)
  BY <1>1, SubmittedCreate
<1>2. CASE \E j \in jobs : HandleUnloaded(j)
  BY <1>2, SubmittedForget
<1>3. CASE WorkerStep
  BY <1>3, SubmittedAnnounce
<1>4. CASE \/ \E c \in Client : ClientCall(c) \/ (ClientStep(c) /\ ~SpawnNew(c))
           \/ \E t \in Thread : RequestStep(t)
           \/ \E j \in jobs : HandleAwaited(j) \/ HandleTerminated(j)
           \/ Deinitialize \/ Abort \/ UNCHANGED vars
           \/ \E i \in Inst : ExternalStep(i) \/ ContainerExits(i)
  <2>1. UNCHANGED <<created, loaded, announced>>
    <3>1. CASE \E c \in Client : ClientCall(c) \/ (ClientStep(c) /\ ~SpawnNew(c))
      BY <3>1 DEF ClientCall, SpawnApp, SetTargetAppState, UnloadApp, KillApp, CloseApp,
                  ClientStep, Respawn, MarkTarget, AwaitLoading, Begin, ctxVars
    <3>2. CASE \/ \E t \in Thread : RequestStep(t)
               \/ \E j \in jobs : HandleAwaited(j) \/ HandleTerminated(j)
      BY <3>2 DEF RequestStep, PushRequest, PostRequest, HandleAwaited, HandleTerminated,
                  ctxVars
    <3>3. CASE \/ Deinitialize \/ Abort \/ UNCHANGED vars
               \/ \E i \in Inst : ExternalStep(i) \/ ContainerExits(i)
      BY <3>3 DEF Deinitialize, Abort, ExternalStep, ContainerRunning, ContainerStopped,
                  FirstFrame, ContainerExits, vars, ctxVars
    <3> QED
      BY <1>4, <3>1, <3>2, <3>3
  <2> QED
    BY <2>1, SubmittedStutter
<1> QED
  BY <1>1, <1>2, <1>3, <1>4 DEF Next, JobStep, ClientUsesFreed, WorkerUsesFreed

(* Where RuntimeManager answers no stop with an error, the state changes    *)
(* submitted for a context are, in the order of their submission, a walk of *)
(* the transition table, one edge at a time, and the context is deleted     *)
(* only after UNLOADED was submitted: LifecycleManager implements           *)
(* AppLifecycle (StateHandler::changeState, sendEvent,                      *)
(* handleStateChangeEvent).  The order of delivery is the pool's.           *)
THEOREM ImplementsAppLifecycle ==
  "terminate" \notin Failing => (Spec => ChangesInOrder)
<1> SUFFICES ASSUME "terminate" \notin Failing PROVE Spec => ChangesInOrder
  OBVIOUS
<1>1. Spec => [](IInv /\ RInv /\ SInv /\ KInv)
  BY InductiveInit, InductiveStep, RInvInit, RInvStep, SInvInit, SInvStep, KInvInit, KInvStep,
     PTL DEF Spec
<1>2. IInv /\ RInv /\ SInv /\ KInv /\ [Next]_vars => [Submitted!AbstractNext]_SubmittedPhase
  BY SubmittedStep
<1> QED
  BY <1>1, <1>2, SubmittedInit, PTL
     DEF Spec, ChangesInOrder, Submitted!AbstractSpec, SubmittedPhase, PhaseOf
=============================================================================
