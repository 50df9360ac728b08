------------------------- MODULE AppManager_proofs --------------------------
(* Proofs about AppManager, for any clients, calls, requests, versions and  *)
(* any policy.  AskedIsMarked needs to know who holds the connector's lock  *)
(* between the mark and the call of the LifecycleManager (Held), that one   *)
(* instance at a time is loaded or has its end delivered (Single), and that *)
(* only such an instance can have been asked to end.                        *)
(* OnlyKnownDeadlocks follows from who holds which lock where (Order), and  *)
(* that one client at a time is in a call.  BlockedIsDue is a matter of the *)
(* package: of two versions, a blocked one that is older waits for the lock *)
(* of the newer (Due); with three, or with an install that fails when it is *)
(* done at last, it is not true.                                            *)
EXTENDS AppManagerProps, TLAPS, WellFoundedInduction

Held ==
  /\ \A c \in Client :
       pc[c] \in {"setPaused", "setSuspended", "setHibernated", "unload"} => connOwner = c
  /\ wpc \in {"resume", "spawn"} => connOwner = "worker"

Live(i) == Loaded(i) \/ (notifying.inst = i /\ notifying.new = "UNLOADED")

Single == \A i, k \in Inst : Live(i) /\ Live(k) => i = k

Marked ==
  /\ \A c \in Client : pc[c] = "unload" => terminating
  /\ \A i \in asked : Live(i)

EntryOK == "inst" \in DOMAIN mAppInfo /\ mAppInfo.inst \in Inst \cup {NoInst}

Types ==
  /\ pc \in [Client -> Call \cup {"idle", "terminate", "setPaused", "waiting", "setSuspended",
                                  "setHibernated", "unload", "unlock", "relock"}]
  /\ target \in [Client -> Inst \cup {NoInst}]
  /\ EntryOK
  /\ phase \in [Inst -> LM!Phase]
  /\ jobs \subseteq Job /\ notifying \in Job \cup {NoJob}
  /\ \A j \in jobs : j.new = "UNLOADED" => Loaded(j.inst)
  /\ asked \subseteq Inst

MarkInv == Types /\ Held /\ Single /\ Marked /\ AskedIsMarked

-----------------------------------------------------------------------------
LEMMA InstIsNat == ASSUME RequestBoundAssumption PROVE Inst \subseteq Nat \ {0} /\ NoInst \notin Inst
BY DEF RequestBoundAssumption, Inst, NoInst

LEMMA MarkInit == Init => MarkInv
<1> SUFFICES ASSUME Init PROVE MarkInv
  OBVIOUS
<1> USE RequestBoundAssumption, InstIsNat
<1>1. phase = [i \in Inst |-> "absent"] /\ notifying = NoJob /\ jobs = {} /\ asked = {}
  BY DEF Init
<1>2. \A i \in Inst : ~Live(i)
  BY <1>1 DEF Live, Loaded, LM!LifecycleState, NoJob
<1>3. Types
  <2>1. EntryOK
    BY DEF Init, NoEntry, EntryOK
  <2> QED
    BY <1>1, <2>1 DEF Init, Types, LM!Phase
<1>4. Held /\ Marked
  BY <1>1 DEF Init, Held, Marked
<1> QED
  BY <1>1, <1>2, <1>3, <1>4 DEF MarkInv, Single, AskedIsMarked

-----------------------------------------------------------------------------
(* Steps that leave what the LifecycleManager keeps, and the mark, alone.   *)
LEMMA MarkSame ==
  ASSUME MarkInv, UNCHANGED <<contextVars, asked, terminating>>, Held',
         EntryOK',
         target' \in [Client -> Inst \cup {NoInst}],
         pc' \in [Client -> Call \cup {"idle", "terminate", "setPaused", "waiting", "setSuspended",
                                       "setHibernated", "unload", "unlock", "relock"}],
         \A c \in Client : pc'[c] = "unload" => pc[c] = "unload"
  PROVE  MarkInv'
<1>1. UNCHANGED <<phase, jobs, notifying, asked, terminating>>
  BY DEF contextVars
<1>2. \A i : Live(i)' = Live(i) /\ Loaded(i)' = Loaded(i)
  BY <1>1 DEF Live, Loaded
<1>3. Types' /\ Single' /\ Marked'
  BY <1>1, <1>2 DEF MarkInv, Types, Single, Marked
<1> QED
  BY <1>1, <1>3 DEF MarkInv, AskedIsMarked

LEMMA MarkContext ==
  ASSUME MarkInv, LifecycleStep
  PROVE  MarkInv'
<1> USE RequestBoundAssumption, InstIsNat
<1>1. ASSUME NEW i \in Inst, NEW new \in LM!LifecycleState, Announce(i, new) PROVE MarkInv'
  <2>1. /\ phase[i] \in LM!LifecycleState /\ phase' = [phase EXCEPT ![i] = new]
        /\ jobs' = jobs \cup {[inst |-> i, new |-> new]} /\ notifying' = notifying
        /\ UNCHANGED <<workerVars, infoVars, callVars, connOwner, asked>>
    BY <1>1 DEF Announce, LM!Announce
  <2>2. UNCHANGED <<wpc, mAppInfo, terminating, pc, target, connOwner, asked, notifying>>
    BY <2>1 DEF workerVars, infoVars, callVars
  <2>3. \A k \in Inst : Loaded(k)' = Loaded(k) /\ Live(k)' = Live(k)
    BY <2>1, <2>2 DEF MarkInv, Types, Loaded, Live
  <2>4. [inst |-> i, new |-> new] \in Job /\ Loaded(i)
    BY <2>1 DEF Job, Loaded
  <2>5. \A j \in jobs' : j.new = "UNLOADED" => Loaded(j.inst)'
    BY <2>1, <2>3, <2>4 DEF MarkInv, Types, Job
  <2>6. Types'
    BY <2>1, <2>2, <2>4, <2>5 DEF MarkInv, Types, LM!Phase, EntryOK
  <2>7. Held' /\ Single' /\ Marked'
    BY <2>2, <2>3 DEF MarkInv, Types, Held, Single, Marked
  <2> QED
    BY <2>2, <2>6, <2>7 DEF MarkInv, AskedIsMarked
<1>2. ASSUME NEW j \in jobs, TakeJob(j) PROVE MarkInv'
  <2>1. /\ notifying = NoJob /\ notifying' = j /\ jobs' = jobs \ {j}
        /\ phase' = IF j.new = "UNLOADED" THEN [phase EXCEPT ![j.inst] = "forgotten"] ELSE phase
    BY <1>2 DEF TakeJob
  <2>2. UNCHANGED <<wpc, mAppInfo, terminating, pc, target, connOwner, asked>>
    BY <1>2 DEF TakeJob, workerVars, infoVars, callVars
  <2>3. j \in Job /\ j.inst \in Inst /\ (j.new = "UNLOADED" => Loaded(j.inst))
    BY DEF MarkInv, Types, Job
  <2>4. \A k \in Inst : Live(k)' = Live(k)
    <3>1. CASE j.new = "UNLOADED"
      <4>1. \A k \in Inst : Loaded(k)' = (Loaded(k) /\ k # j.inst)
        BY <2>1, <2>3, <3>1 DEF MarkInv, Types, Loaded, LM!LifecycleState
      <4> QED
        BY <2>1, <2>3, <3>1, <4>1 DEF Live, NoJob
    <3>2. CASE j.new # "UNLOADED"
      BY <2>1, <3>2 DEF Live, Loaded, NoJob
    <3> QED
      BY <3>1, <3>2
  <2>5. \A k \in jobs' : k.new = "UNLOADED" => Loaded(k.inst)'
    <3> SUFFICES ASSUME NEW k \in jobs, k # j, k.new = "UNLOADED" PROVE Loaded(k.inst)'
      BY <2>1
    <3>1. Loaded(k.inst) /\ k \in Job /\ k.inst \in Inst
      BY DEF MarkInv, Types, Job
    <3>2. k.inst # j.inst \/ j.new # "UNLOADED"
      BY <2>3, <3>1 DEF Job
    <3> QED
      BY <2>1, <3>1, <3>2 DEF MarkInv, Types, Loaded
  <2>6. Types'
    BY <2>1, <2>2, <2>3, <2>5 DEF MarkInv, Types, LM!Phase, EntryOK
  <2>7. Held' /\ Single' /\ Marked'
    BY <2>2, <2>4 DEF MarkInv, Types, Held, Single, Marked
  <2> QED
    BY <2>2, <2>6, <2>7 DEF MarkInv, AskedIsMarked
<1>3. CASE OnAppLifecycleStateChanged
  <2>1. /\ notifying # NoJob /\ connOwner = Nobody /\ notifying' = NoJob
        /\ mAppInfo' = IF mAppInfo.present /\ mAppInfo.inst = notifying.inst
                       THEN [mAppInfo EXCEPT !.newState = notifying.new] ELSE mAppInfo
        /\ UNCHANGED <<wpc, pc, target, connOwner, phase, jobs>>
    BY <1>3, Zenon DEF OnAppLifecycleStateChanged, workerVars, callVars
  <2>2. EntryOK'
    BY <2>1 DEF MarkInv, Types, EntryOK
  <2>3. \A c \in Client : pc[c] # "unload"
    BY <2>1, ThreadAssumption DEF MarkInv, Held, Nobody
  <2>4. \A k \in Inst : /\ Loaded(k)' = Loaded(k)
                        /\ Live(k)' = Loaded(k)
    BY <2>1 DEF Loaded, Live, NoJob
  <2>5. CASE notifying.new = "UNLOADED"
    <3>1. asked' = asked \ {notifying.inst}
      BY <1>3, <2>5 DEF OnAppLifecycleStateChanged
    <3>2. notifying \in Job /\ notifying.inst \in Inst /\ Live(notifying.inst)
      BY <2>1, <2>5 DEF MarkInv, Types, Job, Live
    <3>3. asked' = {}
      BY <3>1, <3>2 DEF MarkInv, Types, Marked, Single
    <3>4. Types'
      BY <2>1, <2>2, <2>4, <3>3 DEF MarkInv, Types, Job
    <3>5. Held' /\ Single' /\ Marked'
      BY <2>1, <2>3, <2>4, <3>3 DEF MarkInv, Held, Single, Marked, Live
    <3> QED
      BY <3>3, <3>4, <3>5 DEF MarkInv, AskedIsMarked
  <2>6. CASE notifying.new # "UNLOADED"
    <3>1. UNCHANGED <<terminating, asked>>
      BY <1>3, <2>6 DEF OnAppLifecycleStateChanged
    <3>2. \A k \in Inst : Live(k)' = Live(k)
      BY <2>4, <2>6 DEF Live
    <3>3. Types'
      BY <2>1, <2>2, <2>4, <3>1 DEF MarkInv, Types, Job
    <3>4. Held' /\ Single' /\ Marked'
      BY <2>1, <2>3, <3>1, <3>2 DEF MarkInv, Types, Held, Single, Marked
    <3> QED
      BY <3>1, <3>3, <3>4 DEF MarkInv, AskedIsMarked
  <2> QED
    BY <2>5, <2>6
<1> QED
  BY <1>1, <1>2, <1>3 DEF LifecycleStep
-----------------------------------------------------------------------------
(* The worker.                                                              *)
LEMMA MarkWorker ==
  ASSUME MarkInv, WorkerStep \/ UnloadedUnlock \/ removeAppInfoByAppId \/ PackageStep
  PROVE  MarkInv'
<1> USE RequestBoundAssumption, InstIsNat, ThreadAssumption DEF Nobody
<1>1. CASE WorkerStep /\ ~SpawnApp
  <2>1. /\ UNCHANGED <<contextVars, asked, terminating, pc, target>>
        /\ EntryOK'
    <3>1. CASE LockPackage
      <4>1. UNCHANGED <<contextVars, asked, terminating, pc, target>>
        BY <3>1 DEF LockPackage, callVars
      <4> DEFINE e == IF mAppInfo.present THEN mAppInfo ELSE NewEntry
      <4>2. mAppInfo' = mAppInfo \/ mAppInfo' = [e EXCEPT !.version = found]
        BY <3>1, Zenon DEF LockPackage
      <4>3. "inst" \in DOMAIN e /\ e.inst \in Inst \cup {NoInst}
        BY DEF NewEntry, NoEntry, MarkInv, Types, EntryOK
      <4> HIDE DEF e
      <4>4. EntryOK'
        BY <4>2, <4>3 DEF MarkInv, Types, EntryOK
      <4> QED
        BY <4>1, <4>4
    <3>2. CASE TakeRequest \/ IsAppLoaded \/ ListPackages \/ RequestFails \/ Connect \/ Resume
      BY <3>2 DEF TakeRequest, IsAppLoaded, ListPackages, RequestFails, Connect, Resume,
                  infoVars, callVars, MarkInv, Types, EntryOK
    <3> QED
      BY <1>1, <3>1, <3>2 DEF WorkerStep
  <2>2. Held'
    <3>1. CASE Connect
      <4>1. connOwner = Nobody /\ connOwner' = "worker" /\ pc' = pc
        BY <3>1 DEF Connect, callVars
      <4> QED
        BY <4>1 DEF MarkInv, Held
    <3>2. CASE Resume
      <4>1. wpc = "resume" /\ wpc' = "idle" /\ pc' = pc
        BY <3>2 DEF Resume, WorkerDone, callVars
      <4> QED
        BY <4>1 DEF MarkInv, Held
    <3>3. CASE TakeRequest \/ IsAppLoaded \/ ListPackages \/ RequestFails \/ LockPackage
      <4>1. wpc' \notin {"resume", "spawn"} /\ connOwner' = connOwner /\ pc' = pc
        BY <3>3 DEF TakeRequest, IsAppLoaded, ListPackages, RequestFails, LockPackage, WorkerTo,
                    WorkerDone, callVars
      <4> QED
        BY <4>1 DEF MarkInv, Held
    <3> QED
      BY <1>1, <3>1, <3>2, <3>3 DEF WorkerStep
  <2> QED
    BY <2>1, <2>2, MarkSame DEF MarkInv, Types, EntryOK
<1>2. CASE SpawnApp
  <2>1. /\ wpc = "spawn" /\ wpc' = "idle" /\ notifying = NoJob /\ notifying' = NoJob
        /\ UNCHANGED <<pc, target, terminating, asked>>
    BY <1>2 DEF SpawnApp, LifecycleLockFree, WorkerDone, callVars
  <2>2. PICK i \in Inst :
          /\ IF \E k \in Inst : Loaded(k)
             THEN Loaded(i) /\ UNCHANGED <<phase, jobs>>
             ELSE /\ phase[i] = "absent" /\ \A k \in Inst : k < i => phase[k] # "absent"
                  /\ phase' = [phase EXCEPT ![i] = "LOADING"]
                  /\ jobs' = jobs \cup {[inst |-> i, new |-> "LOADING"]}
          /\ \/ mAppInfo' = [IF mAppInfo.present THEN mAppInfo ELSE NewEntry EXCEPT !.inst = i]
             \/ mAppInfo' = mAppInfo
    BY <1>2, Zenon DEF SpawnApp
  <2>3. Held'
    BY <2>1 DEF MarkInv, Held
  <2>4. EntryOK'
    <3> DEFINE e == IF mAppInfo.present THEN mAppInfo ELSE NewEntry
    <3>1. mAppInfo' = [e EXCEPT !.inst = i] \/ mAppInfo' = mAppInfo
      BY <2>2
    <3>2. "inst" \in DOMAIN e /\ EntryOK
      BY DEF MarkInv, Types, NewEntry, NoEntry, EntryOK
    <3> HIDE DEF e
    <3> QED
      BY <3>1, <3>2 DEF EntryOK
  <2>5. CASE UNCHANGED <<phase, jobs>>
    <3>1. UNCHANGED <<contextVars, asked, terminating>>
      BY <2>1, <2>5 DEF contextVars
    <3> QED
      BY <2>1, <2>3, <2>4, <3>1, MarkSame DEF MarkInv, Types
  <2>6. CASE ~UNCHANGED <<phase, jobs>>
    <3>1. /\ \A k \in Inst : ~Loaded(k)
          /\ phase' = [phase EXCEPT ![i] = "LOADING"]
          /\ jobs' = jobs \cup {[inst |-> i, new |-> "LOADING"]}
      BY <2>2, <2>6
    <3>2. asked = {} /\ asked' = {}
      BY <2>1, <3>1 DEF MarkInv, Types, Marked, Live, NoJob
    <3>3. \A k \in Inst : Live(k)' => k = i
      BY <2>1, <3>1 DEF MarkInv, Types, Live, Loaded, NoJob
    <3>4. [inst |-> i, new |-> "LOADING"] \in Job
      BY DEF Job, LM!LifecycleState
    <3>5. \A j \in jobs : j.new # "UNLOADED"
      BY <3>1 DEF MarkInv, Types, Job
    <3>6. Types'
      BY <2>1, <2>4, <3>1, <3>2, <3>4, <3>5 DEF MarkInv, Types, LM!Phase, LM!LifecycleState
    <3>7. Single' /\ Marked' /\ AskedIsMarked'
      BY <2>1, <3>2, <3>3 DEF MarkInv, Single, Marked, AskedIsMarked
    <3> QED
      BY <2>3, <3>6, <3>7 DEF MarkInv
  <2> QED
    BY <2>5, <2>6
<1>3. CASE UnloadedUnlock \/ PackageStep
  <2>1. UNCHANGED <<contextVars, asked, terminating, pc, target, connOwner, wpc, mAppInfo>>
    BY <1>3 DEF UnloadedUnlock, PackageStep, infoVars, callVars, workerVars
  <2>2. Held'
    BY <2>1 DEF MarkInv, Held
  <2> QED
    BY <2>1, <2>2, MarkSame DEF MarkInv, Types, EntryOK
<1>4. CASE removeAppInfoByAppId
  <2>1. UNCHANGED <<contextVars, asked, terminating, pc, target, connOwner, wpc>>
    BY <1>4 DEF removeAppInfoByAppId, callVars, workerVars
  <2>2. EntryOK'
    BY <1>4 DEF removeAppInfoByAppId, NoEntry, EntryOK
  <2>3. Held'
    BY <2>1 DEF MarkInv, Held
  <2> QED
    BY <2>1, <2>2, <2>3, MarkSame DEF MarkInv, Types
<1> QED
  BY <1>1, <1>2, <1>3, <1>4

-----------------------------------------------------------------------------
(* The clients.  First, what moves a client and nobody else.                *)
Place == Call \cup {"idle", "terminate", "setPaused", "waiting", "setSuspended",
                    "setHibernated", "unload", "unlock", "relock"}

LEMMA Returns ==
  ASSUME MarkInv, NEW c \in Client, Return(c)
  PROVE  /\ pc' = [pc EXCEPT ![c] = pc'[c]] /\ pc'[c] \in {"idle", "relock"}
         /\ target' \in [Client -> Inst \cup {NoInst}]
<1>1. pc' = [pc EXCEPT ![c] = "relock"] \/ pc' = [pc EXCEPT ![c] = "idle"]
  BY Zenon DEF Return
<1>2. target' = [target EXCEPT ![c] = NoInst]
  BY DEF Return
<1> QED
  BY <1>1, <1>2 DEF MarkInv, Types

LEMMA MarkMoves ==
  ASSUME MarkInv, NEW c \in Client, UNCHANGED <<contextVars, asked, terminating, wpc>>,
         pc' = [pc EXCEPT ![c] = pc'[c]], pc'[c] \in Place, pc'[c] # "unload",
         target' \in [Client -> Inst \cup {NoInst}], EntryOK',
         \/ connOwner' = connOwner /\ pc'[c] \notin {"setPaused", "setSuspended", "setHibernated"}
         \/ connOwner = Nobody /\ connOwner' = c
         \/ connOwner = c /\ connOwner' \in {c, Nobody}
              /\ (pc'[c] \in {"setPaused", "setSuspended", "setHibernated"} => connOwner' = c)
  PROVE  MarkInv'
<1> USE ThreadAssumption DEF Nobody
<1>1. Held'
  BY DEF MarkInv, Types, Held
<1>2. pc' \in [Client -> Place] /\ \A d \in Client : pc'[d] = "unload" => pc[d] = "unload"
  BY DEF MarkInv, Types, Place
<1> QED
  BY <1>1, <1>2, MarkSame DEF Place

LEMMA MarkCall ==
  ASSUME MarkInv, NEW c \in Client, CallStep(c)
  PROVE  MarkInv'
<1> USE RequestBoundAssumption, InstIsNat, ThreadAssumption DEF Nobody
<1>1. EntryOK /\ (mAppInfo' = mAppInfo => EntryOK') /\ target \in [Client -> Inst \cup {NoInst}]
  BY DEF MarkInv, Types, EntryOK
<1>2. ASSUME NEW call \in Call, Enter(c, call) PROVE MarkInv'
  <2>1. /\ UNCHANGED <<contextVars, asked, terminating, wpc, target, mAppInfo, connOwner>>
        /\ pc' = [pc EXCEPT ![c] = call]
    BY <1>2 DEF Enter, infoVars, workerVars
  <2>2. pc'[c] = call /\ call \in Place /\ call # "unload"
        /\ call \notin {"setPaused", "setSuspended", "setHibernated"}
    BY <2>1, CallAssumption DEF MarkInv, Types, Place
  <2> QED
    BY <1>1, <2>1, <2>2, MarkMoves
<1>3. CASE PushRequest(c) \/ UnlockPackage(c)
  <2>1. /\ UNCHANGED <<contextVars, asked, terminating, wpc, mAppInfo, connOwner>> /\ Return(c)
    BY <1>3 DEF PushRequest, UnlockPackage, infoVars, workerVars
  <2> QED
    BY <1>1, <2>1, Returns, MarkMoves DEF Place
<1>4. CASE GetLoadedApps(c)
  <2>1. UNCHANGED <<contextVars, asked, terminating, wpc, connOwner>> /\ Return(c)
    BY <1>4 DEF GetLoadedApps, workerVars
  <2>2. EntryOK'
    <3>1. CASE \E i \in Inst : Loaded(i)
      <4> DEFINE i == CHOOSE i \in Inst : Loaded(i)
                 e == IF mAppInfo.present THEN mAppInfo ELSE NewEntry
      <4>1. i \in Inst
        BY <3>1
      <4>2. mAppInfo' = [e EXCEPT !.inst = i, !.newState = phase[i]]
        BY <1>4, <3>1, Zenon DEF GetLoadedApps
      <4> HIDE DEF i
      <4>3. "inst" \in DOMAIN e
        BY <1>1 DEF NewEntry, NoEntry, EntryOK
      <4> HIDE DEF e
      <4> QED
        BY <4>1, <4>2, <4>3 DEF EntryOK
    <3>2. CASE ~\E i \in Inst : Loaded(i)
      BY <1>1, <1>4, <3>2 DEF GetLoadedApps
    <3> QED
      BY <3>1, <3>2
  <2> QED
    BY <2>1, <2>2, Returns, MarkMoves DEF Place
<1>5. CASE FindEntry(c)
  <2>1. CASE mAppInfo.present /\ (pc[c] = "kill" => mAppInfo.inst # NoInst)
    <3>1. /\ terminating' = TRUE /\ connOwner = Nobody /\ connOwner' = c
          /\ target' = [target EXCEPT ![c] = mAppInfo.inst]
          /\ pc' = [pc EXCEPT ![c] = IF pc[c] = "close" THEN "setPaused" ELSE "unload"]
      BY <1>5, <2>1, Zenon DEF FindEntry
    <3>2. UNCHANGED <<phase, jobs, notifying, asked, wpc, mAppInfo>>
      BY <1>5 DEF FindEntry, contextVars, workerVars
    <3>3. \A i : Live(i)' = Live(i) /\ Loaded(i)' = Loaded(i)
      BY <3>2 DEF Live, Loaded
    <3>4. Held'
      BY <3>1, <3>2 DEF MarkInv, Types, Held
    <3>5. Types'
      <4>1. mAppInfo.inst \in Inst \cup {NoInst}
        BY <2>1 DEF MarkInv, Types, EntryOK
      <4>2. /\ pc' \in [Client -> Call \cup {"idle", "terminate", "setPaused", "waiting",
                                           "setSuspended", "setHibernated", "unload",
                                           "unlock", "relock"}]
            /\ target' \in [Client -> Inst \cup {NoInst}]
        BY <3>1, <4>1 DEF MarkInv, Types
      <4> QED
        BY <1>1, <3>2, <3>3, <4>2 DEF MarkInv, Types
    <3> QED
      BY <3>1, <3>2, <3>3, <3>4, <3>5 DEF MarkInv, Types, Single, Marked, AskedIsMarked
  <2>2. CASE ~(mAppInfo.present /\ (pc[c] = "kill" => mAppInfo.inst # NoInst))
    <3>1. UNCHANGED <<contextVars, asked, terminating, wpc, mAppInfo, connOwner>> /\ Return(c)
      BY <1>5, <2>2 DEF FindEntry, workerVars
    <3> QED
      BY <1>1, <3>1, Returns, MarkMoves DEF Place
  <2> QED
    BY <2>1, <2>2
<1>6. CASE SetPaused(c)
  <2>1. /\ UNCHANGED <<contextVars, asked, terminating, wpc, mAppInfo>>
        /\ pc[c] = "setPaused" /\ connOwner' = Nobody /\ (Stay(c, "waiting") \/ Return(c))
    BY <1>6 DEF SetPaused, infoVars, workerVars
  <2>2. connOwner = c
    BY <2>1 DEF MarkInv, Held
  <2>3. CASE Stay(c, "waiting")
    <3>1. pc' = [pc EXCEPT ![c] = "waiting"] /\ target' = target /\ pc'[c] = "waiting"
      BY <2>3 DEF Stay, MarkInv, Types
    <3> QED
      BY <1>1, <2>1, <2>2, <3>1, MarkMoves DEF Place
  <2>4. CASE Return(c)
    BY <1>1, <2>1, <2>2, <2>4, Returns, MarkMoves DEF Place
  <2> QED
    BY <2>1, <2>3, <2>4
<1>7. CASE Waited(c)
  <2>1. /\ UNCHANGED <<contextVars, asked, terminating, wpc, mAppInfo>> /\ connOwner = Nobody
        /\ \/ pc' = [pc EXCEPT ![c] = "terminate"] /\ UNCHANGED <<target, connOwner>>
           \/ Stay(c, "setSuspended") /\ connOwner' = c
           \/ Return(c) /\ connOwner' = connOwner
    BY <1>7 DEF Waited, infoVars, workerVars
  <2>2. CASE pc' = [pc EXCEPT ![c] = "terminate"] /\ UNCHANGED <<target, connOwner>>
    <3>1. pc'[c] = "terminate"
      BY <2>2 DEF MarkInv, Types
    <3> QED
      BY <1>1, <2>1, <2>2, <3>1, MarkMoves DEF Place
  <2>3. CASE Stay(c, "setSuspended") /\ connOwner' = c
    <3>1. pc' = [pc EXCEPT ![c] = "setSuspended"] /\ target' = target /\ pc'[c] = "setSuspended"
      BY <2>3 DEF Stay, MarkInv, Types
    <3> QED
      BY <1>1, <2>1, <2>3, <3>1, MarkMoves DEF Place
  <2>4. CASE Return(c) /\ connOwner' = connOwner
    BY <1>1, <2>1, <2>4, Returns, MarkMoves DEF Place
  <2> QED
    BY <2>1, <2>2, <2>3, <2>4
<1>8. CASE SetSuspended(c)
  <2>1. /\ UNCHANGED <<contextVars, asked, terminating, wpc, mAppInfo>>
        /\ pc[c] \in {"setSuspended", "setHibernated"}
        /\ \/ Stay(c, "setHibernated") /\ connOwner' = connOwner
           \/ Return(c) /\ connOwner' = Nobody
    BY <1>8 DEF SetSuspended, infoVars, workerVars
  <2>2. connOwner = c
    BY <2>1 DEF MarkInv, Held
  <2>3. CASE Stay(c, "setHibernated") /\ connOwner' = connOwner
    <3>1. pc' = [pc EXCEPT ![c] = "setHibernated"] /\ target' = target /\ pc'[c] = "setHibernated"
      BY <2>3 DEF Stay, MarkInv, Types
    <3> QED
      BY <1>1, <2>1, <2>2, <2>3, <3>1, MarkMoves DEF Place
  <2>4. CASE Return(c) /\ connOwner' = Nobody
    BY <1>1, <2>1, <2>2, <2>4, Returns, MarkMoves DEF Place
  <2> QED
    BY <2>1, <2>3, <2>4
<1>9. CASE UnloadApp(c)
  <2>1. /\ UNCHANGED <<phase, jobs, notifying, terminating, wpc, mAppInfo>>
        /\ pc[c] = "unload" /\ connOwner' = Nobody
    BY <1>9 DEF UnloadApp, infoVars, workerVars, contextVars
  <2>2. connOwner = c /\ terminating
    BY <2>1 DEF MarkInv, Held, Marked
  <2>3. \A i : Live(i)' = Live(i) /\ Loaded(i)' = Loaded(i)
    BY <2>1 DEF Live, Loaded
  <2>4. CASE Loaded(target[c])
    <3>1. pc' = [pc EXCEPT ![c] = "unlock"] /\ target' = target
          /\ asked' = asked \cup {target[c]}
      BY <1>9, <2>4 DEF UnloadApp, Stay
    <3>2. target[c] \in Inst
      BY <1>1, <2>4 DEF Loaded
    <3>3. Types'
      BY <1>1, <2>1, <2>3, <3>1, <3>2 DEF MarkInv, Types
    <3>4. Held'
      BY <2>1, <2>2, <3>1 DEF MarkInv, Types, Held
    <3>5. Single' /\ Marked' /\ AskedIsMarked'
      BY <2>1, <2>2, <2>3, <2>4, <3>1 DEF MarkInv, Types, Single, Marked, AskedIsMarked, Live
    <3> QED
      BY <3>3, <3>4, <3>5 DEF MarkInv
  <2>5. CASE ~Loaded(target[c])
    <3>1. Return(c) /\ UNCHANGED <<contextVars, asked, terminating, wpc, mAppInfo>>
      BY <1>9, <2>5 DEF UnloadApp, infoVars, workerVars
    <3> QED
      BY <1>1, <2>1, <2>2, <3>1, Returns, MarkMoves DEF Place
  <2> QED
    BY <2>4, <2>5
<1>10. CASE Relock(c)
  <2>1. /\ UNCHANGED <<contextVars, asked, terminating, wpc, target, mAppInfo, connOwner>>
        /\ pc' = [pc EXCEPT ![c] = "idle"] /\ pc'[c] = "idle"
    BY <1>10 DEF Relock, infoVars, workerVars, MarkInv, Types
  <2> QED
    BY <1>1, <2>1, MarkMoves DEF Place
<1> QED
  BY <1>2, <1>3, <1>4, <1>5, <1>6, <1>7, <1>8, <1>9, <1>10 DEF CallStep

-----------------------------------------------------------------------------
LEMMA MarkInvariant == Spec => []MarkInv
<1>1. MarkInv /\ [Next]_vars => MarkInv'
  <2> SUFFICES ASSUME MarkInv, [Next]_vars PROVE MarkInv'
    OBVIOUS
  <2>1. CASE Next
    BY <2>1, MarkContext, MarkWorker, MarkCall DEF Next
  <2>2. CASE UNCHANGED vars
    <3>1. UNCHANGED <<contextVars, asked, terminating, pc, target, connOwner, wpc, mAppInfo>>
      BY <2>2 DEF vars, workerVars, infoVars, callVars
    <3>2. Held'
      BY <3>1 DEF MarkInv, Held
    <3> QED
      BY <3>1, <3>2, MarkSame DEF MarkInv, Types, EntryOK
  <2> QED
    BY <2>1, <2>2
<1> QED
  BY <1>1, MarkInit, PTL DEF Spec

(* An instance that AppManager has asked the LifecycleManager to end is     *)
(* still marked when its UNLOADED is delivered, so that its end is not taken*)
(* for a crash (LifecycleInterfaceConnector::terminateApp, killApp,         *)
(* OnAppLifecycleStateChanged).                                             *)
THEOREM AskedStaysMarked == Spec => []AskedIsMarked
<1>1. MarkInv => AskedIsMarked
  BY DEF MarkInv
<1> QED
  BY <1>1, MarkInvariant, PTL

-----------------------------------------------------------------------------
(* The package, between AppManager and the PackageManager.  With two        *)
(* versions and installs that do not fail, a version that waits has a lock  *)
(* to wait for: the first version, which any last Unlock completes, waits   *)
(* for the other one, so that the other one, if it waits too, is done with. *)
AtMostTwo == \A u, v, w \in Version : u = v \/ v = w \/ u = w

InstallsSucceed == Failing \cap {"CreateStorage", "install"} = {}

Due ==
  /\ \A v \in Version : installState[v] # "UNINSTALL_BLOCKED"
  /\ \A v, w \in Version :
       installState[v] = "INSTALLATION_BLOCKED" /\ v < w => mLockCount[w] > 0
  /\ BlockedIsDue

DueInv == AtMostTwo /\ InstallsSucceed => Due

States == PM!InstallState \cup {PM!NotFound}

(* The first version of a set of versions.                                  *)
LEMMA FirstOf ==
  ASSUME PM!VersionAssumption, NEW S \in SUBSET Version
  PROVE  /\ PM!First(S) \in S \cup {PM!NoVersion}
         /\ S # {} => PM!First(S) \in S /\ \A w \in S : PM!First(S) <= w
<1>1. CASE S = {}
  BY <1>1 DEF PM!First
<1>2. CASE S # {}
  <2>1. S \subseteq Nat
    BY DEF PM!VersionAssumption
  <2>2. PICK v \in S : \A w \in S : ~(<<w, v>> \in OpToRel(<, Nat))
    BY <1>2, <2>1, NatLessThanWellFounded, WFMin, Zenon
  <2>3. \A w \in S : ~(w < v)
    BY <2>1, <2>2, Zenon DEF OpToRel
  <2>4. \A w \in S : v <= w
    BY <2>1, <2>3
  <2> QED
    BY <1>2, <2>4 DEF PM!First
<1> QED
  BY <1>1, <1>2

LEMMA Waiting ==
  ASSUME PM!VersionAssumption, NEW state
  PROVE  LET b == PM!GetBlockedVersion(state) IN
           /\ b = PM!NoVersion => \A v \in Version : state[v] \notin PM!Blocked
           /\ b # PM!NoVersion => /\ b \in Version /\ state[b] \in PM!Blocked
                                  /\ \A v \in Version : state[v] \in PM!Blocked => b <= v
<1> DEFINE S == {v \in Version : state[v] \in PM!Blocked}
<1>1. S \in SUBSET Version /\ PM!NoVersion \notin S
  BY DEF PM!VersionAssumption, PM!NoVersion
<1>2. PM!GetBlockedVersion(state) = PM!First(S)
  BY DEF PM!GetBlockedVersion
<1>3. /\ PM!First(S) \in S \cup {PM!NoVersion}
      /\ S # {} => PM!First(S) \in S /\ \A w \in S : PM!First(S) <= w
  BY <1>1, FirstOf
<1> QED
  BY <1>1, <1>2, <1>3

(* What the private Install leaves: another state of the version that it is *)
(* for, INSTALLED when nothing may fail.                                    *)
LEMMA Installs ==
  ASSUME NEW state \in [Version -> States], NEW v \in Version,
         NEW r \in PM!InstallOutcome(state, v)
  PROVE  /\ r.state \in [Version -> States]
         /\ \A w \in Version : w # v => r.state[w] = state[w]
         /\ InstallsSucceed => r.ok /\ r.state[v] = "INSTALLED"
         /\ r.state[v] \in {state[v], "INSTALLED", "INSTALL_FAILURE"}
<1>1. PICK stored \in PM!MayFail("CreateStorage"), done \in PM!MayFail("install") :
        r = IF ~stored THEN [state |-> state, ok |-> FALSE]
            ELSE [state |-> [state EXCEPT ![v] = IF done THEN "INSTALLED" ELSE "INSTALL_FAILURE"],
                  ok |-> done]
  BY DEF PM!InstallOutcome
<1>2. InstallsSucceed => stored = TRUE /\ done = TRUE
  BY DEF InstallsSucceed, PM!MayFail
<1>3. r.state = state
        \/ r.state = [state EXCEPT ![v] = IF done THEN "INSTALLED" ELSE "INSTALL_FAILURE"]
  BY <1>1
<1>4. InstallsSucceed => r.ok /\ r.state = [state EXCEPT ![v] = "INSTALLED"]
  BY <1>1, <1>2
<1> QED
  BY <1>3, <1>4 DEF States, PM!InstallState

LEMMA Uninstalls ==
  ASSUME NEW state \in [Version -> States], NEW locks, NEW v \in Version \cup {PM!NoVersion},
         NEW after \in PM!UninstallOutcome(state, locks, v)
  PROVE  after \in [Version -> States]
<1>1. \/ after = state \/ after = [state EXCEPT ![v] = "UNINSTALL_BLOCKED"]
      \/ after = [state EXCEPT ![v] = "UNINSTALLED"]
  BY DEF PM!UninstallOutcome
<1> QED
  BY <1>1 DEF States, PM!InstallState

(* Every step of the package keeps its types, and leaves no install behind. *)
LEMMA UnlockMoves ==
  ASSUME PM!VersionAssumption, PM!LockBoundAssumption, PM!TypeOK, DueInv,
         NEW v \in Version, PM!Unlock(v)
  PROVE  PM!TypeOK' /\ DueInv'
<1> USE PM!VersionAssumption, PM!LockBoundAssumption DEF PM!LockBoundAssumption
<1> DEFINE b == PM!GetBlockedVersion(installState)
           locks == [mLockCount EXCEPT ![v] = @ - 1]
<1>1. /\ installState \in [Version -> States] /\ mLockCount \in [Version -> 0..MaxLocks]
      /\ unpackedPath \in [Version -> BOOLEAN] /\ cacheInitialized \in BOOLEAN
  BY DEF PM!TypeOK, States
<1>2. mLockCount' = locks /\ mLockCount[v] > 0 /\ UNCHANGED cacheInitialized
  BY DEF PM!Unlock
<1>3. locks \in [Version -> 0..MaxLocks] /\ \A w \in Version : w # v => locks[w] = mLockCount[w]
  BY <1>1, <1>2
<1>4. /\ b = PM!NoVersion => \A w \in Version : installState[w] \notin PM!Blocked
      /\ b # PM!NoVersion => /\ b \in Version /\ installState[b] \in PM!Blocked
                             /\ \A w \in Version : installState[w] \in PM!Blocked => b <= w
  BY Waiting, Zenon
<1> HIDE DEF b, locks
<1>5. CASE PM!LocksLeft(v) \/ b = PM!NoVersion
  <2>1. UNCHANGED <<installState, unpackedPath>>
    BY <1>5, Zenon DEF PM!Unlock, b
  <2>2. PM!TypeOK'
    BY <1>1, <1>2, <1>3, <2>1 DEF PM!TypeOK, States
  <2>3. CASE PM!LocksLeft(v)
    <3>1. \A w \in Version : mLockCount[w] > 0 => mLockCount'[w] > 0
      BY <1>1, <1>2, <1>3, <2>3 DEF PM!LocksLeft, locks
    <3> QED
      BY <2>1, <2>2, <3>1 DEF DueInv, Due, BlockedIsDue
  <2>4. CASE b = PM!NoVersion
    <3>1. \A w \in Version : installState[w] \notin {"INSTALLATION_BLOCKED", "UNINSTALL_BLOCKED"}
      BY <1>4, <2>4 DEF PM!Blocked
    <3> QED
      BY <2>1, <2>2, <3>1 DEF DueInv, Due, BlockedIsDue
  <2> QED
    BY <1>5, <2>3, <2>4
<1>6. CASE ~PM!LocksLeft(v) /\ b # PM!NoVersion
  <2>1. unpackedPath' = [unpackedPath EXCEPT ![b] = FALSE]
    BY <1>6 DEF PM!Unlock, b
  <2>2. unpackedPath' \in [Version -> BOOLEAN]
    BY <1>1, <2>1, Zenon
  <2>3. CASE installState[b] = "INSTALLATION_BLOCKED"
    <3>1. PICK r \in PM!InstallOutcome(installState, b) :
            installState' = IF r.ok THEN [r.state EXCEPT ![v] = "UNINSTALLED"] ELSE r.state
      BY <1>6, <2>3, Zenon DEF PM!Unlock, b
    <3>2. /\ r.state \in [Version -> States]
          /\ \A w \in Version : w # b => r.state[w] = installState[w]
          /\ InstallsSucceed => r.ok /\ r.state[b] = "INSTALLED"
      BY <1>1, <1>4, <1>6, Installs
    <3>3. installState' \in [Version -> States]
      BY <3>1, <3>2 DEF States, PM!InstallState
    <3>4. DueInv'
      <4> SUFFICES ASSUME AtMostTwo, InstallsSucceed PROVE Due'
        BY DEF DueInv
      <4>1. installState' = [r.state EXCEPT ![v] = "UNINSTALLED"]
        BY <3>1, <3>2
      <4>2. \A w \in Version : installState'[w] = "INSTALLATION_BLOCKED"
                                 => w # v /\ w # b /\ installState[w] = "INSTALLATION_BLOCKED"
        BY <3>2, <4>1
      <4>3. \A w \in Version : installState'[w] # "UNINSTALL_BLOCKED"
        BY <3>2, <4>1 DEF DueInv, Due
      <4>4. \A w \in Version : installState'[w] = "INSTALLATION_BLOCKED" => v = b /\ b < w
        <5> SUFFICES ASSUME NEW w \in Version, installState'[w] = "INSTALLATION_BLOCKED"
                     PROVE  v = b /\ b < w
          OBVIOUS
        <5>1. w # v /\ w # b /\ b <= w
          BY <1>4, <1>6, <4>2 DEF PM!Blocked
        <5>2. v = b
          BY <1>4, <1>6, <5>1 DEF AtMostTwo
        <5> QED
          BY <1>4, <1>6, <5>1, <5>2 DEF PM!VersionAssumption
      <4>5. \A w \in Version : installState'[w] = "INSTALLATION_BLOCKED" => mLockCount'[w] > 0
        BY <1>2, <1>3, <1>4, <1>6, <2>3, <4>2, <4>4 DEF DueInv, Due
      <4>6. \A u, w \in Version : ~(installState'[u] = "INSTALLATION_BLOCKED" /\ u < w)
        BY <4>2, <4>4 DEF AtMostTwo, PM!VersionAssumption
      <4> QED
        BY <4>3, <4>5, <4>6 DEF Due, BlockedIsDue
    <3> QED
      BY <1>2, <1>3, <2>2, <3>3, <3>4 DEF PM!TypeOK, States
  <2>4. CASE installState[b] # "INSTALLATION_BLOCKED"
    <3>1. PICK state \in PM!UninstallOutcome(installState, mLockCount',
                                             PM!GetInstalledVersion(installState)) :
            installState' = state
      BY <1>6, <2>4, Zenon DEF PM!Unlock, b
    <3>2. PM!GetInstalledVersion(installState) \in Version \cup {PM!NoVersion}
      BY FirstOf DEF PM!GetInstalledVersion
    <3>3. installState' \in [Version -> States]
      BY <1>1, <3>1, <3>2, Uninstalls
    <3>4. ~(AtMostTwo /\ InstallsSucceed)
      BY <1>4, <1>6, <2>4 DEF DueInv, Due, PM!Blocked
    <3> QED
      BY <1>2, <1>3, <2>2, <3>3, <3>4 DEF PM!TypeOK, States, DueInv, AtMostTwo, InstallsSucceed
  <2> QED
    BY <2>3, <2>4
<1> QED
  BY <1>5, <1>6

LEMMA PackageMoves ==
  ASSUME PM!VersionAssumption, PM!LockBoundAssumption, PM!TypeOK, DueInv,
         mAppInfo.version \in Version \cup {PM!NoVersion},
         \/ PM!InitializeState \/ (\E v \in Version : PM!Install(v))
         \/ PackageUnlock \/ (PM!Lock(found) /\ found \in Version) \/ UNCHANGED packageVars
  PROVE  PM!TypeOK' /\ DueInv'
<1> USE PM!VersionAssumption, PM!LockBoundAssumption DEF PM!LockBoundAssumption
<1>1. /\ installState \in [Version -> States] /\ mLockCount \in [Version -> 0..MaxLocks]
      /\ unpackedPath \in [Version -> BOOLEAN] /\ cacheInitialized \in BOOLEAN
  BY DEF PM!TypeOK, States
<1>2. CASE UNCHANGED packageVars
  BY <1>2 DEF packageVars, PM!TypeOK, DueInv, Due, BlockedIsDue, AtMostTwo, InstallsSucceed
<1>3. CASE PM!InitializeState
  <2>1. \A v \in Version : installState'[v] \in {"INSTALLED", PM!NotFound}
    BY <1>3 DEF PM!InitializeState
  <2>2. DueInv'
    BY <2>1 DEF DueInv, Due, BlockedIsDue, PM!NotFound
  <2> QED
    BY <1>3, <2>2 DEF PM!InitializeState, PM!TypeOK, PM!InstallState
<1>4. ASSUME NEW v \in Version, PM!Install(v) PROVE PM!TypeOK' /\ DueInv'
  <2> DEFINE installing == [installState EXCEPT ![v] = "INSTALLING"]
             w == PM!GetInstalledVersion(installing)
  <2>1. installing \in [Version -> States]
    BY <1>1 DEF States, PM!InstallState
  <2>2. UNCHANGED <<cacheInitialized, mLockCount, unpackedPath>>
    BY <1>4 DEF PM!Install
  <2>3. w \in Version \cup {PM!NoVersion}
    BY FirstOf DEF PM!GetInstalledVersion
  <2>4. CASE w # PM!NoVersion /\ w # v /\ mLockCount[w] > 0
    <3>1. installState' = [installState EXCEPT ![v] = "INSTALLATION_BLOCKED"]
      BY <1>4, <2>4, Zenon DEF PM!Install
    <3> HIDE DEF w
    <3>2. PM!TypeOK'
      BY <1>1, <2>2, <3>1 DEF PM!TypeOK, PM!InstallState, States
    <3>3. DueInv'
      <4> SUFFICES ASSUME AtMostTwo, InstallsSucceed PROVE Due'
        BY DEF DueInv
      <4>1. \A u \in Version : v < u => mLockCount[u] > 0
        BY <2>3, <2>4 DEF AtMostTwo, PM!VersionAssumption
      <4> QED
        BY <1>1, <2>2, <2>3, <2>4, <3>1, <4>1 DEF DueInv, Due, BlockedIsDue
    <3> QED
      BY <3>2, <3>3
  <2>5. CASE ~(w # PM!NoVersion /\ w # v /\ mLockCount[w] > 0)
    <3>1. PICK r \in PM!InstallOutcome(installing, v) : installState' = r.state
      BY <1>4, <2>5, Zenon DEF PM!Install
    <3>2. installing[v] = "INSTALLING" /\ \A u \in Version : u # v => installing[u] = installState[u]
      BY <1>1
    <3> HIDE DEF installing
    <3>3. /\ installState' \in [Version -> States]
          /\ \A u \in Version : u # v => installState'[u] = installState[u]
          /\ installState'[v] \in {"INSTALLING", "INSTALLED", "INSTALL_FAILURE"}
      BY <2>1, <3>1, <3>2, Installs
    <3>4. DueInv'
      BY <2>2, <3>3 DEF DueInv, Due, BlockedIsDue, AtMostTwo, InstallsSucceed
    <3> QED
      BY <2>2, <3>3, <3>4 DEF PM!TypeOK, States
  <2> QED
    BY <2>4, <2>5
<1>5. CASE PM!Lock(found) /\ found \in Version
  <2>1. /\ UNCHANGED <<cacheInitialized, installState>> /\ mLockCount[found] < MaxLocks
        /\ mLockCount' = [mLockCount EXCEPT ![found] = @ + 1]
        /\ unpackedPath' = [unpackedPath EXCEPT ![found] = @ \/ mLockCount[found] = 0]
    BY <1>5 DEF PM!Lock
  <2>2. /\ mLockCount' \in [Version -> 0..MaxLocks]
        /\ \A w \in Version : mLockCount[w] > 0 => mLockCount'[w] > 0
    BY <1>1, <1>5, <2>1
  <2>3. unpackedPath' \in [Version -> BOOLEAN]
    BY <1>1, <2>1, Zenon
  <2> QED
    BY <2>1, <2>2, <2>3 DEF PM!TypeOK, DueInv, Due, BlockedIsDue, AtMostTwo, InstallsSucceed
<1>6. CASE PackageUnlock
  <2>1. CASE mAppInfo.present /\ mAppInfo.version # PM!NoVersion /\ mLockCount[mAppInfo.version] > 0
    BY <1>6, <2>1, UnlockMoves DEF PackageUnlock
  <2>2. CASE ~(mAppInfo.present /\ mAppInfo.version # PM!NoVersion
                 /\ mLockCount[mAppInfo.version] > 0)
    BY <1>2, <1>6, <2>2 DEF PackageUnlock
  <2> QED
    BY <2>1, <2>2
<1> QED
  BY <1>2, <1>3, <1>4, <1>5, <1>6

-----------------------------------------------------------------------------
(* Who holds which lock, and where.  One client at a time is in a call,     *)
(* since every call holds mAdminLock; the connector's lock is held only     *)
(* where the LifecycleManager is called.                                    *)
Calling == {"setPaused", "setSuspended", "setHibernated", "unload"}

Order ==
  /\ \A c \in Client : (pc[c] # "idle") <=> (adminOwner = c)
  /\ (wpc # "idle") <=> (queueOwner = "worker")
  /\ \A c \in Client : connOwner = c => pc[c] \in Calling
  /\ connOwner = "worker" => wpc \in {"resume", "spawn"}

Entry == [present : BOOLEAN, inst : Inst \cup {NoInst},
          version : Version \cup {PM!NoVersion}, newState : AppState]

(* What MarkInv does not say of the types, and what they rest on.           *)
AppTypes ==
  /\ mAppRequestList \in Seq(Request) /\ accepted \in 0..MaxRequests
  /\ mAppInfo \in Entry
  /\ terminating \in BOOLEAN /\ aborted \in BOOLEAN
  /\ closing \subseteq Client
  /\ wpc \in {"idle", "load", "list", "lock", "failed", "connect", "resume", "spawn"}
  /\ request \in Request /\ found \in Version \cup {PM!NoVersion}
  /\ adminOwner \in Client \cup {Nobody}
  /\ queueOwner \in {"worker", Nobody}
  /\ connOwner \in Client \cup {"worker", Nobody}
  /\ unloads \in Nat /\ erases \in Nat

Room ==
  /\ \A c \in Client : pc[c] \in Request => accepted < MaxRequests
  /\ wpc = "lock" => found \in Version

AppInv == MarkInv /\ AppTypes /\ Order /\ Room /\ PM!TypeOK /\ DueInv

LEMMA AppInvInit ==
  ASSUME PM!LockBoundAssumption, Init
  PROVE  AppInv
<1> USE RequestBoundAssumption, ThreadAssumption, InstIsNat DEF Nobody
<1>1. MarkInv
  BY MarkInit
<1>2. PM!TypeOK
  <2>1. 0 \in 0..MaxLocks
    BY DEF PM!LockBoundAssumption
  <2> QED
    BY <2>1 DEF Init, PM!Init, PM!TypeOK, PM!InstallState
<1>3. DueInv
  BY DEF Init, PM!Init, DueInv, Due, BlockedIsDue, PM!NotFound
<1>4. mAppInfo \in Entry
  BY DEF Init, NoEntry, Entry, AppState
<1>5. /\ mAppRequestList = <<>> /\ accepted = 0 /\ terminating = FALSE /\ aborted = FALSE
      /\ closing = {} /\ wpc = "idle" /\ request = "launch" /\ found = PM!NoVersion
      /\ adminOwner = Nobody /\ queueOwner = Nobody /\ connOwner = Nobody
      /\ unloads = 0 /\ erases = 0 /\ \A c \in Client : pc[c] = "idle"
  BY DEF Init
<1>6. AppTypes
  <2>1. mAppRequestList \in Seq(Request) /\ accepted \in 0..MaxRequests
    BY <1>5 DEF RequestBoundAssumption
  <2> HIDE DEF Nobody
  <2> QED
    BY <1>4, <1>5, <2>1 DEF AppTypes, Request
<1>7. Order /\ Room
  BY <1>5 DEF Order, Room, Request
<1> QED
  BY <1>1, <1>2, <1>3, <1>6, <1>7 DEF AppInv

(* What a step makes of the entry of the application.                       *)
LEMMA EntryTyped ==
  /\ NewEntry \in Entry
  /\ \A e \in Entry :
       /\ \A i \in Inst : [e EXCEPT !.inst = i] \in Entry
       /\ \A i \in Inst, s \in AppState : [e EXCEPT !.inst = i, !.newState = s] \in Entry
       /\ \A s \in AppState : [e EXCEPT !.newState = s] \in Entry
       /\ \A v \in Version : [e EXCEPT !.version = v] \in Entry
BY DEF NewEntry, NoEntry, Entry, AppState

(* One client moves.                                                        *)
LEMMA CallerMoves ==
  ASSUME AppInv, NEW c \in Client, pc[c] # "idle" \/ adminOwner = Nobody,
         pc' = [pc EXCEPT ![c] = pc'[c]],
         adminOwner' = IF pc'[c] = "idle" THEN Nobody ELSE c,
         UNCHANGED <<wpc, queueOwner>>,
         connOwner' \in {connOwner, c, Nobody}, connOwner' = c => pc'[c] \in Calling
  PROVE  Order'
<1> USE ThreadAssumption DEF Nobody
<1>1. pc \in [Client -> Place]
  BY DEF AppInv, MarkInv, Types, Place
<1>2. \A d \in Client \ {c} : pc'[d] = pc[d] /\ pc[d] = "idle"
  BY <1>1 DEF AppInv, AppTypes, Order
<1> QED
  BY <1>2 DEF AppInv, AppTypes, Order

LEMMA CallerReturns ==
  ASSUME AppInv, NEW c \in Client, pc[c] # "idle", Return(c)
  PROVE  /\ pc' = [pc EXCEPT ![c] = pc'[c]] /\ pc'[c] \in {"idle", "relock"}
         /\ adminOwner' = IF pc'[c] = "idle" THEN Nobody ELSE c
         /\ closing' = closing
<1>1. adminOwner = c /\ pc \in [Client -> Place]
  BY DEF AppInv, Order, MarkInv, Types, Place
<1>2. CASE c \in closing
  <2>1. pc' = [pc EXCEPT ![c] = "relock"] /\ UNCHANGED <<adminOwner, closing>>
    BY <1>2 DEF Return
  <2> QED
    BY <1>1, <2>1
<1>3. CASE c \notin closing
  <2>1. pc' = [pc EXCEPT ![c] = "idle"] /\ adminOwner' = Nobody /\ closing' = closing
    BY <1>3 DEF Return
  <2> QED
    BY <1>1, <2>1
<1> QED
  BY <1>2, <1>3

LEMMA CallerStays ==
  ASSUME AppInv, NEW c \in Client, pc[c] # "idle", NEW to, to # "idle", Stay(c, to)
  PROVE  /\ pc' = [pc EXCEPT ![c] = pc'[c]] /\ pc'[c] = to
         /\ adminOwner' = IF pc'[c] = "idle" THEN Nobody ELSE c
         /\ closing' = closing
BY DEF Stay, AppInv, Order, MarkInv, Types

(* The steps of the LifecycleManager, of the package and of the jobs of     *)
(* Unloaded events take no lock of a client or of the worker.               *)
LEMMA OrderOthers ==
  ASSUME AppInv, LifecycleStep \/ PackageStep \/ UnloadedUnlock \/ removeAppInfoByAppId
  PROVE  AppTypes' /\ Order' /\ Room'
<1>1. /\ UNCHANGED <<mAppRequestList, accepted, aborted, closing, wpc, request, found, adminOwner,
                     queueOwner, connOwner, pc>>
      /\ mAppInfo' \in Entry /\ terminating' \in BOOLEAN /\ unloads' \in Nat /\ erases' \in Nat
  <2>1. CASE OnAppLifecycleStateChanged
    <3>1. UNCHANGED <<mAppRequestList, accepted, aborted, closing, wpc, request, found, adminOwner,
                      queueOwner, connOwner, pc, erases>>
      BY <2>1 DEF OnAppLifecycleStateChanged, queueVars, workerVars, callVars
    <3>2. notifying.new \in AppState
      BY <2>1 DEF OnAppLifecycleStateChanged, AppInv, MarkInv, Types, Job, AppState
    <3>3. mAppInfo' = mAppInfo \/ mAppInfo' = [mAppInfo EXCEPT !.newState = notifying.new]
      BY <2>1, Zenon DEF OnAppLifecycleStateChanged
    <3>4. mAppInfo' \in Entry
      BY <3>2, <3>3, EntryTyped DEF AppInv, AppTypes
    <3>5. terminating' \in BOOLEAN /\ unloads' \in {unloads, unloads + 1}
      BY <2>1 DEF OnAppLifecycleStateChanged, AppInv, AppTypes
    <3> QED
      BY <3>1, <3>4, <3>5 DEF AppInv, AppTypes
  <2>2. CASE \/ \E i \in Inst, new \in LM!LifecycleState : Announce(i, new)
             \/ \E j \in jobs : TakeJob(j)
             \/ PackageStep
    <3>1. UNCHANGED <<queueVars, workerVars, infoVars, unloadVars, callVars, connOwner, aborted>>
      BY <2>2 DEF Announce, TakeJob, PackageStep
    <3> QED
      BY <3>1 DEF queueVars, workerVars, infoVars, unloadVars, callVars, AppInv, AppTypes
  <2>3. CASE UnloadedUnlock
    <3>1. /\ UNCHANGED <<queueVars, workerVars, infoVars, callVars, connOwner, aborted>>
          /\ unloads > 0 /\ unloads' = unloads - 1 /\ erases' = erases + 1
      BY <2>3 DEF UnloadedUnlock
    <3> QED
      BY <3>1 DEF queueVars, workerVars, infoVars, callVars, AppInv, AppTypes
  <2>4. CASE removeAppInfoByAppId
    <3>1. /\ UNCHANGED <<queueVars, workerVars, terminating, unloads, callVars, connOwner, aborted>>
          /\ erases > 0 /\ erases' = erases - 1 /\ mAppInfo' = NoEntry
      BY <2>4 DEF removeAppInfoByAppId
    <3>2. NoEntry \in Entry
      BY DEF NoEntry, Entry, AppState
    <3> QED
      BY <3>1, <3>2 DEF queueVars, workerVars, callVars, AppInv, AppTypes
  <2> QED
    BY <2>1, <2>2, <2>3, <2>4 DEF LifecycleStep
<1> QED
  BY <1>1 DEF AppInv, AppTypes, Order, Room

(* The worker.                                                              *)
LEMMA OrderWorker ==
  ASSUME AppInv, WorkerStep, PM!VersionAssumption
  PROVE  AppTypes' /\ Order' /\ Room'
<1> USE ThreadAssumption DEF Nobody
<1>1. /\ UNCHANGED <<pc, adminOwner, closing, accepted, terminating, unloads, erases>>
      /\ mAppInfo' \in Entry /\ aborted' \in BOOLEAN
  <2>1. CASE LockPackage
    <3>1. UNCHANGED <<queueVars, terminating, unloadVars, callVars, aborted>>
      BY <2>1 DEF LockPackage
    <3> DEFINE e == IF mAppInfo.present THEN mAppInfo ELSE NewEntry
    <3>2. mAppInfo' = mAppInfo \/ mAppInfo' = [e EXCEPT !.version = found]
      BY <2>1, Zenon DEF LockPackage
    <3>3. e \in Entry /\ found \in Version
      BY <2>1, EntryTyped DEF AppInv, AppTypes, LockPackage, Room
    <3> HIDE DEF e
    <3>4. mAppInfo' \in Entry
      <4>1. mAppInfo \in Entry
        BY DEF AppInv, AppTypes
      <4> QED
        BY <3>2, <3>3, <4>1, EntryTyped
    <3> QED
      BY <3>1, <3>4 DEF queueVars, unloadVars, callVars, AppInv, AppTypes
  <2>2. CASE SpawnApp
    <3>1. UNCHANGED <<queueVars, terminating, unloadVars, callVars>>
      BY <2>2 DEF SpawnApp
    <3> DEFINE e == IF mAppInfo.present THEN mAppInfo ELSE NewEntry
    <3>2. PICK i \in Inst : \/ mAppInfo' = [e EXCEPT !.inst = i] /\ aborted' = aborted
                            \/ mAppInfo' = mAppInfo /\ aborted' = TRUE
      BY <2>2, Zenon DEF SpawnApp
    <3>3. e \in Entry
      BY EntryTyped DEF AppInv, AppTypes
    <3> HIDE DEF e
    <3>4. mAppInfo' \in Entry /\ aborted' \in BOOLEAN
      <4>1. mAppInfo \in Entry /\ aborted \in BOOLEAN
        BY DEF AppInv, AppTypes
      <4> QED
        BY <3>2, <3>3, <4>1, EntryTyped
    <3> QED
      BY <3>1, <3>4 DEF queueVars, unloadVars, callVars
  <2>3. CASE TakeRequest \/ IsAppLoaded \/ ListPackages \/ RequestFails \/ Connect \/ Resume
    <3>1. UNCHANGED <<accepted, infoVars, unloadVars, callVars>> /\ aborted' \in {aborted, TRUE}
      BY <2>3 DEF TakeRequest, IsAppLoaded, ListPackages, RequestFails, Connect, Resume, queueVars
    <3> QED
      BY <3>1 DEF infoVars, unloadVars, callVars, AppInv, AppTypes
  <2> QED
    BY <2>1, <2>2, <2>3 DEF WorkerStep
<1>2. /\ (wpc' # "idle") <=> (queueOwner' = "worker")
      /\ wpc' \in {"idle", "load", "list", "lock", "failed", "connect", "resume", "spawn"}
      /\ request' \in Request /\ queueOwner' \in {"worker", Nobody}
      /\ mAppRequestList' \in Seq(Request)
  <2>1. CASE TakeRequest
    <3>1. mAppRequestList \in Seq(Request) /\ mAppRequestList # <<>>
      BY <2>1 DEF AppInv, AppTypes, TakeRequest
    <3>2. Head(mAppRequestList) \in Request /\ Tail(mAppRequestList) \in Seq(Request)
      BY <3>1
    <3> QED
      BY <2>1, <3>2 DEF TakeRequest
  <2>2. CASE ~TakeRequest
    <3>1. mAppRequestList' = mAppRequestList
      BY <2>2 DEF WorkerStep, IsAppLoaded, ListPackages, LockPackage, RequestFails, Connect,
                  Resume, SpawnApp, queueVars
    <3>2. \/ WorkerDone /\ wpc # "idle"
          \/ /\ wpc # "idle"
             /\ \E to \in {"list", "lock", "failed", "connect", "resume", "spawn"} : WorkerTo(to)
      BY <2>2 DEF WorkerStep, IsAppLoaded, ListPackages, LockPackage, RequestFails, Connect,
                  Resume, SpawnApp
    <3> QED
      BY <3>1, <3>2 DEF WorkerDone, WorkerTo, AppInv, AppTypes, Order, Request
  <2> QED
    BY <2>1, <2>2
<1>3. /\ connOwner' \in Client \cup {"worker", Nobody}
      /\ \A c \in Client : connOwner' = c => connOwner = c
      /\ connOwner' = "worker" => wpc' \in {"resume", "spawn"}
  <2>1. CASE Connect
    <3>1. connOwner' = "worker" /\ wpc' \in {"resume", "spawn"}
      BY <2>1 DEF Connect, WorkerTo
    <3> QED
      BY <3>1
  <2>2. CASE Resume \/ SpawnApp
    <3>1. connOwner' = Nobody
      BY <2>2 DEF Resume, SpawnApp
    <3> QED
      BY <3>1
  <2>3. CASE TakeRequest \/ IsAppLoaded \/ ListPackages \/ RequestFails \/ LockPackage
    <3>1. connOwner' = connOwner /\ wpc \notin {"resume", "spawn"}
      BY <2>3 DEF TakeRequest, IsAppLoaded, ListPackages, RequestFails, LockPackage
    <3> QED
      BY <3>1 DEF AppInv, AppTypes, Order
  <2> QED
    BY <2>1, <2>2, <2>3 DEF WorkerStep
<1>4. found' \in Version \cup {PM!NoVersion} /\ (wpc' = "lock" => found' \in Version)
  <2>1. CASE ListPackages
    <3>1. found' = PM!First({v \in Version : installState[v] = "INSTALLED"})
      BY <2>1 DEF ListPackages
    <3>2. found' \in Version \cup {PM!NoVersion}
      BY <3>1, FirstOf
    <3>3. wpc' = "lock" => found' # PM!NoVersion
      BY <2>1, Zenon DEF ListPackages, WorkerTo
    <3> QED
      BY <3>2, <3>3
  <2>2. CASE TakeRequest \/ LockPackage
    BY <2>2 DEF TakeRequest, LockPackage, WorkerTo
  <2>3. CASE IsAppLoaded \/ RequestFails \/ Connect \/ Resume \/ SpawnApp
    <3>1. found' = found /\ wpc' # "lock"
      BY <2>3 DEF IsAppLoaded, RequestFails, Connect, Resume, SpawnApp, WorkerTo, WorkerDone
    <3> QED
      BY <3>1 DEF AppInv, AppTypes
  <2> QED
    BY <2>1, <2>2, <2>3 DEF WorkerStep
<1>5. AppTypes'
  BY <1>1, <1>2, <1>3, <1>4 DEF AppInv, AppTypes
<1>6. Order' /\ Room'
  BY <1>1, <1>2, <1>3, <1>4 DEF AppInv, Order, Room
<1> QED
  BY <1>5, <1>6

(* The clients: what is the same in all their steps is said once.           *)
LEMMA CallerTyped ==
  ASSUME AppInv, NEW c \in Client, Order', pc' = [pc EXCEPT ![c] = pc'[c]],
         UNCHANGED <<mAppRequestList, accepted, aborted, wpc, request, found, queueOwner,
                     unloads, erases>>,
         adminOwner' \in {c, Nobody}, closing' \subseteq Client,
         connOwner' \in {connOwner, c, Nobody}, mAppInfo' \in Entry, terminating' \in BOOLEAN,
         pc'[c] \notin Request
  PROVE  AppTypes' /\ Order' /\ Room'
<1>1. \A d \in Client : pc'[d] \in Request => pc[d] \in Request
  BY DEF AppInv, MarkInv, Types
<1> QED
  BY <1>1 DEF AppInv, AppTypes, Room

LEMMA OrderCall ==
  ASSUME AppInv, NEW c \in Client, CallStep(c)
  PROVE  AppTypes' /\ Order' /\ Room'
<1> USE ThreadAssumption DEF Nobody
<1>1. /\ mAppInfo \in Entry /\ terminating \in BOOLEAN /\ closing \subseteq Client
      /\ closing \cup {c} \subseteq Client /\ closing \ {c} \subseteq Client
      /\ pc \in [Client -> Place] /\ connOwner \in Client \cup {"worker", Nobody}
  BY DEF AppInv, AppTypes, MarkInv, Types, Place
<1>2. ASSUME NEW call \in Call, Enter(c, call) PROVE AppTypes' /\ Order' /\ Room'
  <2>1. /\ UNCHANGED <<mAppRequestList, accepted, aborted, wpc, request, found, queueOwner,
                       unloads, erases, mAppInfo, terminating, closing, connOwner>>
        /\ pc[c] = "idle" /\ adminOwner = Nobody /\ adminOwner' = c
        /\ pc' = [pc EXCEPT ![c] = call] /\ (call \in Request => accepted < MaxRequests)
    BY <1>2 DEF Enter, queueVars, workerVars, infoVars, unloadVars
  <2>2. call # "idle" /\ pc'[c] = call /\ connOwner # c
    BY <1>1, <2>1, CallAssumption DEF AppInv, Order, Calling
  <2>3. Order'
    BY <2>1, <2>2, CallerMoves
  <2>4. AppTypes'
    BY <2>1 DEF AppInv, AppTypes
  <2>5. Room'
    BY <1>1, <2>1, <2>2 DEF AppInv, Room
  <2> QED
    BY <2>3, <2>4, <2>5
<1>3. CASE PushRequest(c)
  <2>1. /\ UNCHANGED <<aborted, wpc, request, found, queueOwner, unloads, erases, mAppInfo,
                       terminating, connOwner>>
        /\ pc[c] \in Request /\ accepted' = accepted + 1 /\ Return(c)
        /\ mAppRequestList' = Append(mAppRequestList, pc[c])
    BY <1>3 DEF PushRequest, workerVars, infoVars, unloadVars
  <2>2. pc[c] # "idle" /\ pc[c] \notin Calling /\ accepted < MaxRequests
    BY <2>1 DEF Request, Calling, AppInv, Room
  <2>3. /\ pc' = [pc EXCEPT ![c] = pc'[c]] /\ pc'[c] \in {"idle", "relock"}
        /\ adminOwner' = IF pc'[c] = "idle" THEN Nobody ELSE c
        /\ closing' = closing
    BY <2>1, <2>2, CallerReturns
  <2>4. connOwner # c
    BY <2>2 DEF AppInv, Order
  <2>5. Order'
    BY <2>1, <2>2, <2>3, <2>4, CallerMoves
  <2>6. mAppRequestList' \in Seq(Request) /\ accepted' \in 0..MaxRequests
    BY <2>1, <2>2, RequestBoundAssumption DEF AppInv, AppTypes, RequestBoundAssumption
  <2>7. AppTypes'
    BY <1>1, <2>1, <2>3, <2>6 DEF AppInv, AppTypes
  <2>8. \A d \in Client : pc'[d] \notin Request
    <3> SUFFICES ASSUME NEW d \in Client PROVE pc'[d] \notin Request
      OBVIOUS
    <3>1. CASE d = c
      BY <2>3, <3>1 DEF Request
    <3>2. CASE d # c
      <4>1. pc'[d] = pc[d] /\ adminOwner = c
        BY <1>1, <2>2, <2>3, <3>2 DEF AppInv, Order
      <4> QED
        BY <3>2, <4>1 DEF AppInv, Order, Request
    <3> QED
      BY <3>1, <3>2
  <2> QED
    BY <2>1, <2>5, <2>7, <2>8 DEF AppInv, Room
<1>4. CASE ~PushRequest(c) /\ ~\E call \in Call : Enter(c, call)
  <2>1. UNCHANGED <<mAppRequestList, accepted, aborted, wpc, request, found, queueOwner,
                    unloads, erases>>
    BY <1>4 DEF CallStep, GetLoadedApps, FindEntry, SetPaused, Waited, SetSuspended, UnloadApp,
                UnlockPackage, Relock, queueVars, workerVars, unloadVars
  <2>2. mAppInfo' \in Entry /\ terminating' \in BOOLEAN
    <3>1. CASE GetLoadedApps(c)
      <4>1. terminating' = terminating
        BY <3>1 DEF GetLoadedApps
      <4>2. CASE \E i \in Inst : Loaded(i)
        <5> DEFINE i == CHOOSE i \in Inst : Loaded(i)
                   e == IF mAppInfo.present THEN mAppInfo ELSE NewEntry
        <5>1. i \in Inst /\ Loaded(i)
          BY <4>2
        <5>2. mAppInfo' = [e EXCEPT !.inst = i, !.newState = phase[i]]
          BY <3>1, <4>2, Zenon DEF GetLoadedApps
        <5> HIDE DEF i
        <5>3. phase[i] \in AppState /\ e \in Entry
          BY <1>1, <5>1, EntryTyped DEF Loaded, AppState
        <5> HIDE DEF e
        <5> QED
          BY <1>1, <4>1, <5>1, <5>2, <5>3, EntryTyped
      <4>3. CASE ~\E i \in Inst : Loaded(i)
        BY <1>1, <3>1, <4>1, <4>3 DEF GetLoadedApps
      <4> QED
        BY <4>2, <4>3
    <3>2. CASE ~GetLoadedApps(c)
      <4>1. mAppInfo' = mAppInfo /\ terminating' \in {terminating, TRUE}
        BY <1>4, <3>2 DEF CallStep, FindEntry, SetPaused, Waited, SetSuspended, UnloadApp,
                          UnlockPackage, Relock, infoVars
      <4> QED
        BY <1>1, <4>1
    <3> QED
      BY <3>1, <3>2
  <2>3. \/ /\ pc[c] # "idle" /\ Return(c)
           /\ connOwner' = Nobody \/ (connOwner' = connOwner /\ pc[c] \notin Calling)
        \/ /\ pc[c] # "idle" /\ \E to \in {"setSuspended", "setHibernated"} : Stay(c, to)
           /\ connOwner' \in {connOwner, c}
        \/ /\ pc[c] # "idle" /\ \E to \in {"waiting", "unlock"} : Stay(c, to)
           /\ connOwner' = Nobody
        \/ /\ pc[c] # "idle" /\ UNCHANGED adminOwner /\ connOwner' = c /\ closing' = closing
           /\ \E to \in {"setPaused", "unload"} : pc' = [pc EXCEPT ![c] = to]
        \/ /\ pc[c] = "waiting" /\ UNCHANGED <<adminOwner, connOwner>>
           /\ closing' = closing \cup {c} /\ pc' = [pc EXCEPT ![c] = "terminate"]
        \/ /\ pc[c] = "relock" /\ adminOwner' = Nobody /\ connOwner' = connOwner
           /\ closing' = closing \ {c} /\ pc' = [pc EXCEPT ![c] = "idle"]
    <3>1. CASE GetLoadedApps(c)
      BY <3>1 DEF GetLoadedApps, Calling
    <3>2. CASE FindEntry(c)
      BY <3>2 DEF FindEntry, Calling
    <3>3. CASE SetPaused(c)
      BY <3>3 DEF SetPaused
    <3>4. CASE Waited(c)
      BY <3>4 DEF Waited, Calling
    <3>5. CASE SetSuspended(c)
      BY <3>5 DEF SetSuspended
    <3>6. CASE UnloadApp(c)
      BY <3>6 DEF UnloadApp
    <3>7. CASE UnlockPackage(c)
      BY <3>7 DEF UnlockPackage, Calling
    <3>8. CASE Relock(c)
      BY <3>8 DEF Relock
    <3> QED
      BY <1>4, <3>1, <3>2, <3>3, <3>4, <3>5, <3>6, <3>7, <3>8 DEF CallStep
  <2>4. /\ pc[c] # "idle" /\ pc' = [pc EXCEPT ![c] = pc'[c]] /\ pc'[c] \notin Request
        /\ adminOwner' = IF pc'[c] = "idle" THEN Nobody ELSE c
        /\ connOwner' \in {connOwner, c, Nobody} /\ (connOwner' = c => pc'[c] \in Calling)
        /\ closing' \subseteq Client
    <3>0. /\ pc[c] # "idle" => adminOwner = c
          /\ connOwner = c => pc[c] \in Calling
      BY DEF AppInv, Order
    <3>1. CASE /\ pc[c] # "idle" /\ Return(c)
               /\ connOwner' = Nobody \/ (connOwner' = connOwner /\ pc[c] \notin Calling)
      <4>1. /\ pc' = [pc EXCEPT ![c] = pc'[c]] /\ pc'[c] \in {"idle", "relock"}
            /\ adminOwner' = IF pc'[c] = "idle" THEN Nobody ELSE c
            /\ closing' = closing
        BY <3>1, CallerReturns
      <4> QED
        BY <1>1, <3>0, <3>1, <4>1 DEF Request
    <3>2. CASE /\ pc[c] # "idle" /\ \E to \in {"setSuspended", "setHibernated"} : Stay(c, to)
               /\ connOwner' \in {connOwner, c}
      <4>1. PICK to \in {"setSuspended", "setHibernated"} : Stay(c, to)
        BY <3>2
      <4>2. pc' = [pc EXCEPT ![c] = to] /\ UNCHANGED <<adminOwner, closing>>
        BY <4>1 DEF Stay
      <4> QED
        BY <1>1, <3>0, <3>2, <4>1, <4>2 DEF Request, Calling
    <3>3. CASE /\ pc[c] # "idle" /\ \E to \in {"waiting", "unlock"} : Stay(c, to)
               /\ connOwner' = Nobody
      <4>1. PICK to \in {"waiting", "unlock"} : Stay(c, to)
        BY <3>3
      <4>2. pc' = [pc EXCEPT ![c] = to] /\ UNCHANGED <<adminOwner, closing>>
        BY <4>1 DEF Stay
      <4> QED
        BY <1>1, <3>0, <3>3, <4>1, <4>2 DEF Request, Calling
    <3>4. CASE /\ pc[c] # "idle" /\ UNCHANGED adminOwner /\ connOwner' = c /\ closing' = closing
               /\ \E to \in {"setPaused", "unload"} : pc' = [pc EXCEPT ![c] = to]
      <4>1. PICK to \in {"setPaused", "unload"} : pc' = [pc EXCEPT ![c] = to]
        BY <3>4
      <4> QED
        BY <1>1, <3>0, <3>4, <4>1 DEF Request, Calling
    <3>5. CASE /\ pc[c] = "waiting" /\ UNCHANGED <<adminOwner, connOwner>>
               /\ closing' = closing \cup {c} /\ pc' = [pc EXCEPT ![c] = "terminate"]
      BY <1>1, <3>0, <3>5 DEF Request, Calling
    <3>6. CASE /\ pc[c] = "relock" /\ adminOwner' = Nobody /\ connOwner' = connOwner
               /\ closing' = closing \ {c} /\ pc' = [pc EXCEPT ![c] = "idle"]
      BY <1>1, <3>0, <3>6 DEF Request, Calling
    <3> QED
      BY <2>3, <3>1, <3>2, <3>3, <3>4, <3>5, <3>6
  <2>5. Order'
    BY <2>1, <2>4, CallerMoves
  <2>6. adminOwner' \in {c, Nobody}
    BY <2>4
  <2> QED
    BY <2>1, <2>2, <2>4, <2>5, <2>6, CallerTyped
<1> QED
  BY <1>2, <1>3, <1>4 DEF CallStep

-----------------------------------------------------------------------------
LEMMA AppInvariant ==
  ASSUME PM!VersionAssumption, PM!LockBoundAssumption
  PROVE  Spec => []AppInv
<1>1. Init => AppInv
  BY AppInvInit
<1>2. AppInv /\ [Next]_vars => AppInv'
  <2> SUFFICES ASSUME AppInv, [Next]_vars PROVE AppInv'
    OBVIOUS
  <2>1. CASE Next
    <3>1. MarkInv'
      BY <2>1, MarkContext, MarkWorker, MarkCall DEF Next, AppInv
    <3>2. AppTypes' /\ Order' /\ Room'
      BY <2>1, OrderOthers, OrderWorker, OrderCall DEF Next
    <3>3. \/ PM!InitializeState \/ (\E v \in Version : PM!Install(v))
          \/ PackageUnlock \/ (PM!Lock(found) /\ found \in Version) \/ UNCHANGED packageVars
      <4>1. CASE PackageStep
        BY <4>1 DEF PackageStep
      <4>2. CASE UnloadedUnlock \/ removeAppInfoByAppId
        BY <4>2 DEF UnloadedUnlock, removeAppInfoByAppId
      <4>3. CASE LifecycleStep
        BY <4>3 DEF LifecycleStep, Announce, TakeJob, OnAppLifecycleStateChanged
      <4>4. CASE WorkerStep
        BY <4>4 DEF WorkerStep, TakeRequest, IsAppLoaded, ListPackages, LockPackage,
                    RequestFails, Connect, Resume, SpawnApp, AppInv, Room
      <4>5. ASSUME NEW c \in Client, CallStep(c)
            PROVE  PackageUnlock \/ UNCHANGED packageVars
        BY <4>5 DEF CallStep, Enter, PushRequest, GetLoadedApps, FindEntry, SetPaused, Waited,
                    SetSuspended, UnloadApp, UnlockPackage, Relock
      <4> QED
        BY <2>1, <4>1, <4>2, <4>3, <4>4, <4>5 DEF Next
    <3>4. mAppInfo.version \in Version \cup {PM!NoVersion}
      BY DEF AppInv, AppTypes, Entry
    <3>5. PM!TypeOK' /\ DueInv'
      BY <3>3, <3>4, PackageMoves DEF AppInv
    <3> QED
      BY <3>1, <3>2, <3>5 DEF AppInv
  <2>2. CASE UNCHANGED vars
    <3>1. MarkInv'
      <4>1. UNCHANGED <<contextVars, asked, terminating, pc, target, connOwner, wpc, mAppInfo>>
        BY <2>2 DEF vars, workerVars, infoVars, callVars
      <4>2. Held'
        BY <4>1 DEF AppInv, MarkInv, Held
      <4> QED
        BY <4>1, <4>2, MarkSame DEF AppInv, MarkInv, Types, EntryOK
    <3>2. PM!TypeOK' /\ DueInv'
      BY <2>2, PackageMoves DEF AppInv, vars, AppTypes, Entry
    <3>3. AppTypes' /\ Order' /\ Room'
      BY <2>2 DEF vars, queueVars, workerVars, infoVars, unloadVars, callVars, AppInv, AppTypes,
                  Order, Room
    <3> QED
      BY <3>1, <3>2, <3>3 DEF AppInv
  <2> QED
    BY <2>1, <2>2
<1> QED
  BY <1>1, <1>2, PTL DEF Spec

(* Every variable of AppManager, and of the package in it, keeps its type.  *)
THEOREM TypeCorrect ==
  ASSUME PM!VersionAssumption, PM!LockBoundAssumption
  PROVE  Spec => []TypeOK
<1>1. AppInv => TypeOK
  BY DEF AppInv, MarkInv, Types, AppTypes, Entry, TypeOK
<1> QED
  BY <1>1, AppInvariant, PTL

(* Who waits for whom, once it is known who may hold what.                  *)
LEMMA Waits ==
  ASSUME AppInv, NEW t \in Thread, NEW u \in Thread, WaitsFor(t, u)
  PROVE  \/ /\ t = "worker" /\ u \in Client /\ pc[u] # "idle"
            /\ (wpc \in {"load", "connect"} /\ connOwner = u) \/ wpc = "failed"
         \/ /\ t = "notifier" /\ u \in Client /\ pc[u] # "idle" /\ connOwner = u
         \/ /\ t = "notifier" /\ u = "worker" /\ connOwner = "worker"
         \/ /\ t = "worker" /\ u = "notifier" /\ WantsLifecycle(t) /\ connOwner = t
         \/ /\ t \in Client /\ pc[t] # "idle" /\ u = "notifier" /\ WantsLifecycle(t)
            /\ connOwner = t
         \/ /\ t \in Client /\ pc[t] # "idle" /\ u = "worker"
            /\ connOwner = "worker" \/ WantsQueue(t)
         \/ t \in Client /\ u \in Client /\ t # u /\ pc[t] # "idle" /\ pc[u] # "idle"
<1> USE ThreadAssumption DEF Nobody, Thread
<1>1. CASE WantsConnector(t) /\ connOwner = u
  <2>1. u # "notifier"
    BY <1>1 DEF AppInv, AppTypes
  <2>2. u \in Client => pc[u] \in Calling
    BY <1>1 DEF AppInv, Order
  <2>3. u = "worker" => wpc \in {"resume", "spawn"}
    BY <1>1 DEF AppInv, Order
  <2> QED
    BY <1>1, <2>1, <2>2, <2>3 DEF WantsConnector, Calling
<1>2. CASE WantsLifecycle(t) /\ notifying # NoJob /\ u = "notifier"
  <2>1. t = "worker" => connOwner = t
    BY <1>2 DEF WantsLifecycle, AppInv, MarkInv, Held
  <2>2. t \in Client => connOwner = t /\ pc[t] # "idle"
    BY <1>2 DEF WantsLifecycle, AppInv, MarkInv, Held
  <2> QED
    BY <1>2, <2>1, <2>2 DEF WantsLifecycle
<1>3. CASE WantsAdmin(t) /\ adminOwner = u
  BY <1>3 DEF WantsAdmin, AppInv, AppTypes, Order
<1>4. CASE WantsQueue(t) /\ queueOwner = u
  BY <1>4 DEF WantsQueue, Request, AppInv, AppTypes
<1> QED
  BY <1>1, <1>2, <1>3, <1>4 DEF WaitsFor

(* Two clients never are in a call at once.                                 *)
LEMMA OneCaller ==
  ASSUME AppInv, NEW c \in Client, NEW d \in Client, pc[c] # "idle", pc[d] # "idle"
  PROVE  c = d
BY DEF AppInv, Order

(* The threads wait for one another in two ways only: a call of the         *)
(* LifecycleManager with the connector's lock held against the delivery of  *)
(* an event, and a worker whose request has failed against LaunchApp or     *)
(* PreloadApp; three never do (AppManagerImplementation,                    *)
(* LifecycleInterfaceConnector).                                            *)
THEOREM NoOtherDeadlock ==
  ASSUME PM!VersionAssumption, PM!LockBoundAssumption
  PROVE  Spec => []OnlyKnownDeadlocks
<1>1. AppInv => OnlyKnownDeadlocks
  <2> SUFFICES ASSUME AppInv PROVE OnlyKnownDeadlocks
    OBVIOUS
  <2> USE ThreadAssumption DEF Thread
  <2>1. ASSUME NEW t \in Thread, NEW u \in Thread, WaitsFor(t, u), WaitsFor(u, t)
        PROVE  KnownPair(t, u) \/ KnownPair(u, t)
    <3>1. CASE {t, u} \cap Client = {}
      BY <2>1, <3>1, Waits DEF KnownPair
    <3>2. CASE "notifier" \in {t, u}
      BY <2>1, <3>2, Waits DEF KnownPair
    <3>3. CASE t \in Client /\ u \in Client
      BY <2>1, <3>3, Waits, OneCaller
    <3>4. CASE t = "worker" /\ u \in Client
      BY <2>1, <3>4, Waits
         DEF KnownPair, WantsAdmin, WantsQueue, Request, Calling, AppInv, Order
    <3>5. CASE u = "worker" /\ t \in Client
      BY <2>1, <3>5, Waits
         DEF KnownPair, WantsAdmin, WantsQueue, Request, Calling, AppInv, Order
    <3> QED
      BY <3>1, <3>2, <3>3, <3>4, <3>5
  <2>2. ASSUME NEW t \in Thread, NEW u \in Thread, NEW w \in Thread,
               WaitsFor(t, u), WaitsFor(u, w), WaitsFor(w, t)
        PROVE  FALSE
    <3>1. \A x, y \in Thread : WaitsFor(x, y) /\ x \in Client /\ y \in Client => FALSE
      BY Waits, OneCaller
    <3>2. \A x \in Thread : ~WaitsFor(x, x)
      BY <3>1, Waits
    <3> QED
      BY <2>2, <3>1, <3>2, Waits
  <2> QED
    BY <2>1, <2>2 DEF OnlyKnownDeadlocks
<1> QED
  BY <1>1, AppInvariant, PTL

(* With the two versions of an upgrade, and installs that do not fail when  *)
(* they are done at last, an install that waits for a lock has a lock to    *)
(* wait for (PackageManagerImplementation::Install, Unlock; AppManager's    *)
(* calls of Lock and Unlock).                                               *)
THEOREM NoInstallIsLeftBehind ==
  ASSUME PM!VersionAssumption, PM!LockBoundAssumption, AtMostTwo, InstallsSucceed
  PROVE  Spec => []BlockedIsDue
<1>1. AppInv => BlockedIsDue
  BY DEF AppInv, DueInv, Due
<1> QED
  BY <1>1, AppInvariant, PTL
=============================================================================
