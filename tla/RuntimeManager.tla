--------------------------- MODULE RuntimeManager ---------------------------
(* The RuntimeManager plugin, its UserIdManager, and the OCIContainer plugin*)
(* between it and Dobby.  Every call of the API holds                       *)
(* mRuntimeManagerImplLock and is one step.  What Dobby reports goes through*)
(* two jobs of the worker pool, one of OCIContainer and one of              *)
(* RuntimeManager, which may overtake those of other reports.  The onState- *)
(* Changed reports, which travel beside the ones modelled, are left out.    *)
EXTENDS Naturals, Sequences, FiniteSets

CONSTANTS
  App, Inst,      \* applications, and instances of them
  AppOf,          \* the application of an instance
  NumUids,        \* how many user ids there are
  MinPool,        \* ids that are kept back
  Failing         \* what may fail

InstanceAssumption == AppOf \in [Inst -> App] /\ App \cap Inst = {}
UidAssumption == NumUids \in Nat /\ MinPool \in Nat \ {0}
RunFailingAssumption ==
  Failing \subseteq {"connect", "display", "generate", "start", "stop", "hibernate", "wakeup"}

VARIABLES
  mOciContainerObject,     \* whether the OCIContainer plugin has been found
  mUserIdAvailablePool, mUserIdMap,
  mRuntimeAppInfo,         \* the recorded state of an instance, if any
  status,                  \* what Run returned for an instance
  container,               \* Dobby's container of an instance
  uid,                     \* the user id its Run was given
  jobs,                    \* reports on their way through the worker pool
  told                     \* what the LifecycleManager has been told

uidVars     == <<mUserIdAvailablePool, mUserIdMap>>
runVars     == <<status, uid>>
reportVars  == <<jobs, told>>
runtimeVars == <<mOciContainerObject, uidVars, mRuntimeAppInfo, runVars, container, reportVars>>

Uid == 1..NumUids
NoUid == 0
Report == {"onStarted", "onTerminated", "onFailure"}
Job == [of : {"OCIContainer", "RuntimeManager"}, report : Report, inst : Inst]

TypeOK ==
  /\ mOciContainerObject \in BOOLEAN
  /\ mUserIdAvailablePool \in Seq(Uid)
  /\ mUserIdMap \in [App \cup Inst -> Uid \cup {NoUid}]
  /\ mRuntimeAppInfo \in [Inst -> {"none", "STARTING", "HIBERNATING", "WAKING", "TERMINATING"}]
  /\ status \in [Inst -> {"none", "ERROR_NONE", "ERROR_GENERAL"}]
  /\ container \in [Inst -> {"none", "running", "stopping", "gone"}]
  /\ uid \in [Inst -> Uid \cup {NoUid}]
  /\ jobs \subseteq Job
  /\ told \in [Inst -> SUBSET Report]

Init ==
  /\ mOciContainerObject = FALSE
  /\ mUserIdAvailablePool = [n \in Uid |-> n]
  /\ mUserIdMap = [n \in App \cup Inst |-> NoUid]
  /\ mRuntimeAppInfo = [i \in Inst |-> "none"]
  /\ status = [i \in Inst |-> "none"]
  /\ container = [i \in Inst |-> "none"]
  /\ uid = [i \in Inst |-> NoUid]
  /\ jobs = {}
  /\ told = [i \in Inst |-> {}]

-----------------------------------------------------------------------------
(* UserIdManager.  The key is an application id, or whatever is passed.     *)
(* Slips: the id that is handed out stays in the pool; an id is given back  *)
(* that was not taken.                                                      *)
GetAndKeep(n) ==
  IF mUserIdMap[n] # NoUid \/ Len(mUserIdAvailablePool) < MinPool
  THEN UNCHANGED uidVars
  ELSE /\ mUserIdMap' = [mUserIdMap EXCEPT ![n] = Head(mUserIdAvailablePool)]
       /\ UNCHANGED mUserIdAvailablePool

ClearUnchecked(n) ==
  /\ mUserIdAvailablePool' = Append(mUserIdAvailablePool, mUserIdMap[n])
  /\ mUserIdMap' = [mUserIdMap EXCEPT ![n] = NoUid]

getUserId(n) ==
  IF mUserIdMap[n] # NoUid \/ Len(mUserIdAvailablePool) < MinPool
  THEN UNCHANGED uidVars
  ELSE /\ mUserIdMap' = [mUserIdMap EXCEPT ![n] = Head(mUserIdAvailablePool)]
       /\ mUserIdAvailablePool' = Tail(mUserIdAvailablePool)

clearUserId(n) ==
  IF mUserIdMap[n] = NoUid THEN UNCHANGED uidVars
  ELSE /\ mUserIdAvailablePool' = Append(mUserIdAvailablePool, mUserIdMap[n])
       /\ mUserIdMap' = [mUserIdMap EXCEPT ![n] = NoUid]

(* Dobby lists a container from its start until it is gone.                 *)
Listed(i) == container[i] \in {"running", "stopping"}

MayFail(call) == IF call \in Failing THEN {TRUE, FALSE} ELSE {TRUE}

Announce(of, report, i) == [of |-> of, report |-> report, inst |-> i]

(* isOCIPluginObjectValid: tried again at every call.                       *)
isOCIPluginObjectValid(valid) ==
  /\ valid \in (IF mOciContainerObject THEN {TRUE} ELSE MayFail("connect"))
  /\ mOciContainerObject' = valid

-----------------------------------------------------------------------------
(* Run, called once for an instance.  A missing display and a missing       *)
(* specification are announced as failures.  StartContainerFromDobbySpec    *)
(* returns ERROR_NONE whatever happens and says in `success' what happened; *)
(* Run returns the former.                                                  *)
StartContainer(i, success) ==
  /\ status' = [status EXCEPT ![i] = "ERROR_NONE"]
  /\ IF success
     THEN /\ container' = [container EXCEPT ![i] = "running"]
          /\ mRuntimeAppInfo' = [mRuntimeAppInfo EXCEPT ![i] = "STARTING"]
     ELSE UNCHANGED <<container, mRuntimeAppInfo>>

Run(i) ==
  /\ status[i] = "none"
  /\ getUserId(AppOf[i])
  /\ uid' = [uid EXCEPT ![i] = mUserIdMap'[AppOf[i]]]
  /\ \E display \in MayFail("display"), generated \in MayFail("generate") :
       IF display /\ generated
       THEN \E valid \in BOOLEAN :
              /\ isOCIPluginObjectValid(valid)
              /\ IF valid
                 THEN \E success \in MayFail("start") : StartContainer(i, success)
                 ELSE /\ status' = [status EXCEPT ![i] = "ERROR_GENERAL"]
                      /\ UNCHANGED <<container, mRuntimeAppInfo>>
              /\ UNCHANGED jobs
       ELSE /\ status' = [status EXCEPT ![i] = "ERROR_GENERAL"]
            /\ jobs' = jobs \cup {Announce("RuntimeManager", "onFailure", i)}
            /\ UNCHANGED <<mOciContainerObject, container, mRuntimeAppInfo>>
  /\ UNCHANGED told

(* Terminate and Kill (force).  The container is asked to stop; its user id *)
(* is given back under the id of the instance.  Terminate also does so for a*)
(* container that Dobby does not list.                                      *)
Stop(i, force) ==
  /\ status[i] # "none"
  /\ \E valid \in BOOLEAN, success \in MayFail("stop") :
       /\ isOCIPluginObjectValid(valid)
       /\ IF valid /\ Listed(i) /\ success
          THEN /\ container' = [container EXCEPT ![i] = "stopping"]
               /\ mRuntimeAppInfo' = [mRuntimeAppInfo EXCEPT
                                        ![i] = IF @ = "none" THEN @ ELSE "TERMINATING"]
          ELSE UNCHANGED <<container, mRuntimeAppInfo>>
       /\ IF valid /\ (IF Listed(i) THEN success ELSE ~force)
          THEN clearUserId(i) ELSE UNCHANGED uidVars
  /\ UNCHANGED <<runVars, reportVars>>

(* Hibernate, and Wake of an instance that is recorded as hibernating.      *)
Hibernate(i) ==
  /\ status[i] # "none"
  /\ \E valid \in BOOLEAN, success \in MayFail("hibernate") :
       /\ isOCIPluginObjectValid(valid)
       /\ IF valid /\ Listed(i) /\ success
          THEN mRuntimeAppInfo' = [mRuntimeAppInfo EXCEPT
                                     ![i] = IF @ = "none" THEN @ ELSE "HIBERNATING"]
          ELSE UNCHANGED mRuntimeAppInfo
  /\ UNCHANGED <<uidVars, runVars, container, reportVars>>

Wake(i) ==
  /\ status[i] # "none"
  /\ \E valid \in BOOLEAN, success \in MayFail("wakeup") :
       /\ isOCIPluginObjectValid(valid)
       /\ IF valid /\ mRuntimeAppInfo[i] = "HIBERNATING" /\ Listed(i) /\ success
          THEN mRuntimeAppInfo' = [mRuntimeAppInfo EXCEPT ![i] = "WAKING"]
          ELSE UNCHANGED mRuntimeAppInfo
  /\ UNCHANGED <<uidVars, runVars, container, reportVars>>

-----------------------------------------------------------------------------
(* Dobby, and stateListener on Dobby's thread: the first and the last change*)
(* of state are reported as a start and as a stop.                          *)
Reported(i, report) ==
  report \in told[i] \/ \E job \in jobs : job.report = report /\ job.inst = i

stateListenerRunning(i) ==
  /\ container[i] = "running"
  /\ ~Reported(i, "onStarted")
  /\ jobs' = jobs \cup {Announce("OCIContainer", "onStarted", i)}
  /\ UNCHANGED <<mOciContainerObject, uidVars, mRuntimeAppInfo, runVars, container, told>>

(* Slip: the end is reported only of a container whose start was.           *)
ReportAfterStart(i) ==
  /\ Listed(i)
  /\ container' = [container EXCEPT ![i] = "gone"]
  /\ jobs' = IF "onStarted" \in told[i]
             THEN jobs \cup {Announce("OCIContainer", "onTerminated", i)} ELSE jobs
  /\ UNCHANGED <<mOciContainerObject, uidVars, mRuntimeAppInfo, runVars, told>>

(* The end of a container, asked for or not.                                *)
stateListenerStopped(i) ==
  /\ Listed(i)
  /\ container' = [container EXCEPT ![i] = "gone"]
  /\ jobs' = jobs \cup {Announce("OCIContainer", "onTerminated", i)}
  /\ UNCHANGED <<mOciContainerObject, uidVars, mRuntimeAppInfo, runVars, told>>

(* The image of the container is found damaged, once: it is stopped by force.*)
onVerityFailed(i) ==
  /\ container[i] = "running" /\ ~Reported(i, "onFailure")
  /\ jobs' = jobs \cup {Announce("OCIContainer", "onFailure", i)}
  /\ \E success \in MayFail("stop") :
       container' = [container EXCEPT ![i] = IF success THEN "stopping" ELSE @]
  /\ UNCHANGED <<mOciContainerObject, uidVars, mRuntimeAppInfo, runVars, told>>

(* Dispatch of OCIContainer: DobbyEventListener makes it a job of the       *)
(* RuntimeManager, if that listens to OCIContainer yet.                     *)
Forward(job) ==
  /\ job \in jobs /\ job.of = "OCIContainer"
  /\ jobs' = (jobs \ {job}) \cup {[job EXCEPT !.of = "RuntimeManager"]}
  /\ UNCHANGED <<mOciContainerObject, uidVars, mRuntimeAppInfo, runVars, container, told>>

(* Dispatch of RuntimeManager: nothing is recorded, the listeners are told. *)
Dispatch(job) ==
  /\ job \in jobs /\ job.of = "RuntimeManager"
  /\ jobs' = jobs \ {job}
  /\ told' = [told EXCEPT ![job.inst] = @ \cup {job.report}]
  /\ UNCHANGED <<mOciContainerObject, uidVars, mRuntimeAppInfo, runVars, container>>

-----------------------------------------------------------------------------
Call(i) == Run(i) \/ (\E force \in BOOLEAN : Stop(i, force)) \/ Hibernate(i) \/ Wake(i)
Dobby(i) == stateListenerRunning(i) \/ stateListenerStopped(i) \/ onVerityFailed(i)
Deliver(job) == Forward(job) \/ Dispatch(job)

Next == (\E job \in jobs : Deliver(job)) \/ \E i \in Inst : Call(i) \/ Dobby(i)

(* The worker pool runs its jobs.  All together are finitely many, so       *)
(* fairness of their union is enough.                                       *)
WorkerPool == \E job \in jobs : Deliver(job)

Spec == Init /\ [][Next]_runtimeVars /\ WF_runtimeVars(WorkerPool)

-----------------------------------------------------------------------------
(* Every user id is in the pool once or belongs to one name: none is lost   *)
(* and none is given twice (UserIdManager, Terminate, Kill).                *)
UidsAccounted ==
  \A u \in Uid :
    Cardinality({k \in DOMAIN mUserIdAvailablePool : mUserIdAvailablePool[k] = u})
      + Cardinality({n \in App \cup Inst : mUserIdMap[n] = u}) = 1

(* Containers of two applications never run under the same user id, also    *)
(* when one of them is still stopping and when an application has several   *)
(* instances (UserIdManager::getUserId, RuntimeManagerImplementation::Run,  *)
(* Terminate, Kill).                                                        *)
UidNotShared ==
  \A i, j \in Inst :
    Listed(i) /\ Listed(j) /\ AppOf[i] # AppOf[j] /\ uid[i] # NoUid => uid[i] # uid[j]

(* The LifecycleManager is told of the end of every container, in whatever  *)
(* order the jobs of its reports are run (DobbyInterface::stateListener,    *)
(* OCIContainerImplementation::Dispatch, RuntimeManagerImplementation::     *)
(* Dispatch).                                                               *)
EndIsTold == \A i \in Inst : container[i] = "gone" ~> "onTerminated" \in told[i]

(* Tests/L1Tests/tests/test_RunTimeManager.cpp:950: "Verifies that Run()    *)
(* returns Core::ERROR_GENERAL on container start failure".                 *)
RunReportsFailure ==
  \A i \in Inst : status[i] = "ERROR_NONE" => container[i] # "none"
=============================================================================
