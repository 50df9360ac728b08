------------------------ MODULE RuntimeManager_proofs -----------------------
(* Proofs about RuntimeManager, for any applications, instances and number  *)
(* of user ids.  The ids are accounted for because the name that Terminate  *)
(* and Kill give back, the instance's, never holds one: an application that *)
(* has an id keeps it (Owned), ids are in the pool once and never with an   *)
(* application at the same time (Distinct), and every id is in one of the   *)
(* two places (Complete).                                                   *)
EXTENDS RuntimeManager, SequenceTheorems, FiniteSetTheorems, TLAPS

pool == mUserIdAvailablePool

Owned ==
  /\ \A i \in Inst : mUserIdMap[i] = NoUid
  /\ \A i \in Inst : uid[i] # NoUid => uid[i] = mUserIdMap[AppOf[i]]

Distinct ==
  /\ \A j, k \in DOMAIN pool : pool[j] = pool[k] => j = k
  /\ \A a, b \in App : mUserIdMap[a] = mUserIdMap[b] /\ mUserIdMap[a] # NoUid => a = b
  /\ \A a \in App, k \in DOMAIN pool : mUserIdMap[a] # pool[k]

Complete ==
  \A u \in Uid : (\E k \in DOMAIN pool : pool[k] = u) \/ (\E a \in App : mUserIdMap[a] = u)

UidInv == TypeOK /\ Owned /\ Distinct /\ Complete

-----------------------------------------------------------------------------
LEMMA UidInit == ASSUME InstanceAssumption, UidAssumption, Init PROVE UidInv
<1>1. pool \in Seq(Uid) /\ DOMAIN pool = Uid
  BY SeqDef DEF Init, pool, Uid, UidAssumption
<1>2. TypeOK
  BY <1>1 DEF Init, TypeOK, pool
<1>3. Owned
  BY DEF Init, Owned, InstanceAssumption
<1>4. Distinct /\ Complete
  BY <1>1 DEF Init, Distinct, Complete, pool, Uid, NoUid, UidAssumption
<1> QED
  BY <1>2, <1>3, <1>4 DEF UidInv

(* getUserId: an application that has no id gets the first of the pool, if  *)
(* enough are there.                                                        *)
LEMMA GetUserId ==
  ASSUME InstanceAssumption, UidAssumption, UidInv, NEW i \in Inst, getUserId(AppOf[i]),
         uid' = [uid EXCEPT ![i] = mUserIdMap'[AppOf[i]]]
  PROVE  /\ mUserIdAvailablePool' \in Seq(Uid)
         /\ mUserIdMap' \in [App \cup Inst -> Uid \cup {NoUid}]
         /\ uid' \in [Inst -> Uid \cup {NoUid}]
         /\ Owned' /\ Distinct' /\ Complete'
<1> DEFINE a == AppOf[i]
<1>1. a \in App /\ a \notin Inst /\ AppOf \in [Inst -> App]
  BY DEF InstanceAssumption
<1>2. CASE UNCHANGED uidVars
  BY <1>1, <1>2 DEF UidInv, TypeOK, Owned, Distinct, Complete, uidVars, pool
<1>3. CASE ~UNCHANGED uidVars
  <2> USE DEF pool
  <2>1. /\ mUserIdMap[a] = NoUid /\ ~(Len(pool) < MinPool)
        /\ mUserIdMap' = [mUserIdMap EXCEPT ![a] = Head(pool)]
        /\ pool' = Tail(pool)
    BY <1>3, Zenon DEF getUserId
  <2>2. /\ pool \in Seq(Uid) /\ Len(pool) > 0 /\ Len(pool) \in Nat
        /\ DOMAIN pool = 1..Len(pool)
    <3>1. pool \in Seq(Uid) /\ MinPool \in Nat \ {0}
      BY Zenon DEF UidInv, TypeOK, UidAssumption
    <3>2. Len(pool) \in Nat /\ DOMAIN pool = 1..Len(pool)
      BY <3>1, LenProperties
    <3> QED
      BY <2>1, <3>1, <3>2
  <2>3. /\ Head(pool) \in Uid /\ Head(pool) = pool[1] /\ Head(pool) # NoUid
        /\ pool' \in Seq(Uid) /\ DOMAIN pool' = 1..(Len(pool) - 1)
        /\ \A k \in DOMAIN pool' : pool'[k] = pool[k + 1] /\ k + 1 \in DOMAIN pool
    <3>1. pool # <<>> /\ 1 \in DOMAIN pool /\ pool[1] \in Uid
      BY <2>2
    <3>2. Head(pool) = pool[1] /\ Head(pool) # NoUid
      BY <3>1 DEF Uid, NoUid
    <3>3. /\ Tail(pool) \in Seq(Uid) /\ Len(Tail(pool)) = Len(pool) - 1
          /\ \A k \in 1..Len(Tail(pool)) : Tail(pool)[k] = pool[k + 1]
      BY <2>2, <3>1, HeadTailProperties
    <3>4. DOMAIN Tail(pool) = 1..(Len(pool) - 1)
      BY <3>3, LenProperties
    <3> QED
      BY <2>1, <2>2, <3>1, <3>2, <3>3, <3>4
  <2>4. mUserIdMap' \in [App \cup Inst -> Uid \cup {NoUid}] /\ mUserIdMap'[a] = Head(pool)
    BY <1>1, <2>1, <2>3 DEF UidInv, TypeOK
  <2>5. uid' \in [Inst -> Uid \cup {NoUid}]
    BY <1>1, <2>4 DEF UidInv, TypeOK
  <2>6. \A b \in App \cup Inst : b # a => mUserIdMap'[b] = mUserIdMap[b]
    BY <1>1, <2>1 DEF UidInv, TypeOK
  <2>7. Owned'
    <3>1. \A j \in Inst : mUserIdMap'[j] = NoUid
      BY <1>1, <2>6 DEF UidInv, Owned
    <3>2. \A j \in Inst : uid'[j] # NoUid => uid'[j] = mUserIdMap'[AppOf[j]]
      <4> SUFFICES ASSUME NEW j \in Inst, uid'[j] # NoUid
                   PROVE  uid'[j] = mUserIdMap'[AppOf[j]]
        OBVIOUS
      <4>1. CASE j = i
        BY <4>1 DEF UidInv, TypeOK
      <4>2. CASE j # i
        <5>1. uid'[j] = uid[j] /\ uid[j] = mUserIdMap[AppOf[j]] /\ uid[j] # NoUid
          BY <4>2 DEF UidInv, TypeOK, Owned
        <5> QED
          BY <1>1, <2>1, <2>6, <5>1
      <4> QED
        BY <4>1, <4>2
    <3> QED
      BY <3>1, <3>2 DEF Owned
  <2>8. Distinct'
    <3>1. \A j, k \in DOMAIN pool' : pool'[j] = pool'[k] => j = k
      <4> SUFFICES ASSUME NEW j \in DOMAIN pool', NEW k \in DOMAIN pool', pool'[j] = pool'[k]
                   PROVE  j = k
        OBVIOUS
      <4>1. j + 1 = k + 1 /\ j \in Nat /\ k \in Nat
        BY <2>3, <2>2 DEF UidInv, Distinct
      <4> QED
        BY <4>1
    <3>2. \A b, c \in App : mUserIdMap'[b] = mUserIdMap'[c] /\ mUserIdMap'[b] # NoUid => b = c
      BY <2>2, <2>3, <2>4, <2>6 DEF UidInv, Distinct
    <3>3. \A b \in App, k \in DOMAIN pool' : mUserIdMap'[b] # pool'[k]
      <4> SUFFICES ASSUME NEW b \in App, NEW k \in DOMAIN pool' PROVE mUserIdMap'[b] # pool'[k]
        OBVIOUS
      <4>1. pool'[k] = pool[k + 1] /\ k + 1 \in DOMAIN pool /\ k + 1 # 1 /\ 1 \in DOMAIN pool
        BY <2>2, <2>3
      <4>2. CASE b = a
        BY <2>3, <2>4, <4>1, <4>2 DEF UidInv, Distinct
      <4>3. CASE b # a
        BY <2>6, <4>1, <4>3 DEF UidInv, Distinct
      <4> QED
        BY <4>2, <4>3
    <3> QED
      BY <3>1, <3>2, <3>3 DEF Distinct
  <2>9. Complete'
    <3> SUFFICES ASSUME NEW u \in Uid
                 PROVE  \/ \E k \in DOMAIN pool' : pool'[k] = u
                        \/ \E b \in App : mUserIdMap'[b] = u
      BY DEF Complete, Uid
    <3>1. CASE \E b \in App : mUserIdMap[b] = u
      <4>1. PICK b \in App : mUserIdMap[b] = u
        BY <3>1
      <4>2. b # a
        BY <2>1, <4>1 DEF Uid, NoUid
      <4> QED
        BY <2>6, <4>1, <4>2
    <3>2. CASE \E k \in DOMAIN pool : pool[k] = u
      <4>1. PICK k \in DOMAIN pool : pool[k] = u
        BY <3>2
      <4>2. CASE k = 1
        BY <1>1, <2>3, <2>4, <4>1, <4>2
      <4>3. CASE k # 1
        <5>1. k - 1 \in DOMAIN pool' /\ pool'[k - 1] = pool[(k - 1) + 1] /\ (k - 1) + 1 = k
          BY <2>2, <2>3, <4>1, <4>3
        <5> QED
          BY <4>1, <5>1
      <4> QED
        BY <4>2, <4>3
    <3> QED
      BY <3>1, <3>2 DEF UidInv, Complete
  <2> QED
    BY <2>3, <2>4, <2>5, <2>7, <2>8, <2>9
<1> QED
  BY <1>2, <1>3

(* What nothing but Run changes.                                            *)
LEMMA SameUids ==
  ASSUME UidInv, TypeOK', UNCHANGED <<uidVars, uid>>
  PROVE  UidInv'
BY DEF UidInv, uidVars, Owned, Distinct, Complete, pool, Uid

-----------------------------------------------------------------------------
LEMMA UidStep ==
  ASSUME InstanceAssumption, UidAssumption, UidInv, Next
  PROVE  UidInv'
<1>1. ASSUME NEW job \in jobs, Deliver(job) PROVE UidInv'
  <2>1. job \in Job
    BY DEF UidInv, TypeOK
  <2>2. CASE Forward(job)
    <3>1. [job EXCEPT !.of = "RuntimeManager"] \in Job
      BY <2>1 DEF Job
    <3>2. TypeOK'
      BY <2>2, <3>1 DEF UidInv, TypeOK, Forward, uidVars, runVars
    <3> QED
      BY <2>2, <3>2, SameUids DEF Forward, uidVars, runVars
  <2>3. CASE Dispatch(job)
    <3>1. TypeOK'
      BY <2>1, <2>3 DEF UidInv, TypeOK, Dispatch, uidVars, runVars, Job
    <3> QED
      BY <2>3, <3>1, SameUids DEF Dispatch, uidVars, runVars
  <2> QED
    BY <1>1, <2>2, <2>3 DEF Deliver
<1>2. ASSUME NEW i \in Inst, Run(i) PROVE UidInv'
  <2>1. getUserId(AppOf[i]) /\ uid' = [uid EXCEPT ![i] = mUserIdMap'[AppOf[i]]]
    BY <1>2, Zenon DEF Run
  <2>2. /\ mUserIdAvailablePool' \in Seq(Uid)
        /\ mUserIdMap' \in [App \cup Inst -> Uid \cup {NoUid}]
        /\ uid' \in [Inst -> Uid \cup {NoUid}]
        /\ Owned' /\ Distinct' /\ Complete'
    BY <2>1, GetUserId
  <2>3. /\ mOciContainerObject' \in BOOLEAN
        /\ mRuntimeAppInfo' \in [Inst -> {"none", "STARTING", "HIBERNATING", "WAKING",
                                          "TERMINATING"}]
        /\ status' \in [Inst -> {"none", "ERROR_NONE", "ERROR_GENERAL"}]
        /\ container' \in [Inst -> {"none", "running", "stopping", "gone"}]
        /\ jobs' \subseteq Job /\ told' = told
    <3>1. PICK display \in MayFail("display"), generated \in MayFail("generate") :
           IF display /\ generated
           THEN \E valid \in BOOLEAN :
                  /\ isOCIPluginObjectValid(valid)
                  /\ IF valid
                     THEN \E success \in MayFail("start") : StartContainer(i, success)
                     ELSE /\ status' = [status EXCEPT ![i] = "ERROR_GENERAL"]
                          /\ UNCHANGED <<container, mRuntimeAppInfo>>
                  /\ UNCHANGED jobs
           ELSE /\ status' = [status EXCEPT ![i] = "ERROR_GENERAL"]
                /\ jobs' = jobs \cup {Announce("RuntimeManager", "onFailure", i)}
                /\ UNCHANGED <<mOciContainerObject, container, mRuntimeAppInfo>>
      BY <1>2, Zenon DEF Run
    <3>2. Announce("RuntimeManager", "onFailure", i) \in Job
      BY DEF Announce, Job, Report
    <3>3. told' = told
      BY <1>2, Zenon DEF Run
    <3>4. CASE ~(display /\ generated)
      BY <3>1, <3>2, <3>3, <3>4 DEF UidInv, TypeOK
    <3>5. CASE display /\ generated
      <4>1. PICK valid \in BOOLEAN :
              /\ isOCIPluginObjectValid(valid)
              /\ IF valid
                 THEN \E success \in MayFail("start") : StartContainer(i, success)
                 ELSE /\ status' = [status EXCEPT ![i] = "ERROR_GENERAL"]
                      /\ UNCHANGED <<container, mRuntimeAppInfo>>
              /\ UNCHANGED jobs
        BY <3>1, <3>5, Zenon
      <4>2. mOciContainerObject' \in BOOLEAN
        BY <4>1, Zenon DEF isOCIPluginObjectValid
      <4>3. CASE valid
        <5>1. PICK success \in MayFail("start") : StartContainer(i, success)
          BY <4>1, <4>3, Zenon
        <5> QED
          BY <3>3, <4>1, <4>2, <5>1 DEF UidInv, TypeOK, StartContainer
      <4>4. CASE ~valid
        BY <3>3, <4>1, <4>2, <4>4 DEF UidInv, TypeOK
      <4> QED
        BY <4>3, <4>4
    <3> QED
      BY <3>4, <3>5
  <2> QED
    BY <2>2, <2>3 DEF UidInv, TypeOK, Uid
<1>3. ASSUME NEW i \in Inst, NEW force \in BOOLEAN, Stop(i, force) PROVE UidInv'
  <2>1. UNCHANGED uidVars
    BY <1>3 DEF Stop, clearUserId, UidInv, Owned, NoUid
  <2>2. UNCHANGED <<status, uid, jobs, told>>
    BY <1>3 DEF Stop, runVars, reportVars
  <2>3. mOciContainerObject' \in BOOLEAN
    BY <1>3, Zenon DEF Stop, isOCIPluginObjectValid
  <2>4. /\ mRuntimeAppInfo' \in [Inst -> {"none", "STARTING", "HIBERNATING", "WAKING",
                                          "TERMINATING"}]
        /\ container' \in [Inst -> {"none", "running", "stopping", "gone"}]
    BY <1>3 DEF Stop, UidInv, TypeOK
  <2>5. TypeOK'
    BY <2>1, <2>2, <2>3, <2>4 DEF UidInv, TypeOK, uidVars, Uid
  <2> QED
    BY <2>1, <2>2, <2>5, SameUids
<1>4. ASSUME NEW i \in Inst, Hibernate(i) \/ Wake(i) PROVE UidInv'
  <2>1. UNCHANGED <<uidVars, status, uid, container, jobs, told>>
    BY <1>4 DEF Hibernate, Wake, runVars, reportVars
  <2>2. mOciContainerObject' \in BOOLEAN
    BY <1>4, Zenon DEF Hibernate, Wake, isOCIPluginObjectValid
  <2>3. mRuntimeAppInfo' \in [Inst -> {"none", "STARTING", "HIBERNATING", "WAKING",
                                       "TERMINATING"}]
    BY <1>4 DEF Hibernate, Wake, UidInv, TypeOK
  <2>4. TypeOK'
    BY <2>1, <2>2, <2>3 DEF UidInv, TypeOK, uidVars, Uid
  <2> QED
    BY <2>1, <2>4, SameUids
<1>5. ASSUME NEW i \in Inst, Dobby(i) PROVE UidInv'
  <2>1. UNCHANGED <<mOciContainerObject, uidVars, mRuntimeAppInfo, status, uid, told>>
    BY <1>5 DEF Dobby, stateListenerRunning, stateListenerStopped, onVerityFailed, runVars
  <2>2. \A report \in Report : Announce("OCIContainer", report, i) \in Job
    BY DEF Announce, Job
  <2>3. jobs' \subseteq Job
    BY <1>5, <2>2 DEF Dobby, stateListenerRunning, stateListenerStopped, onVerityFailed, Report,
                      UidInv, TypeOK
  <2>4. container' \in [Inst -> {"none", "running", "stopping", "gone"}]
    BY <1>5 DEF Dobby, stateListenerRunning, stateListenerStopped, onVerityFailed, UidInv, TypeOK
  <2>5. TypeOK'
    BY <2>1, <2>3, <2>4 DEF UidInv, TypeOK, uidVars, Uid
  <2> QED
    BY <2>1, <2>5, SameUids
<1> QED
  BY <1>1, <1>2, <1>3, <1>4, <1>5 DEF Next, Call

LEMMA UidKept ==
  ASSUME InstanceAssumption, UidAssumption, UidInv, [Next]_runtimeVars
  PROVE  UidInv'
<1>1. CASE Next
  BY <1>1, UidStep
<1>2. CASE UNCHANGED runtimeVars
  BY <1>2 DEF runtimeVars, uidVars, runVars, reportVars, UidInv, TypeOK, Owned, Distinct,
              Complete, pool, Uid
<1> QED
  BY <1>1, <1>2

LEMMA UidSuffices == ASSUME InstanceAssumption, UidInv PROVE UidNotShared
  BY DEF UidInv, Owned, Distinct, UidNotShared, InstanceAssumption

LEMMA UidInvariant ==
  ASSUME InstanceAssumption, UidAssumption
  PROVE  Spec => []UidInv
<1>1. Init => UidInv
  BY UidInit
<1>2. UidInv /\ [Next]_runtimeVars => UidInv'
  BY UidKept
<1> QED
  BY <1>1, <1>2, PTL DEF Spec

-----------------------------------------------------------------------------
(* Every variable of RuntimeManager keeps its type.                         *)
THEOREM TypeCorrect ==
  ASSUME InstanceAssumption, UidAssumption
  PROVE  Spec => []TypeOK
<1>1. UidInv => TypeOK
  BY DEF UidInv
<1>2. Spec => []UidInv
  BY UidInvariant
<1> QED
  BY <1>1, <1>2, PTL

(* Containers of two applications never run under the same user id          *)
(* (UserIdManager, RuntimeManagerImplementation::Run, Terminate, Kill).     *)
THEOREM NoUidIsShared ==
  ASSUME InstanceAssumption, UidAssumption
  PROVE  Spec => []UidNotShared
<1>1. UidInv => UidNotShared
  BY UidSuffices
<1>2. Spec => []UidInv
  BY UidInvariant
<1> QED
  BY <1>1, <1>2, PTL

(* Every user id is in the pool once or belongs to one name (UserIdManager).*)
THEOREM EveryUidIsAccounted ==
  ASSUME InstanceAssumption, UidAssumption
  PROVE  Spec => []UidsAccounted
<1>1. UidInv => UidsAccounted
  <2> SUFFICES ASSUME UidInv, NEW u \in Uid
               PROVE  Cardinality({k \in DOMAIN pool : pool[k] = u})
                        + Cardinality({n \in App \cup Inst : mUserIdMap[n] = u}) = 1
    BY DEF UidsAccounted, pool
  <2>1. \A n \in Inst : mUserIdMap[n] # u
    BY DEF UidInv, Owned, Uid, NoUid
  <2>2. CASE \E k \in DOMAIN pool : pool[k] = u
    <3>1. PICK k \in DOMAIN pool : pool[k] = u
      BY <2>2
    <3>2. {j \in DOMAIN pool : pool[j] = u} = {k}
      BY <3>1 DEF UidInv, Distinct
    <3>3. {n \in App \cup Inst : mUserIdMap[n] = u} = {}
      BY <2>1, <3>1 DEF UidInv, Distinct
    <3>4. Cardinality({k}) = 1 /\ Cardinality({}) = 0
      BY FS_EmptySet, FS_Singleton
    <3> QED
      BY <3>2, <3>3, <3>4
  <2>3. CASE ~\E k \in DOMAIN pool : pool[k] = u
    <3>1. PICK a \in App : mUserIdMap[a] = u
      BY <2>3 DEF UidInv, Complete
    <3>2. {n \in App \cup Inst : mUserIdMap[n] = u} = {a}
      BY <2>1, <3>1 DEF UidInv, Distinct, Uid, NoUid
    <3>3. {j \in DOMAIN pool : pool[j] = u} = {}
      BY <2>3
    <3>4. Cardinality({a}) = 1 /\ Cardinality({}) = 0
      BY FS_EmptySet, FS_Singleton
    <3> QED
      BY <3>2, <3>3, <3>4
  <2> QED
    BY <2>2, <2>3
<1>2. Spec => []UidInv
  BY UidInvariant
<1> QED
  BY <1>1, <1>2, PTL
=============================================================================
