--------------------------- MODULE RDKShell_proofs ---------------------------
(* Type correctness of RDKShell, and that what it keeps of the applications *)
(* agrees with the framework's plugin states, for any applications and any  *)
(* calls.                                                                   *)
EXTENDS RDKShell, TLAPS

USE DEF markVars, knownVars, requestVars, callVars, displayVars

LEMMA AppendSet ==
  ASSUME NEW S, NEW s \in Seq(S), NEW e \in S
  PROVE  ToSet(Append(s, e)) = ToSet(s) \cup {e}
<1> DEFINE t == Append(s, e)
<1>1. /\ DOMAIN s = 1..Len(s) /\ Len(s) \in Nat
      /\ DOMAIN t = 1..Len(s) + 1
      /\ \A i \in 1..Len(s) : t[i] = s[i]
      /\ t[Len(s) + 1] = e
  OBVIOUS
<1> HIDE DEF t
<1>2. \A i \in 1..Len(s) + 1 : i \in 1..Len(s) \/ i = Len(s) + 1
  BY <1>1
<1>3. ToSet(t) \subseteq ToSet(s) \cup {e}
  BY <1>1, <1>2 DEF ToSet
<1>4. Len(s) + 1 \in DOMAIN t /\ \A i \in DOMAIN s : i \in DOMAIN t
  BY <1>1
<1>5. e \in ToSet(t) /\ ToSet(s) \subseteq ToSet(t)
  BY <1>1, <1>4 DEF ToSet
<1> QED
  BY <1>3, <1>5 DEF t

LEMMA EmptySet == ToSet(<<>>) = {}
BY DEF ToSet

LEMMA TypesInit ==
  ASSUME CallAssumption
  PROVE  Init => TypeOK
BY DEF Init, TypeOK, At, CallAssumption

LEMMA TypesStep ==
  ASSUME CallAssumption, TypeOK, [Next]_shellVars
  PROVE  TypeOK'
<1> USE DEF TypeOK, At, Goto
<1>1. CASE UNCHANGED shellVars
  BY <1>1 DEF shellVars
<1>2. CASE Frame
  BY <1>2 DEF Frame, ToSet, Clients, CallAssumption
<1>3. ASSUME NEW c \in Call, MarkLaunch(c) PROVE TypeOK'
  BY <1>3 DEF MarkLaunch, CallAssumption
<1>4. ASSUME NEW c \in Call, FindPlugin(c) PROVE TypeOK'
  BY <1>4 DEF FindPlugin, CallAssumption
<1>5. ASSUME NEW c \in Call, Clone(c) PROVE TypeOK'
  BY <1>5 DEF Clone, CallAssumption
<1>6. ASSUME NEW c \in Call, Configure(c) PROVE TypeOK'
  BY <1>6 DEF Configure, CallAssumption
<1>7. ASSUME NEW c \in Call, RegisterNotification(c) PROVE TypeOK'
  BY <1>7 DEF RegisterNotification, CallAssumption
<1>8. ASSUME NEW c \in Call, SetState(c) PROVE TypeOK'
  BY <1>8 DEF SetState, CallAssumption
<1>9. ASSUME NEW c \in Call, SetVisibility(c) PROVE TypeOK'
  BY <1>9 DEF SetVisibility, AfterVisible, CallAssumption
<1>10. ASSUME NEW c \in Call, EndLaunch(c) PROVE TypeOK'
  BY <1>10 DEF EndLaunch, CallAssumption
<1>11. ASSUME NEW c \in Call, IsRequested(c) PROVE TypeOK'
  BY <1>11 DEF IsRequested, AfterDisplay, CallAssumption
<1>12. ASSUME NEW c \in Call, IsClient(c) PROVE TypeOK'
  BY <1>12 DEF IsClient, AfterDisplay, CallAssumption
<1>13. ASSUME NEW c \in Call, CreateDisplay(c) PROVE TypeOK'
  BY <1>13 DEF CreateDisplay, CallAssumption
<1>14. ASSUME NEW c \in Call, AwaitDisplay(c) PROVE TypeOK'
  BY <1>14 DEF AwaitDisplay, AfterDisplay, CallAssumption
<1>15. ASSUME NEW c \in Call, Activate(c) PROVE TypeOK'
  BY <1>15 DEF Activate, CallAssumption
<1>16. ASSUME NEW c \in Call, ActivateAtOnce(c) PROVE TypeOK'
  BY <1>16 DEF ActivateAtOnce, CallAssumption
<1>17. ASSUME NEW c \in Call, Remember(c) PROVE TypeOK'
  BY <1>17 DEF Remember, CallAssumption
<1>18. ASSUME NEW c \in Call, Activated(c) PROVE TypeOK'
  BY <1>18 DEF Activated, CallAssumption
<1>19. ASSUME NEW c \in Call, Deactivate(c) PROVE TypeOK'
  BY <1>19 DEF Deactivate, CallAssumption
<1>20. ASSUME NEW c \in Call, DeactivateAtOnce(c) PROVE TypeOK'
  BY <1>20 DEF DeactivateAtOnce, CallAssumption
<1>21. ASSUME NEW c \in Call, MarkExternal(c) PROVE TypeOK'
  BY <1>21 DEF MarkExternal, CallAssumption
<1>22. ASSUME NEW c \in Call, Unregister(c) PROVE TypeOK'
  BY <1>22 DEF Unregister, CallAssumption
<1>23. ASSUME NEW c \in Call, KillClient(c) PROVE TypeOK'
  BY <1>23 DEF KillClient, CallAssumption
<1>24. ASSUME NEW c \in Call, AwaitKill(c) PROVE TypeOK'
  BY <1>24 DEF AwaitKill, CallAssumption
<1>25. ASSUME NEW c \in Call, Forget(c) PROVE TypeOK'
  BY <1>25 DEF Forget, CallAssumption
<1>26. ASSUME NEW c \in Call, Deinitialized(c) PROVE TypeOK'
  BY <1>26 DEF Deinitialized, CallAssumption
<1>27. ASSUME NEW c \in Call, JobIsDone(c) PROVE TypeOK'
  BY <1>27 DEF JobIsDone, CallAssumption
<1>28. ASSUME NEW c \in Call, Suspend(c) PROVE TypeOK'
  BY <1>28 DEF Suspend, BeingDestroyed, CallAssumption
<1>29. ASSUME NEW c \in Call, RequestSuspend(c) PROVE TypeOK'
  BY <1>29 DEF RequestSuspend, CallAssumption
<1>30. ASSUME NEW c \in Call, ArriveToDestroy(c) PROVE TypeOK'
  BY <1>30 DEF ArriveToDestroy, CallAssumption
<1>31. ASSUME NEW c \in Call, ArriveFromOutside(c) PROVE TypeOK'
  BY <1>31 DEF ArriveFromOutside, CallAssumption
<1>32. ASSUME NEW c \in Call, Tell(c) PROVE TypeOK'
  BY <1>32 DEF Tell, AfterVisible, CallAssumption
<1>33. ASSUME NEW c \in Call, MarkDestroy(c) PROVE TypeOK'
  BY <1>33 DEF MarkDestroy, CallAssumption
<1>34. ASSUME NEW c \in Call, Lock(c) PROVE TypeOK'
  BY <1>34 DEF Lock, CallAssumption
<1>35. ASSUME NEW c \in Call, Unlock(c) PROVE TypeOK'
  BY <1>35 DEF Unlock, CallAssumption
<1>36. ASSUME NEW c \in Call, EndDestroy(c) PROVE TypeOK'
  BY <1>36 DEF EndDestroy, CallAssumption
<1>37. ASSUME NEW c \in Call, ActivationFails(c) PROVE TypeOK'
  BY <1>37 DEF ActivationFails, CallAssumption
<1>38. QED
  BY <1>1, <1>2, <1>3, <1>4, <1>5, <1>6, <1>7, <1>8, <1>9, <1>10, <1>11, <1>12, <1>13, <1>14, <1>15, <1>16, <1>17, <1>18, <1>19, <1>20, <1>21, <1>22, <1>23, <1>24, <1>25, <1>26, <1>27, <1>28, <1>29, <1>30, <1>31, <1>32, <1>33, <1>34, <1>35, <1>36, <1>37
  DEF Next, Runs, Calls, Launch, Display, Job, Destroy

(* Every variable keeps its type, and one call at most holds gDestroyMutex. *)
THEOREM TypeCorrect ==
  ASSUME CallAssumption
  PROVE  Spec => []TypeOK
BY TypesInit, TypesStep, PTL DEF Spec
-----------------------------------------------------------------------------
Deactivating == {"deactivated", "unregister", "kill", "killing", "deinitialized", "forgotten"}
Activating   == {"exists", "listed", "missing", "creating", "initialized", "activation"}

(* The handlers of an activation that failed *)
Failed == {"kill", "killing", "deinitialized", "forgotten"}

(* A job that runs is in the handlers of the transition its plugin is in,   *)
(* and a plugin is in the hands of one job at a time.                       *)
Jobs ==
  /\ \A c \in running :
       \/ plugin[AppOf[c]] = "activation" /\ pc[c] \in Activating \cup Failed
       \/ plugin[AppOf[c]] = "deactivation" /\ pc[c] \in Deactivating
  /\ \A c \in Call : pc[c] \in Deactivating \cup {"initialized", "activation"} => c \in running
  /\ \A c, d \in running : AppOf[c] = AppOf[d] => c = d

(* A request is in its queue or has been served, and belongs to a call that *)
(* waits for it.                                                            *)
Requests ==
  /\ \A c \in ToSet(gCreateDisplayRequests) : pc[c] = "creating" /\ c \notin posted
  /\ \A c \in ToSet(gKillClientRequests) : pc[c] = "killing" /\ c \notin posted
  /\ \A c \in posted : pc[c] \in {"creating", "killing"}

HasDisplay(a) == a \in clients \cup Clients(gCreateDisplayRequests) \cup undisplayed

Displays ==
  /\ \A c \in running : pc[c] \in {"creating", "initialized", "activation"}
                       => HasDisplay(AppOf[c])
  /\ \A a \in App : plugin[a] = "activated" => HasDisplay(a)

Known ==
  /\ \A a \in gActivePluginsData : plugin[a] \notin {"absent", "deactivated"}
  /\ \A a \in App : plugin[a] = "activated" => a \in gActivePluginsData
  /\ \A c \in running : /\ pc[c] = "activation" => AppOf[c] \in gActivePluginsData
                        /\ pc[c] = "forgotten" => AppOf[c] \notin gActivePluginsData

Handlers ==
  /\ \A a \in gStateNotifications \ untimely : plugin[a] \in {"activated", "deactivation"}
  /\ \A c \in running : pc[c] \in Failed => AppOf[c] \notin gStateNotifications \ untimely

Marks == \A a \in gExternalDestroyApplications : plugin[a] = "deactivation"

ShellInv == TypeOK /\ Jobs /\ Requests /\ Displays /\ Known /\ Handlers /\ Marks

LEMMA InvInit == ASSUME CallAssumption, Init PROVE ShellInv
<1>1. TypeOK
  BY TypesInit
<1>2. Jobs /\ Requests /\ Displays /\ Known /\ Handlers /\ Marks
  BY EmptySet DEF Init, Jobs, Requests, Displays, Known, Handlers, Marks, Deactivating
<1> QED
  BY <1>1, <1>2 DEF ShellInv

LEMMA InvSuffices == ShellInv => ShellKnowsThePlugins
BY DEF ShellInv, TypeOK, Displays, Known, Handlers, Marks, HasDisplay, ShellKnowsThePlugins

(* A call without a job that moves on, neither into a handler nor to a      *)
(* request, disturbs nothing.                                               *)
Moves(c) ==
  /\ pc[c] \notin Deactivating \cup Activating
  /\ pc'[c] \notin Deactivating \cup Activating
  /\ pc' = [pc EXCEPT ![c] = pc'[c]]
  /\ UNCHANGED <<requestVars, knownVars, gExternalDestroyApplications, running, plugin, displayVars>>

LEMMA MoveStep ==
  ASSUME CallAssumption, ShellInv, NEW c \in Call, Moves(c)
  PROVE  Jobs' /\ Requests' /\ Displays' /\ Known' /\ Handlers' /\ Marks'
<1> USE DEF ShellInv, TypeOK, Activating, Deactivating, Failed, CallAssumption
<1>1. c \notin running /\ c \notin posted /\ c \notin ToSet(gCreateDisplayRequests)
      /\ c \notin ToSet(gKillClientRequests)
  BY DEF Jobs, Requests, Moves
<1>2. \A d \in Call : d # c => pc'[d] = pc[d]
  BY DEF Moves
<1>3. /\ ToSet(gCreateDisplayRequests)' = ToSet(gCreateDisplayRequests)
      /\ ToSet(gKillClientRequests)' = ToSet(gKillClientRequests)
      /\ ToSet(gCreateDisplayRequests) \subseteq Call
      /\ ToSet(gKillClientRequests) \subseteq Call
  BY DEF Moves, ToSet
<1>4. Jobs'
  BY <1>1, <1>2 DEF Moves, Jobs
<1>5. Requests'
  BY <1>1, <1>2, <1>3 DEF Moves, Requests
<1>6. Displays' /\ Known' /\ Handlers' /\ Marks'
  BY <1>1, <1>2, <1>3 DEF Moves, Displays, HasDisplay, Clients, Known, Handlers, Marks
<1> QED
  BY <1>4, <1>5, <1>6

LEMMA InvStep ==
  ASSUME CallAssumption, ShellInv, [Next]_shellVars
  PROVE  ShellInv'
<1> USE DEF ShellInv, TypeOK, Goto, Activating, Deactivating, Failed, CallAssumption
<1>0. TypeOK'
  BY TypesStep DEF ShellInv
<1> DEFINE I == Jobs /\ Requests /\ Displays /\ Known /\ Handlers /\ Marks
<1>1. CASE UNCHANGED shellVars
  BY <1>1 DEF shellVars, I, Jobs, Requests, Displays, Known, Handlers, Marks, HasDisplay, Clients, ToSet
<1>2. CASE Frame
  <2>1. Jobs' /\ Known' /\ Handlers' /\ Marks'
    BY <1>2 DEF Frame, Jobs, Known, Handlers, Marks
  <2>2. Requests'
    BY <1>2, EmptySet DEF Frame, Requests
  <2>3. \A d \in ToSet(gKillClientRequests) : d \in running /\ pc[d] = "killing"
    <3>1. ToSet(gKillClientRequests) \subseteq Call
      BY DEF ToSet
    <3> QED
      BY <3>1 DEF Requests, Jobs
  <2>4. \A a \in App : HasDisplay(a) /\ a \notin Clients(gKillClientRequests) => HasDisplay(a)'
    BY <1>2 DEF Frame, HasDisplay, Clients
  <2>5. \A a \in App : plugin[a] = "activated" => a \notin Clients(gKillClientRequests)
    BY <2>3 DEF Clients, Jobs
  <2>6. \A c \in running : pc[c] # "killing" => AppOf[c] \notin Clients(gKillClientRequests)
    BY <2>3 DEF Clients, Jobs
  <2>7. Displays'
    <3>1. UNCHANGED <<running, plugin, pc>>
      BY <1>2 DEF Frame
    <3>2. \A c \in running : AppOf[c] \in App
      OBVIOUS
    <3> QED
      BY <2>4, <2>5, <2>6, <3>1, <3>2 DEF Displays
  <2> QED
    BY <1>0, <2>1, <2>2, <2>7
<1>3. ASSUME NEW c \in Call, MarkLaunch(c) PROVE I'
  <2>1. Moves(c)
    BY <1>3 DEF MarkLaunch, Moves
  <2> QED
    BY <2>1, MoveStep DEF I
<1>4. ASSUME NEW c \in Call, FindPlugin(c) PROVE I'
  <2>1. Moves(c)
    BY <1>4 DEF FindPlugin, Moves
  <2> QED
    BY <2>1, MoveStep DEF I
<1>5. ASSUME NEW c \in Call, Clone(c) PROVE I'
  <2> USE <1>5 DEF Clone
  <2>1. Jobs'
    BY DEF Jobs
  <2>2. Requests'
    BY DEF Requests
  <2>3. Displays'
    BY DEF Displays, HasDisplay, Clients, Jobs, Requests
  <2>4. Known' /\ Handlers' /\ Marks'
    BY DEF Known, Handlers, Marks, Jobs
  <2> QED
    BY <2>1, <2>2, <2>3, <2>4 DEF I
<1>6. ASSUME NEW c \in Call, Configure(c) PROVE I'
  <2>1. Moves(c)
    BY <1>6 DEF Configure, Moves
  <2> QED
    BY <2>1, MoveStep DEF I
<1>7. ASSUME NEW c \in Call, RegisterNotification(c) PROVE I'
  <2> USE <1>7 DEF RegisterNotification, HasStateControl
  <2>1. Jobs'
    BY DEF Jobs
  <2>2. Requests'
    BY DEF Requests
  <2>3. Displays'
    BY DEF Displays, HasDisplay, Clients, Jobs, Requests
  <2>4. Known' /\ Handlers' /\ Marks'
    BY DEF Known, Handlers, Marks, Jobs
  <2> QED
    BY <2>1, <2>2, <2>3, <2>4 DEF I
<1>8. ASSUME NEW c \in Call, SetState(c) PROVE I'
  <2>1. Moves(c)
    BY <1>8 DEF SetState, Moves
  <2> QED
    BY <2>1, MoveStep DEF I
<1>9. ASSUME NEW c \in Call, SetVisibility(c) PROVE I'
  <2>1. Moves(c)
    BY <1>9 DEF SetVisibility, AfterVisible, Moves
  <2> QED
    BY <2>1, MoveStep DEF I
<1>10. ASSUME NEW c \in Call, EndLaunch(c) PROVE I'
  <2>1. Moves(c)
    BY <1>10 DEF EndLaunch, Moves
  <2> QED
    BY <2>1, MoveStep DEF I
<1>11. ASSUME NEW c \in Call, IsRequested(c) PROVE I'
  <2> USE <1>11 DEF IsRequested, AfterDisplay
  <2>1. Jobs'
    BY DEF Jobs
  <2>2. Requests'
    BY DEF Requests
  <2>3. Displays'
    BY DEF Displays, HasDisplay, Clients, Jobs, Requests
  <2>4. Known' /\ Handlers' /\ Marks'
    BY DEF Known, Handlers, Marks, Jobs
  <2> QED
    BY <2>1, <2>2, <2>3, <2>4 DEF I
<1>12. ASSUME NEW c \in Call, IsClient(c) PROVE I'
  <2> USE <1>12 DEF IsClient, AfterDisplay
  <2>1. Jobs'
    BY DEF Jobs
  <2>2. Requests'
    BY DEF Requests
  <2>3. Displays'
    BY DEF Displays, HasDisplay, Clients, Jobs, Requests
  <2>4. Known' /\ Handlers' /\ Marks'
    BY DEF Known, Handlers, Marks, Jobs
  <2> QED
    BY <2>1, <2>2, <2>3, <2>4 DEF I
<1>13. ASSUME NEW c \in Call, CreateDisplay(c) PROVE I'
  <2> USE <1>13, AppendSet DEF CreateDisplay
  <2>1. Jobs'
    BY DEF Jobs
  <2>2. Requests'
    BY DEF Requests
  <2>3. Displays'
    BY DEF Displays, HasDisplay, Clients, Jobs, Requests
  <2>4. Known' /\ Handlers' /\ Marks'
    BY DEF Known, Handlers, Marks, Jobs
  <2> QED
    BY <2>1, <2>2, <2>3, <2>4 DEF I
<1>14. ASSUME NEW c \in Call, AwaitDisplay(c) PROVE I'
  <2> USE <1>14 DEF AwaitDisplay, AfterDisplay
  <2>1. Jobs'
    BY DEF Jobs
  <2>2. Requests'
    BY DEF Requests
  <2>3. Displays'
    BY DEF Displays, HasDisplay, Clients, Jobs, Requests
  <2>4. Known' /\ Handlers' /\ Marks'
    BY DEF Known, Handlers, Marks, Jobs
  <2> QED
    BY <2>1, <2>2, <2>3, <2>4 DEF I
<1>15. ASSUME NEW c \in Call, Activate(c) PROVE I'
  <2> USE <1>15 DEF Activate
  <2>1. Jobs'
    BY DEF Jobs
  <2>2. Requests'
    BY DEF Requests
  <2>3. Displays'
    BY DEF Displays, HasDisplay, Clients, Jobs, Requests
  <2>4. Known' /\ Handlers' /\ Marks'
    BY DEF Known, Handlers, Marks, Jobs
  <2> QED
    BY <2>1, <2>2, <2>3, <2>4 DEF I
<1>16. ASSUME NEW c \in Call, ActivateAtOnce(c) PROVE I'
  <2>1. Moves(c)
    BY <1>16 DEF ActivateAtOnce, Moves
  <2> QED
    BY <2>1, MoveStep DEF I
<1>17. ASSUME NEW c \in Call, Remember(c) PROVE I'
  <2> USE <1>17 DEF Remember
  <2>1. Jobs'
    BY DEF Jobs
  <2>2. Requests'
    BY DEF Requests
  <2>3. Displays'
    BY DEF Displays, HasDisplay, Clients, Jobs, Requests
  <2>4. Known' /\ Handlers' /\ Marks'
    BY DEF Known, Handlers, Marks, Jobs
  <2> QED
    BY <2>1, <2>2, <2>3, <2>4 DEF I
<1>18. ASSUME NEW c \in Call, Activated(c) PROVE I'
  <2> USE <1>18 DEF Activated
  <2>1. Jobs'
    BY DEF Jobs
  <2>2. Requests'
    BY DEF Requests
  <2>3. Displays'
    BY DEF Displays, HasDisplay, Clients, Jobs, Requests
  <2>4. Known' /\ Handlers' /\ Marks'
    BY DEF Known, Handlers, Marks, Jobs
  <2> QED
    BY <2>1, <2>2, <2>3, <2>4 DEF I
<1>19. ASSUME NEW c \in Call, Deactivate(c) PROVE I'
  <2> USE <1>19 DEF Deactivate
  <2>1. Jobs'
    BY DEF Jobs
  <2>2. Requests'
    BY DEF Requests
  <2>3. Displays'
    BY DEF Displays, HasDisplay, Clients, Jobs, Requests
  <2>4. Known' /\ Handlers' /\ Marks'
    BY DEF Known, Handlers, Marks, Jobs
  <2> QED
    BY <2>1, <2>2, <2>3, <2>4 DEF I
<1>20. ASSUME NEW c \in Call, DeactivateAtOnce(c) PROVE I'
  <2>1. Moves(c)
    BY <1>20 DEF DeactivateAtOnce, Moves
  <2> QED
    BY <2>1, MoveStep DEF I
<1>21. ASSUME NEW c \in Call, MarkExternal(c) PROVE I'
  <2> USE <1>21 DEF MarkExternal
  <2>1. Jobs'
    BY DEF Jobs
  <2>2. Requests'
    BY DEF Requests
  <2>3. Displays'
    BY DEF Displays, HasDisplay, Clients, Jobs, Requests
  <2>4. Known' /\ Handlers' /\ Marks'
    BY DEF Known, Handlers, Marks, Jobs
  <2> QED
    BY <2>1, <2>2, <2>3, <2>4 DEF I
<1>22. ASSUME NEW c \in Call, Unregister(c) PROVE I'
  <2> USE <1>22 DEF Unregister
  <2>1. Jobs'
    BY DEF Jobs
  <2>2. Requests'
    BY DEF Requests
  <2>3. Displays'
    BY DEF Displays, HasDisplay, Clients, Jobs, Requests
  <2>4. Known' /\ Handlers' /\ Marks'
    BY DEF Known, Handlers, Marks, Jobs
  <2> QED
    BY <2>1, <2>2, <2>3, <2>4 DEF I
<1>23. ASSUME NEW c \in Call, KillClient(c) PROVE I'
  <2> USE <1>23, AppendSet DEF KillClient
  <2>1. Jobs'
    BY DEF Jobs
  <2>2. Requests'
    BY DEF Requests
  <2>3. Displays'
    BY DEF Displays, HasDisplay, Clients, Jobs, Requests
  <2>4. Known' /\ Handlers' /\ Marks'
    BY DEF Known, Handlers, Marks, Jobs
  <2> QED
    BY <2>1, <2>2, <2>3, <2>4 DEF I
<1>24. ASSUME NEW c \in Call, AwaitKill(c) PROVE I'
  <2> USE <1>24 DEF AwaitKill
  <2>1. Jobs'
    BY DEF Jobs
  <2>2. Requests'
    BY DEF Requests
  <2>3. Displays'
    BY DEF Displays, HasDisplay, Clients, Jobs, Requests
  <2>4. Known' /\ Handlers' /\ Marks'
    BY DEF Known, Handlers, Marks, Jobs
  <2> QED
    BY <2>1, <2>2, <2>3, <2>4 DEF I
<1>25. ASSUME NEW c \in Call, Forget(c) PROVE I'
  <2> USE <1>25 DEF Forget
  <2>1. Jobs'
    BY DEF Jobs
  <2>2. Requests'
    BY DEF Requests
  <2>3. Displays'
    BY DEF Displays, HasDisplay, Clients, Jobs, Requests
  <2>4. Known' /\ Handlers' /\ Marks'
    BY DEF Known, Handlers, Marks, Jobs
  <2> QED
    BY <2>1, <2>2, <2>3, <2>4 DEF I
<1>26. ASSUME NEW c \in Call, Deinitialized(c) PROVE I'
  <2> USE <1>26 DEF Deinitialized
  <2>1. Jobs'
    BY DEF Jobs
  <2>2. Requests'
    BY DEF Requests
  <2>3. Displays'
    BY DEF Displays, HasDisplay, Clients, Jobs, Requests
  <2>4. Known' /\ Handlers' /\ Marks'
    BY DEF Known, Handlers, Marks, Jobs
  <2> QED
    BY <2>1, <2>2, <2>3, <2>4 DEF I
<1>27. ASSUME NEW c \in Call, JobIsDone(c) PROVE I'
  <2>1. Moves(c)
    BY <1>27 DEF JobIsDone, Moves
  <2> QED
    BY <2>1, MoveStep DEF I
<1>28. ASSUME NEW c \in Call, Suspend(c) PROVE I'
  <2>1. Moves(c)
    BY <1>28 DEF Suspend, Moves
  <2> QED
    BY <2>1, MoveStep DEF I
<1>29. ASSUME NEW c \in Call, RequestSuspend(c) PROVE I'
  <2>1. Moves(c)
    BY <1>29 DEF RequestSuspend, Moves
  <2> QED
    BY <2>1, MoveStep DEF I
<1>30. ASSUME NEW c \in Call, ArriveToDestroy(c) PROVE I'
  <2>1. Moves(c)
    BY <1>30 DEF ArriveToDestroy, Moves
  <2> QED
    BY <2>1, MoveStep DEF I
<1>31. ASSUME NEW c \in Call, ArriveFromOutside(c) PROVE I'
  <2>1. Moves(c)
    BY <1>31 DEF ArriveFromOutside, Moves
  <2> QED
    BY <2>1, MoveStep DEF I
<1>32. ASSUME NEW c \in Call, Tell(c) PROVE I'
  <2>1. Moves(c)
    BY <1>32 DEF Tell, AfterVisible, Moves
  <2> QED
    BY <2>1, MoveStep DEF I
<1>33. ASSUME NEW c \in Call, MarkDestroy(c) PROVE I'
  <2>1. Moves(c)
    BY <1>33 DEF MarkDestroy, Moves
  <2> QED
    BY <2>1, MoveStep DEF I
<1>34. ASSUME NEW c \in Call, Lock(c) PROVE I'
  <2>1. Moves(c)
    BY <1>34 DEF Lock, Moves
  <2> QED
    BY <2>1, MoveStep DEF I
<1>35. ASSUME NEW c \in Call, Unlock(c) PROVE I'
  <2>1. Moves(c)
    BY <1>35 DEF Unlock, Moves
  <2> QED
    BY <2>1, MoveStep DEF I
<1>36. ASSUME NEW c \in Call, EndDestroy(c) PROVE I'
  <2>1. Moves(c)
    BY <1>36 DEF EndDestroy, Moves
  <2> QED
    BY <2>1, MoveStep DEF I
<1>37. ASSUME NEW c \in Call, ActivationFails(c) PROVE I'
  <2> USE <1>37 DEF ActivationFails
  <2>1. Jobs'
    BY DEF Jobs
  <2>2. Requests'
    BY DEF Requests
  <2>3. Displays'
    BY DEF Displays, HasDisplay, Clients, Jobs, Requests
  <2>4. Known' /\ Handlers' /\ Marks'
    BY DEF Known, Handlers, Marks, Jobs
  <2> QED
    BY <2>1, <2>2, <2>3, <2>4 DEF I
<1>38. QED
  BY <1>0, <1>1, <1>2, <1>3, <1>4, <1>5, <1>6, <1>7, <1>8, <1>9, <1>10, <1>11, <1>12, <1>13, <1>14, <1>15, <1>16, <1>17, <1>18, <1>19, <1>20, <1>21, <1>22, <1>23, <1>24, <1>25, <1>26, <1>27, <1>28, <1>29, <1>30, <1>31, <1>32, <1>33, <1>34, <1>35, <1>36, <1>37
  DEF Next, Runs, Calls, Launch, Display, Job, Destroy

-----------------------------------------------------------------------------
(* What RDKShell keeps of the applications agrees with the framework's      *)
(* plugin states at all times, whatever calls, jobs and deactivations by    *)
(* others overlap (launchWrapper, handleInitialize, handleDeactivated,      *)
(* handleDeinitialized).                                                    *)
THEOREM PluginsAreKnown ==
  ASSUME CallAssumption
  PROVE  Spec => []ShellKnowsThePlugins
<1>1. Init => ShellInv
  BY InvInit
<1>2. ShellInv /\ [Next]_shellVars => ShellInv'
  BY InvStep
<1> QED
  BY <1>1, <1>2, InvSuffices, PTL DEF Spec
==============================================================================
