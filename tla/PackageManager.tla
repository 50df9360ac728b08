--------------------------- MODULE PackageManager ---------------------------
(* The installer and the locks of the PackageManager plugin, for one        *)
(* package: mState holds, per version, the install state, the number of     *)
(* locks and the path the package is unpacked at.  Packages do not interact.*)
(*                                                                          *)
(* Install, Lock and Unlock hold mtxState from the first look at mState to  *)
(* the last change and are one step each.  Uninstall chooses its version    *)
(* before it takes mtxState and is two.  The package library (packageImpl)  *)
(* and the StorageManager may refuse any call named in Failing.             *)
EXTENDS Integers

CONSTANTS
  Version,        \* the versions, numbered in the order of the map's keys
  Uninstaller,    \* threads that call Uninstall
  Failing,        \* calls to other components that may fail
  MaxLocks        \* bound: mLockCount of a version

VersionAssumption == Version \subseteq Nat \ {0}
LockBoundAssumption == MaxLocks \in Nat
FailingCallAssumption ==
  Failing \subseteq {"CreateStorage", "DeleteStorage", "install", "uninstall", "lock"}

InstallState == {"INSTALLING", "INSTALLED", "INSTALL_FAILURE", "INSTALLATION_BLOCKED",
                 "UNINSTALLED", "UNINSTALL_BLOCKED"}
NotFound == "not found"       \* the version has no entry in mState
NoVersion == 0                \* the empty string

VARIABLES
  cacheInitialized,
  installState,               \* mState: the state of a version's entry
  mLockCount,                 \* mState: the locks of a version's entry
  unpackedPath,               \* mState: whether the entry has a path
  chosen                      \* per Uninstaller: the version it read, or Idle

packageVars == <<cacheInitialized, installState, mLockCount, unpackedPath, chosen>>

Idle == -1

TypeOK ==
  /\ cacheInitialized \in BOOLEAN
  /\ installState \in [Version -> InstallState \cup {NotFound}]
  /\ mLockCount \in [Version -> 0..MaxLocks]
  /\ unpackedPath \in [Version -> BOOLEAN]
  /\ chosen \in [Uninstaller -> Version \cup {NoVersion, Idle}]

Init ==
  /\ cacheInitialized = FALSE
  /\ installState = [v \in Version |-> NotFound]
  /\ mLockCount = [v \in Version |-> 0]
  /\ unpackedPath = [v \in Version |-> FALSE]
  /\ chosen = [u \in Uninstaller |-> Idle]

-----------------------------------------------------------------------------
(* The first version in the order of the map, or the empty string.          *)
First(S) == IF S = {} THEN NoVersion ELSE CHOOSE v \in S : \A w \in S : v <= w

Blocked == {"INSTALLATION_BLOCKED", "UNINSTALL_BLOCKED"}

GetInstalledVersion(state) == First({v \in Version : state[v] \in Blocked \cup {"INSTALLED"}})
GetBlockedVersion(state)   == First({v \in Version : state[v] \in Blocked})

MayFail(c) == IF c \in Failing THEN BOOLEAN ELSE {TRUE}

(* The private Install: the states it may leave version v in, and whether   *)
(* it succeeds.  Without storage the state is not changed.                  *)
InstallOutcome(state, v) ==
  {IF ~stored THEN [state |-> state, ok |-> FALSE]
   ELSE [state |-> [state EXCEPT ![v] = IF done THEN "INSTALLED" ELSE "INSTALL_FAILURE"],
         ok |-> done] :
     stored \in MayFail("CreateStorage"), done \in MayFail("install")}

(* Slip: the locks are looked at where the version is chosen, not here.     *)
UninstallIgnoringLocks(state, locks, v) ==
  IF v = NoVersion THEN {state}
  ELSE {IF deleted THEN [state EXCEPT ![v] = "UNINSTALLED"] ELSE state :
          deleted \in MayFail("DeleteStorage")}

(* Uninstall of the version that was chosen, in the state found under the   *)
(* lock.  The entry becomes UNINSTALLED whatever the library says.          *)
UninstallOutcome(state, locks, v) ==
  IF v = NoVersion THEN {state}
  ELSE IF locks[v] > 0 THEN {[state EXCEPT ![v] = "UNINSTALL_BLOCKED"]}
  ELSE {IF deleted THEN [state EXCEPT ![v] = "UNINSTALLED"] ELSE state :
          deleted \in MayFail("DeleteStorage")}

-----------------------------------------------------------------------------
(* InitializeState, run by the downloader thread: the installed versions    *)
(* are what the package library finds.                                      *)
InitializeState ==
  /\ ~cacheInitialized
  /\ cacheInitialized' = TRUE
  /\ \E found \in SUBSET Version :
       installState' = [v \in Version |-> IF v \in found THEN "INSTALLED" ELSE NotFound]
  /\ UNCHANGED <<mLockCount, unpackedPath, chosen>>

(* Install: delayed when the first installed version is another one that is *)
(* locked.  A version whose own entry is locked is not protected: its entry *)
(* says INSTALLING when the installed version is looked for.                *)
Install(v) ==
  /\ cacheInitialized
  /\ LET installing == [installState EXCEPT ![v] = "INSTALLING"]
         w == GetInstalledVersion(installing)
     IN IF w # NoVersion /\ w # v /\ mLockCount[w] > 0
        THEN installState' = [installState EXCEPT ![v] = "INSTALLATION_BLOCKED"]
        ELSE \E r \in InstallOutcome(installing, v) : installState' = r.state
  /\ UNCHANGED <<cacheInitialized, mLockCount, unpackedPath, chosen>>

(* Uninstall, before mtxState is taken.                                     *)
ChooseVersion(u) ==
  /\ cacheInitialized /\ chosen[u] = Idle
  /\ chosen' = [chosen EXCEPT ![u] = GetInstalledVersion(installState)]
  /\ UNCHANGED <<cacheInitialized, installState, mLockCount, unpackedPath>>

Uninstall(u) ==
  /\ chosen[u] # Idle
  /\ chosen' = [chosen EXCEPT ![u] = Idle]
  /\ UNCHANGED <<cacheInitialized, mLockCount, unpackedPath>>
  /\ \E state \in UninstallOutcome(installState, mLockCount, chosen[u]) : installState' = state

(* Lock: the library is asked only for the first lock.                      *)
Lock(v) ==
  /\ cacheInitialized /\ installState[v] # NotFound
  /\ mLockCount[v] < MaxLocks
  /\ mLockCount' = [mLockCount EXCEPT ![v] = @ + 1]
  /\ unpackedPath' = [unpackedPath EXCEPT ![v] = @ \/ mLockCount[v] = 0]
  /\ UNCHANGED <<cacheInitialized, installState, chosen>>

(* Slip: the count is looked at before it is decremented.                   *)
LocksBefore(v) == mLockCount[v] > 0

LocksLeft(v) == mLockCount[v] > 1

(* The last Unlock of a version completes the first blocked operation of    *)
(* the package.                                                             *)
Unlock(v) ==
  /\ cacheInitialized /\ mLockCount[v] > 0
  /\ mLockCount' = [mLockCount EXCEPT ![v] = @ - 1]
  /\ LET b == GetBlockedVersion(installState) IN
     IF LocksLeft(v) \/ b = NoVersion THEN UNCHANGED <<installState, unpackedPath>>
     ELSE /\ unpackedPath' = [unpackedPath EXCEPT ![b] = FALSE]
          /\ IF installState[b] = "INSTALLATION_BLOCKED"
             THEN \E r \in InstallOutcome(installState, b) :
                    installState' = IF r.ok THEN [r.state EXCEPT ![v] = "UNINSTALLED"]
                                    ELSE r.state
             ELSE \E state \in UninstallOutcome(installState, mLockCount',
                                                GetInstalledVersion(installState)) :
                    installState' = state
  /\ UNCHANGED <<cacheInitialized, chosen>>

-----------------------------------------------------------------------------
Next ==
  \/ InitializeState
  \/ \E v \in Version : Install(v) \/ Lock(v) \/ Unlock(v)
  \/ \E u \in Uninstaller : ChooseVersion(u) \/ Uninstall(u)

Spec == Init /\ [][Next]_packageVars
-----------------------------------------------------------------------------
(* A version is given up only when nobody holds a lock on it: not by        *)
(* Uninstall, not when a delayed install of another version takes its place *)
(* (PackageManagerImplementation::Uninstall, Unlock).                       *)
UninstalledOnlyUnlocked ==
  [][\A v \in Version :
       installState'[v] = "UNINSTALLED" /\ installState[v] # "UNINSTALLED"
         => mLockCount'[v] = 0]_packageVars
=============================================================================
