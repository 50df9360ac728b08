------------------------------ MODULE Services -------------------------------
(* The safety of plugins that share no state and do not call one another: a *)
(* behaviour is a behaviour of one of them, `service', while the others stay*)
(* as they begin.                                                           *)
EXTENDS Naturals

CONSTANTS
  (* PackageManager *)
  PackageVersion, Uninstaller, MaxLocks, PackageFailing,
  (* StorageManager *)
  StorageApp, Size, Capacity, StorageFailing,
  (* RuntimeManager *)
  RuntimeApp, Inst, RuntimeAppOf, NumUids, MinPool, RuntimeFailing,
  (* PersistentStore *)
  Ns, Key, Length, StoreThread, maxSize, limit, Limit, StoreFailing,
  (* PreinstallManager *)
  Package, VersionOrder, MaxFiles, PreinstallState,
  (* RDKShell *)
  ShellApp, ShellCall, ShellAppOf, KindOf, Installed, Workers, ShellFailing,
  (* USBMassStorage *)
  Device, Partition, PartitionsOf, MountPath, Client, MaxPlugs, UsbFailing

VARIABLES
  service,
  (* StatePathWalk *)
  from, to, left,
  (* PackageManager *)
  cacheInitialized, installState, mLockCount, unpackedPath, chosen,
  (* StorageManager *)
  mStorageAppInfo, quotaSize, usedKB, failed,
  (* RuntimeManager *)
  mOciContainerObject, mUserIdAvailablePool, mUserIdMap, mRuntimeAppInfo, status, container,
  uid, jobs, told,
  (* PersistentStore *)
  tables, backup, corrupt, start, caller,
  (* PreinstallManager *)
  mState, forceInstall, preinstallPackages, at, installError, directory, listed, tried,
  (* RDKShell *)
  gLaunchApplications, gDestroyApplications, gExternalDestroyApplications, gActivePluginsData,
  gStateNotifications, gDestroyMutex, gCreateDisplayRequests, gKillClientRequests, posted, pc,
  launchType, retried, result, running, plugin, clients, undisplayed, untimely,
  (* USBMassStorage, names it shares with the others prefixed *)
  usbStorageMountInfo, entries, usbStorageDeviceInfo, usbAt, device, success, partitions,
  mountInfo, seen, todo, usbJobs, aborted, plugged, directories, mounted, plugs

SP == INSTANCE StatePathWalk
PM == INSTANCE PackageManager WITH Version <- PackageVersion, Failing <- PackageFailing
SM == INSTANCE StorageManager WITH App <- StorageApp, Failing <- StorageFailing
RM == INSTANCE RuntimeManager
        WITH App <- RuntimeApp, AppOf <- RuntimeAppOf, Failing <- RuntimeFailing
PS == INSTANCE PersistentStore WITH Thread <- StoreThread, Failing <- StoreFailing
PI == INSTANCE PreinstallManager WITH InstallState <- PreinstallState
RS == INSTANCE RDKShell
        WITH App <- ShellApp, Call <- ShellCall, AppOf <- ShellAppOf, Failing <- ShellFailing
US == INSTANCE USBMassStorage WITH Failing <- UsbFailing, at <- usbAt, jobs <- usbJobs

ASSUME PackageManagerConstants ==
  PM!VersionAssumption /\ PM!LockBoundAssumption /\ PM!FailingCallAssumption
ASSUME StorageManagerConstants == SM!SizeAssumption /\ SM!StorageFailingAssumption
ASSUME RuntimeManagerConstants ==
  RM!InstanceAssumption /\ RM!UidAssumption /\ RM!RunFailingAssumption
ASSUME PersistentStoreConstants == PS!LengthAssumption /\ PS!MaximumAssumption
ASSUME PreinstallManagerConstants ==
  PI!PackageAssumption /\ PI!VersionOrderAssumption /\ PI!InstallStateAssumption
ASSUME RDKShellConstants == RS!CallAssumption /\ RS!PoolAssumption
ASSUME USBMassStorageConstants == US!DeviceAssumption /\ US!ThreadsAssumption

Service == {"StatePath", "PackageManager", "StorageManager", "RuntimeManager",
            "PersistentStore", "PreinstallManager", "RDKShell", "USBMassStorage"}

pathVars    == <<from, to, left>>
packageVars == <<cacheInitialized, installState, mLockCount, unpackedPath, chosen>>
storageVars == <<mStorageAppInfo, quotaSize, usedKB, failed>>
runtimeVars == <<mOciContainerObject, mUserIdAvailablePool, mUserIdMap, mRuntimeAppInfo,
                 status, container, uid, jobs, told>>
storeVars   == <<tables, backup, corrupt, start, caller>>
preinstallVars == <<mState, forceInstall, preinstallPackages, at, installError, directory,
                    listed, tried>>
shellVars   == <<gLaunchApplications, gDestroyApplications, gExternalDestroyApplications,
                 gActivePluginsData, gStateNotifications, gDestroyMutex, gCreateDisplayRequests,
                 gKillClientRequests, posted, pc, launchType, retried, result, running, plugin,
                 clients, undisplayed, untimely>>
usbVars     == <<usbStorageMountInfo, entries, usbStorageDeviceInfo, usbAt, device, success,
                 partitions, mountInfo, seen, todo, usbJobs, aborted, plugged, directories,
                 mounted, plugs>>
vars == <<service, pathVars, packageVars, storageVars, runtimeVars, storeVars, preinstallVars,
          shellVars, usbVars>>

TypeOK == PM!TypeOK /\ SM!TypeOK /\ RM!TypeOK /\ PS!TypeOK /\ PI!TypeOK /\ RS!TypeOK
          /\ US!TypeOK

Init ==
  /\ service \in Service
  /\ SP!Init /\ (service # "StatePath" => from = "ACTIVE" /\ to = "ACTIVE")
  /\ PM!Init /\ SM!Init /\ RM!Init /\ PS!Init
  /\ PI!Init /\ RS!Init
  /\ US!Init /\ (service # "USBMassStorage" => plugged = {})
  /\ service # "PreinstallManager" =>
       directory = <<>> /\ ~forceInstall /\ \A p \in Package : \A v \in PI!Version :
                                               mState[p][v] = "INSTALLED"

(* Steps of s alone.                                                        *)
Only(s) ==
  /\ service = s /\ UNCHANGED service
  /\ s # "StatePath"       => UNCHANGED pathVars
  /\ s # "PackageManager"  => UNCHANGED packageVars
  /\ s # "StorageManager"  => UNCHANGED storageVars
  /\ s # "RuntimeManager"  => UNCHANGED runtimeVars
  /\ s # "PersistentStore" => UNCHANGED storeVars
  /\ s # "PreinstallManager" => UNCHANGED preinstallVars
  /\ s # "RDKShell"        => UNCHANGED shellVars
  /\ s # "USBMassStorage"  => UNCHANGED usbVars

Next ==
  \/ Only("StatePath")       /\ SP!Advance
  \/ Only("PackageManager")  /\ PM!Next
  \/ Only("StorageManager")  /\ SM!Next
  \/ Only("RuntimeManager")  /\ RM!Next
  \/ Only("PersistentStore") /\ PS!Next
  \/ Only("PreinstallManager") /\ PI!Next
  \/ Only("RDKShell")        /\ RS!Next
  \/ Only("USBMassStorage")  /\ US!Next

Spec == Init /\ [][Next]_vars
-----------------------------------------------------------------------------
(* The properties of the plugins, stated where they are modelled.           *)
FoundIffReachable       == service = "StatePath" => SP!FoundIffReachable
NotActivatedToTerminate == SP!NotActivatedToTerminate
UninstalledOnlyUnlocked == PM!UninstalledOnlyUnlocked
CallsDoNotOvercommit    == SM!CallsDoNotOvercommit
RestartKeepsQuota       == service = "StorageManager" => SM!RestartKeepsQuota
UidNotShared            == service = "RuntimeManager" => RM!UidNotShared
StoreIsBounded          == service = "PersistentStore" => PS!StoreIsBounded
NothingNewerIsLeftOut   == service = "PreinstallManager" => PI!NothingNewerIsLeftOut
ShellKnowsThePlugins    == service = "RDKShell" => RS!ShellKnowsThePlugins
RecordedIsMounted       == service = "USBMassStorage" => US!RecordedIsMounted
=============================================================================
