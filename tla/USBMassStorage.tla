--------------------------- MODULE USBMassStorage ----------------------------
(* The mounts of USB devices and what USBMassStorageImplementation records  *)
(* of them.  Jobs of the worker pool hold _adminLock throughout, so there is*)
(* one at a time; MountDevicesOnBootUp and the calls of clients take no     *)
(* lock.  The kernel and the USBDevice plugin are external; names of devices*)
(* and their paths are one thing, all of them are mass storages, and the    *)
(* order of a list is left out, as are notifications and GetPartitionInfo.  *)
EXTENDS Naturals, FiniteSets

CONSTANTS
  Device, Partition,
  PartitionsOf,   \* what /proc/partitions lists of a device, of which one is mounted at a time
  MountPath,      \* the numbers of the directories /tmp/media/usb<n>, a bound
  Client,         \* threads that make one call each
  MaxPlugs,       \* bound on the times that devices are plugged in and out
  Failing         \* "mkdir", "mount", "umount", "rmdir": what may fail

DeviceAssumption ==
  /\ Device # {} /\ Partition # {} /\ PartitionsOf \in [Device -> SUBSET Partition]
  /\ MountPath # {} /\ MountPath \subseteq Nat
ThreadsAssumption ==
  /\ {"boot", "job"} \cap Client = {} /\ MaxPlugs \in Nat
  /\ Failing \subseteq {"mkdir", "mount", "umount", "rmdir"}

Thread == {"boot", "job"} \cup Client
Event  == {"MOUNT", "UNMOUNT"}
Mount  == [partitionName : Partition, mountPath : MountPath]

NoMount == CHOOSE m \in Mount : TRUE

VARIABLES
  usbStorageMountInfo,   \* the records of each device
  entries,               \* the devices with an entry in usbStorageMountInfo, maybe an empty one
  usbStorageDeviceInfo,  \* how often each device is listed
  at, device, success,
  partitions,            \* the partitions that DeviceMount still has to mount
  mountInfo,             \* the one it is mounting, and where
  seen,                  \* the records that DispatchUnMountEvent has gone past
  todo,                  \* the devices left to MountDevicesOnBootUp
  jobs,                  \* how many of each are in the worker pool
  aborted,
  plugged, directories, mounted, plugs   \* external

listVars   == <<usbStorageMountInfo, entries, usbStorageDeviceInfo>>
deviceMountVars == <<success, partitions, mountInfo>>
kernelVars == <<directories, mounted>>
plugVars   == <<jobs, plugged, plugs>>
usbVars == <<listVars, at, device, deviceMountVars, seen, todo, aborted, kernelVars, plugVars>>

TypeOK ==
  /\ usbStorageMountInfo \in [Device -> SUBSET Mount] /\ entries \subseteq Device
  /\ usbStorageDeviceInfo \in [Device -> Nat]
  /\ at \in [Thread -> {"idle", "partitions", "partition", "mkdir", "mount", "record",
                        "mounted", "find", "umount", "erase", "push", "list", "returned"}]
  /\ device \in [Thread -> Device] /\ success \in [Thread -> BOOLEAN]
  /\ partitions \in [Thread -> SUBSET Partition] /\ mountInfo \in [Thread -> Mount]
  /\ seen \subseteq Mount /\ todo \subseteq Device
  /\ jobs \in [Event \X Device -> Nat] /\ aborted \in BOOLEAN
  /\ plugged \subseteq Device /\ directories \subseteq MountPath /\ mounted \subseteq Mount
  /\ plugs \in Nat

Init ==
  /\ usbStorageMountInfo = [d \in Device |-> {}] /\ entries = {}
  /\ usbStorageDeviceInfo = [d \in Device |-> 0]
  /\ at = [t \in Thread |-> IF t = "boot" THEN "list" ELSE "idle"]
  /\ device = [t \in Thread |-> CHOOSE d \in Device : TRUE]
  /\ mountInfo = [t \in Thread |-> NoMount]
  /\ success = [t \in Thread |-> FALSE] /\ partitions = [t \in Thread |-> {}]
  /\ seen = {} /\ todo = {} /\ aborted = FALSE
  /\ jobs = [j \in Event \X Device |-> 0]
  /\ plugged \in SUBSET Device /\ directories = {} /\ mounted = {} /\ plugs = 0
-----------------------------------------------------------------------------
Goto(t, from, to) == at[t] = from /\ at' = [at EXCEPT ![t] = to]

(* A device is plugged in or out and the plugin told.  OnDevicePluggedIn    *)
(* looks for the mounts of a device without a name, so none counts as       *)
(* mounted already.                                                         *)
OnDevicePluggedIn(d) ==
  /\ d \notin plugged /\ plugs < MaxPlugs
  /\ plugged' = plugged \cup {d} /\ plugs' = plugs + 1
  /\ jobs' = [jobs EXCEPT ![<<"MOUNT", d>>] = @ + 1]
  /\ UNCHANGED <<listVars, at, device, deviceMountVars, seen, todo, aborted, kernelVars>>

OnDevicePluggedOut(d) ==
  /\ d \in plugged /\ plugs < MaxPlugs
  /\ plugged' = plugged \ {d} /\ plugs' = plugs + 1
  /\ jobs' = [jobs EXCEPT ![<<"UNMOUNT", d>>] = @ + 1]
  /\ UNCHANGED <<listVars, at, device, deviceMountVars, seen, todo, aborted, kernelVars>>
-----------------------------------------------------------------------------
(* DeviceMount: of each partition in turn, to the first number that is free.*)
ReadPartitions(t) ==
  /\ Goto(t, "partitions", "partition")
  /\ partitions' = [partitions EXCEPT ![t] = IF device[t] \in plugged
                                             THEN PartitionsOf[device[t]] ELSE {}]
  /\ success' = [success EXCEPT ![t] = FALSE]
  /\ UNCHANGED <<listVars, device, mountInfo, seen, todo, aborted, kernelVars, plugVars>>

NextPartition(t) ==
  /\ Goto(t, "partition", "mkdir")
  /\ \E p \in partitions[t], i \in MountPath \ directories :
       /\ \A j \in MountPath : j < i => j \in directories
       /\ mountInfo' = [mountInfo EXCEPT ![t] = [partitionName |-> p, mountPath |-> i]]
       /\ partitions' = [partitions EXCEPT ![t] = @ \ {p}]
  /\ UNCHANGED <<listVars, device, success, seen, todo, aborted, kernelVars, plugVars>>

LastPartition(t) ==
  /\ partitions[t] = {}
  /\ Goto(t, "partition", "mounted")
  /\ mountInfo' = [mountInfo EXCEPT ![t] = NoMount]
  /\ UNCHANGED <<listVars, device, success, partitions, seen, todo, aborted, kernelVars, plugVars>>

(* Slip: a directory that is there already is taken.                        *)
MkdirUnchecked(t) ==
  /\ Goto(t, "mkdir", "mount")
  /\ directories' = directories \cup {mountInfo[t].mountPath}
  /\ UNCHANGED <<listVars, device, deviceMountVars, seen, todo, aborted, mounted, plugVars>>

Mkdir(t) ==
  /\ at[t] = "mkdir"
  /\ \/ /\ mountInfo[t].mountPath \notin directories
        /\ at' = [at EXCEPT ![t] = "mount"]
        /\ directories' = directories \cup {mountInfo[t].mountPath}
     \/ /\ "mkdir" \in Failing \/ mountInfo[t].mountPath \in directories
        /\ at' = [at EXCEPT ![t] = "partition"]
        /\ UNCHANGED directories
  /\ UNCHANGED <<listVars, device, deviceMountVars, seen, todo, aborted, mounted, plugVars>>

(* The directory is removed when nothing gets mounted.                      *)
DoMount(t) ==
  /\ at[t] = "mount"
  /\ \/ /\ device[t] \in plugged
        /\ at' = [at EXCEPT ![t] = "record"]
        /\ mounted' = mounted \cup {mountInfo[t]}
        /\ UNCHANGED directories
     \/ /\ "mount" \in Failing \/ device[t] \notin plugged
        /\ at' = [at EXCEPT ![t] = "partition"]
        /\ \/ directories' = directories \ {mountInfo[t].mountPath}
           \/ "rmdir" \in Failing /\ UNCHANGED directories
        /\ UNCHANGED mounted
  /\ UNCHANGED <<listVars, device, deviceMountVars, seen, todo, aborted, plugVars>>

Unmounting(d) == at["job"] \in {"umount", "erase"} /\ device["job"] = d

(* What two threads do to the lists at once is undefined: a record may get  *)
(* lost, or the process end.                                                *)
Racing(t) ==
  \E u \in Thread \ {t} : at[u] \in {"record", "mounted", "find", "umount", "erase"}

Record(t) ==
  /\ Goto(t, "record", "partition")
  /\ success' = [success EXCEPT ![t] = TRUE]
  /\ \/ /\ usbStorageMountInfo' = [usbStorageMountInfo EXCEPT ![device[t]] = @ \cup {mountInfo[t]}]
        /\ entries' = entries \cup {device[t]}
        /\ seen' = IF Unmounting(device[t]) THEN seen \ {mountInfo[t]} ELSE seen
        /\ UNCHANGED aborted
     \/ /\ Racing(t)
        /\ aborted' \in BOOLEAN
        /\ UNCHANGED <<usbStorageMountInfo, entries, seen>>
  /\ UNCHANGED <<usbStorageDeviceInfo, device, partitions, mountInfo, todo, kernelVars, plugVars>>
-----------------------------------------------------------------------------
(* Dispatch                                                                 *)
TakeJob(e, d) ==
  /\ jobs[<<e, d>>] > 0
  /\ Goto("job", "idle", IF e = "MOUNT" THEN "partitions" ELSE "find")
  /\ device' = [device EXCEPT !["job"] = d]
  /\ jobs' = [jobs EXCEPT ![<<e, d>>] = @ - 1]
  /\ UNCHANGED <<listVars, deviceMountVars, seen, todo, aborted, kernelVars, plugged, plugs>>

(* A device that has been mounted is listed, once more if it was before.    *)
DispatchMountEvent ==
  LET d == device["job"]
  IN  /\ Goto("job", "mounted", "idle")
      /\ entries' = IF success["job"] THEN entries \cup {d} ELSE entries
      /\ usbStorageDeviceInfo' = [usbStorageDeviceInfo EXCEPT
           ![d] = IF success["job"] /\ usbStorageMountInfo[d] # {} THEN @ + 1 ELSE @]
      /\ UNCHANGED <<usbStorageMountInfo, device, deviceMountVars, seen, todo, aborted,
                     kernelVars, plugVars>>

OneLess(n) == IF n = 0 THEN 0 ELSE n - 1

DispatchUnMountEvent ==
  LET d == device["job"]
  IN  /\ Goto("job", "find", IF d \in entries THEN "umount" ELSE "idle")
      /\ usbStorageDeviceInfo' = [usbStorageDeviceInfo EXCEPT
                                    ![d] = IF d \in entries THEN @ ELSE OneLess(@)]
      /\ seen' = {} /\ success' = [success EXCEPT !["job"] = FALSE]
      /\ UNCHANGED <<usbStorageMountInfo, entries, device, partitions, mountInfo, todo, aborted,
                     kernelVars, plugVars>>

(* Until its directory is removed too, nobody takes the number.             *)
Umount ==
  /\ at["job"] = "umount"
  /\ \E m \in usbStorageMountInfo[device["job"]] \ seen :
       /\ seen' = seen \cup {m}
       /\ \/ /\ m \in mounted
             /\ mounted' = mounted \ {m}
             /\ \/ directories' = directories \ {m.mountPath}
                \/ "rmdir" \in Failing /\ UNCHANGED directories
             /\ success' = [success EXCEPT !["job"] = TRUE]
          \/ /\ "umount" \in Failing \/ m \notin mounted
             /\ UNCHANGED <<kernelVars, success>>
  /\ UNCHANGED <<listVars, at, device, partitions, mountInfo, todo, aborted, plugVars>>

LastUmount ==
  /\ usbStorageMountInfo[device["job"]] \subseteq seen
  /\ Goto("job", "umount", "erase")
  /\ UNCHANGED <<listVars, device, deviceMountVars, seen, todo, aborted, kernelVars, plugVars>>

(* All records go if one mount has gone.                                    *)
EraseEntry ==
  LET d == device["job"]
  IN  /\ Goto("job", "erase", "idle")
      /\ IF success["job"]
         THEN /\ usbStorageMountInfo' = [usbStorageMountInfo EXCEPT ![d] = {}]
              /\ entries' = entries \ {d}
              /\ usbStorageDeviceInfo' = [usbStorageDeviceInfo EXCEPT ![d] = OneLess(@)]
         ELSE UNCHANGED listVars
      /\ seen' = {}
      /\ UNCHANGED <<device, deviceMountVars, todo, aborted, kernelVars, plugVars>>
-----------------------------------------------------------------------------
(* MountDevicesOnBootUp, when the plugin is already told of events.         *)
ListDevices ==
  /\ Goto("boot", "list", "push")
  /\ todo' = plugged
  /\ UNCHANGED <<listVars, device, deviceMountVars, seen, aborted, kernelVars, plugVars>>

MountDevicesOnBootUp ==
  \/ \E d \in todo :
       /\ Goto("boot", "push", "partitions")
       /\ todo' = todo \ {d}
       /\ device' = [device EXCEPT !["boot"] = d]
       /\ usbStorageDeviceInfo' = [usbStorageDeviceInfo EXCEPT ![d] = @ + 1]
       /\ UNCHANGED <<usbStorageMountInfo, entries, deviceMountVars, seen, aborted, kernelVars,
                      plugVars>>
  \/ /\ \/ Goto("boot", "mounted", "push")
        \/ todo = {} /\ Goto("boot", "push", "returned")
     /\ UNCHANGED <<listVars, device, deviceMountVars, seen, todo, aborted, kernelVars,
                    plugVars>>

(* GetMountPoints mounts a device that is listed and has no entry.          *)
GetMountPoints(c, d) ==
  /\ Goto(c, "idle", "find")
  /\ device' = [device EXCEPT ![c] = d]
  /\ UNCHANGED <<listVars, deviceMountVars, seen, todo, aborted, kernelVars, plugVars>>

FindMountPoints(c) ==
  /\ Goto(c, "find", IF device[c] \notin entries /\ usbStorageDeviceInfo[device[c]] > 0
                     THEN "partitions" ELSE "returned")
  /\ UNCHANGED <<listVars, device, deviceMountVars, seen, todo, aborted, kernelVars, plugVars>>

(* The answer is read with operator[], which adds an entry.                 *)
AnswerMountPoints(c) ==
  /\ Goto(c, "mounted", "returned")
  /\ entries' = IF success[c] THEN entries \cup {device[c]} ELSE entries
  /\ UNCHANGED <<usbStorageMountInfo, usbStorageDeviceInfo, device, deviceMountVars, seen, todo,
                 aborted, kernelVars, plugVars>>

(* GetDeviceList asks the USBDevice plugin when it knows no device.         *)
GetDeviceList(c) ==
  /\ Goto(c, "idle", IF \A d \in Device : usbStorageDeviceInfo[d] = 0 THEN "push" ELSE "returned")
  /\ UNCHANGED <<listVars, device, deviceMountVars, seen, todo, aborted, kernelVars, plugVars>>

PushDevices(c) ==
  /\ Goto(c, "push", "returned")
  /\ usbStorageDeviceInfo' = [d \in Device |-> IF d \in plugged THEN usbStorageDeviceInfo[d] + 1
                                               ELSE usbStorageDeviceInfo[d]]
  /\ UNCHANGED <<usbStorageMountInfo, entries, device, deviceMountVars, seen, todo, aborted,
                 kernelVars, plugVars>>
-----------------------------------------------------------------------------
DeviceMount(t) ==
  \/ ReadPartitions(t) \/ NextPartition(t) \/ LastPartition(t)
  \/ Mkdir(t) \/ DoMount(t) \/ Record(t)

Dispatch ==
  \/ \E e \in Event, d \in Device : TakeJob(e, d)
  \/ DispatchMountEvent \/ DispatchUnMountEvent \/ Umount \/ LastUmount \/ EraseEntry

Calls(c) ==
  \/ \E d \in Device : GetMountPoints(c, d)
  \/ FindMountPoints(c) \/ AnswerMountPoints(c) \/ GetDeviceList(c) \/ PushDevices(c)

Next ==
  /\ ~aborted
  /\ \/ \E d \in Device : OnDevicePluggedIn(d) \/ OnDevicePluggedOut(d)
     \/ \E t \in Thread : DeviceMount(t)
     \/ Dispatch \/ ListDevices \/ MountDevicesOnBootUp
     \/ \E c \in Client : Calls(c)

Spec == Init /\ [][Next]_usbVars
-----------------------------------------------------------------------------
(* The records that count: not those that are about to be erased because    *)
(* DispatchUnMountEvent has gone past them and unmounted one.               *)
Live(d) == IF Unmounting(d) /\ success["job"] THEN usbStorageMountInfo[d] \ seen
           ELSE usbStorageMountInfo[d]

(* What is recorded of a device is mounted, and mounted nowhere else and for*)
(* no other device, though boot-up, jobs and calls mount at the same time,  *)
(* devices come and go and each call of the kernel may fail: GetMountPoints *)
(* and GetPartitionInfo give out no path of something else (DeviceMount,    *)
(* DispatchUnMountEvent).                                                   *)
RecordedIsMounted ==
  /\ \A d \in Device : Live(d) \subseteq mounted
  /\ \A m, n \in mounted : m.mountPath = n.mountPath => m = n
  /\ \A d, e \in Device : d # e => Live(d) \cap Live(e) = {}
=============================================================================
