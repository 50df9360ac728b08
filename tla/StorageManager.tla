--------------------------- MODULE StorageManager ---------------------------
(* The StorageManager plugin (RequestHandler): the storage an application   *)
(* is promised, the directory that holds it, and the copy of the promise in *)
(* the PersistentStore from which the plugin starts again.  Every call holds*)
(* mStorageManagerImplLock and is one step.                                 *)
EXTENDS Integers, FiniteSetsExt

CONSTANTS
  App,
  Size,           \* the sizes asked for, in KB
  Capacity,       \* what the file system holds, in KB
  Failing         \* what may fail, and where the process may be killed

SizeAssumption == Size \subseteq Nat /\ Capacity \in Nat
StorageFailingAssumption ==
  Failing \subseteq {"mkdir", "rmdir", "nftw", "stat", "GET", "SET", "DELETE", "kill"}

VARIABLES
  mStorageAppInfo,      \* quotaKB of an application's entry
  quotaSize,            \* PersistentStore: the property quotaSize
  usedKB,               \* what the application's directory holds
  failed                \* history: whose quota was last SET, or read by a start, in vain

storageVars == <<mStorageAppInfo, quotaSize, usedKB, failed>>

None == -1              \* no entry, no property, no directory

Count == 0..Capacity
Amount == Size \cup {None, 0}

TypeOK ==
  /\ mStorageAppInfo \in [App -> Amount]
  /\ quotaSize \in [App -> Amount]
  /\ usedKB \in [App -> Count \cup {None}]
  /\ failed \subseteq App

Init ==
  /\ mStorageAppInfo = [a \in App |-> None]
  /\ quotaSize = [a \in App |-> None]
  /\ usedKB = [a \in App |-> None]
  /\ failed = {}

MayFail(c) == IF c \in Failing THEN BOOLEAN ELSE {TRUE}

-----------------------------------------------------------------------------
Used(a) == IF usedKB[a] = None THEN 0 ELSE usedKB[a]

f_bfree == Capacity - MapThenSumSet(Used, App)

(* What an entry still reserves; of a directory that is gone nothing is used.*)
Reserved(info, a) == IF info[a] > Used(a) THEN info[a] - Used(a) ELSE 0

ReservationSpaceKB(info) == MapThenSumSet(LAMBDA a : Reserved(info, a), App)

(* Slip: only what is free now counts.                                      *)
FreeNow(info, requiredSpaceKB) == f_bfree >= requiredSpaceKB

hasEnoughStorageFreeSpace(info, requiredSpaceKB) ==
  f_bfree - ReservationSpaceKB(info) >= requiredSpaceKB

(* removeAppStorageInfoByAppID: the entry, and the property if the          *)
(* PersistentStore deletes it.                                              *)
Removed(f, a) == [f EXCEPT ![a] = None]

DeleteProperty(a) ==
  \E done \in MayFail("DELETE") : quotaSize' = IF done THEN Removed(quotaSize, a) ELSE quotaSize

(* The same of an entry that may not be there.                              *)
ForgetProperty(a) ==
  IF mStorageAppInfo[a] = None THEN UNCHANGED quotaSize ELSE DeleteProperty(a)

-----------------------------------------------------------------------------
(* Slip: only a new entry is made persistent.                               *)
SetNewProperty(a, size) ==
  quotaSize' = IF mStorageAppInfo[a] = None THEN [quotaSize EXCEPT ![a] = size] ELSE quotaSize

SetProperty(a, size) == quotaSize' = [quotaSize EXCEPT ![a] = size]

(* CreateStorage, of another quota than the application has: an entry with  *)
(* another quota or whose directory is gone is removed first, and stays     *)
(* removed when there is no room or mkdir fails.  The new quota is made     *)
(* persistent last.                                                         *)
CreateStorage(a, size) ==
  /\ ~(mStorageAppInfo[a] = size /\ usedKB[a] # None)
  /\ LET info == Removed(mStorageAppInfo, a) IN
     \E made \in (IF usedKB[a] = None THEN MayFail("mkdir") ELSE {TRUE}) :
       IF hasEnoughStorageFreeSpace(info, size) /\ made
       THEN /\ mStorageAppInfo' = [info EXCEPT ![a] = size]
            /\ usedKB' = [usedKB EXCEPT ![a] = Used(a)]
            /\ \/ SetProperty(a, size) /\ failed' = failed \ {a}
               \/ "SET" \in Failing /\ ForgetProperty(a) /\ failed' = failed \cup {a}
       ELSE /\ mStorageAppInfo' = info
            /\ ForgetProperty(a)
            /\ UNCHANGED <<usedKB, failed>>

(* GetStorage: the entry of a directory that is gone is removed.            *)
GetStorage(a) ==
  /\ mStorageAppInfo[a] # None /\ usedKB[a] = None
  /\ mStorageAppInfo' = Removed(mStorageAppInfo, a)
  /\ DeleteProperty(a)
  /\ UNCHANGED <<usedKB, failed>>

(* deleteDirectoryEntries: the entries of S, as far as nftw gets.           *)
deleteDirectoryEntries(S) ==
  usedKB' \in {[a \in App |-> IF a \in S /\ usedKB[a] > left[a] THEN left[a] ELSE usedKB[a]] :
                 left \in [App -> IF "nftw" \in Failing THEN Count ELSE {0}]}

(* Clear and ClearAll (of all but the exempted); directories without an     *)
(* entry are not cleared.                                                   *)
Clear(S) ==
  /\ deleteDirectoryEntries({a \in S : mStorageAppInfo[a] # None})
  /\ UNCHANGED <<mStorageAppInfo, quotaSize, failed>>

(* DeleteStorage: the directory is emptied and removed, then the entry, then*)
(* the property.                                                            *)
DeleteStorage(a) ==
  /\ mStorageAppInfo[a] # None /\ usedKB[a] # None
  /\ UNCHANGED failed
  /\ \/ /\ usedKB' = Removed(usedKB, a)
        /\ mStorageAppInfo' = Removed(mStorageAppInfo, a)
        /\ DeleteProperty(a)
     \/ /\ {"nftw", "rmdir"} \cap Failing # {}
        /\ deleteDirectoryEntries({a})
        /\ UNCHANGED <<mStorageAppInfo, quotaSize>>

-----------------------------------------------------------------------------
(* populateAppInfoCacheFromStoragePath over the directories and properties  *)
(* there are then: a directory that cannot be looked at gets no entry, and  *)
(* one whose property is not there or cannot be read is given a quota of 0. *)
Restored(persisted, a) == IF persisted[a] = None THEN 0 ELSE persisted[a]

Populated(persisted, used, skipped, unread) ==
  [a \in App |-> IF used[a] = None \/ a \in skipped THEN None
                ELSE IF a \in unread THEN 0 ELSE Restored(persisted, a)]

Populate(persisted, used) ==
  \E skipped \in (IF "stat" \in Failing THEN SUBSET App ELSE {{}}),
     unread \in (IF "GET" \in Failing THEN SUBSET App ELSE {{}}) :
    /\ mStorageAppInfo' = Populated(persisted, used, skipped, unread)
    /\ failed' = unread

populateAppInfoCacheFromStoragePath ==
  /\ UNCHANGED <<quotaSize, usedKB>>
  /\ Populate(quotaSize, usedKB)

(* The process is killed in CreateStorage, with the directory made and the  *)
(* property of the former quota removed, and starts again.  A property left *)
(* over from a directory that was lost is taken for the new one's.          *)
KilledInCreateStorage(a, size) ==
  /\ "kill" \in Failing
  /\ ~(mStorageAppInfo[a] = size /\ usedKB[a] # None)
  /\ hasEnoughStorageFreeSpace(Removed(mStorageAppInfo, a), size)
  /\ usedKB' = [usedKB EXCEPT ![a] = Used(a)]
  /\ ForgetProperty(a)
  /\ Populate(quotaSize', usedKB')

(* It is killed in DeleteStorage, with the directory removed and its        *)
(* property still there.                                                    *)
KilledInDeleteStorage(a) ==
  /\ "kill" \in Failing
  /\ mStorageAppInfo[a] # None /\ usedKB[a] # None
  /\ usedKB' = Removed(usedKB, a)
  /\ UNCHANGED quotaSize
  /\ Populate(quotaSize', usedKB')

Start ==
  \/ populateAppInfoCacheFromStoragePath
  \/ \E a \in App : KilledInDeleteStorage(a) \/ \E size \in Size : KilledInCreateStorage(a, size)

(* An application writes, within its quota; a directory is lost.            *)
Write(a) ==
  /\ usedKB[a] # None /\ usedKB[a] < mStorageAppInfo[a] /\ f_bfree > 0
  /\ usedKB' = [usedKB EXCEPT ![a] = @ + 1]
  /\ UNCHANGED <<mStorageAppInfo, quotaSize, failed>>

LoseDirectory(a) ==
  /\ usedKB[a] # None
  /\ usedKB' = Removed(usedKB, a)
  /\ UNCHANGED <<mStorageAppInfo, quotaSize, failed>>

Next ==
  \/ \E a \in App :
       \/ \E size \in Size : CreateStorage(a, size)
       \/ GetStorage(a) \/ DeleteStorage(a) \/ Write(a) \/ LoseDirectory(a)
  \/ \E S \in SUBSET App : Clear(S)
  \/ Start

Spec == Init /\ [][Next]_storageVars
-----------------------------------------------------------------------------
(* What the applications were promised and have not used yet fits on the    *)
(* file system.                                                             *)
NoOvercommit == ReservationSpaceKB(mStorageAppInfo) <= f_bfree

(* No call overcommits the file system, whatever fails in it, whichever     *)
(* directories were lost before, and whatever the last start took for the   *)
(* quotas.  A start alone may, and only by giving an application more than  *)
(* it had: the quota of a directory that is gone, that an earlier start     *)
(* could not read, or that the PersistentStore did not replace              *)
(* (RequestHandler::hasEnoughStorageFreeSpace, CreateStorage,               *)
(* populateAppInfoCacheFromStoragePath).                                    *)
CallsDoNotOvercommit ==
  [][NoOvercommit => \/ NoOvercommit'
                     \/ Start /\ \E a \in App : mStorageAppInfo'[a] > mStorageAppInfo[a]]_storageVars

(* An application that a start finds, and whose quota it can read, is given *)
(* neither more nor less than it had: the property and the entry agree,     *)
(* through failed enlargements, deletions that fail, lost directories and   *)
(* kills, of every application but those whose quota was last set, or read  *)
(* by a start, in vain (RequestHandler::CreateStorage,                      *)
(* removeAppStorageInfoByAppID, populateAppInfoCacheFromStoragePath).       *)
RestartKeepsQuota ==
  \A a \in App \ failed : mStorageAppInfo[a] # None => mStorageAppInfo[a] = Restored(quotaSize, a)
=============================================================================
