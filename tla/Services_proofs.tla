--------------------------- MODULE Services_proofs --------------------------
(* Proofs about the plugins that Services composes.  The lemmas about        *)
(* PackageManager, PreinstallManager and USBMassStorage are here; those about*)
(* StorageManager, PersistentStore, RuntimeManager and RDKShell are of the   *)
(* modules that prove about them, instantiated.  Each plugin has an invariant*)
(* that its own next-state relation keeps, a step of Services is one of each *)
(* plugin or leaves it alone (StepOfEach), and the conjunction of the        *)
(* invariants is what the theorems at the end follow from.                   *)
(*                                                                           *)
(* PackageManager: UninstalledOnlyUnlocked needs no more than the types, for *)
(* every step that gives a version up looks at its locks under mtxState.     *)
(* PreinstallManager: PreinstallInv, no package of the directory is forgotten*)
(* between the filter and the last call of Install.                          *)
(* USBMassStorage: UsbInv, a thread that mounts has a directory and, between *)
(* the mount and its record, a mount that no one else has.                   *)
EXTENDS Services, Sequences, SequenceTheorems, WellFoundedInduction, TLAPS

(* PackageManager                                                            *)
(* The first version of a set is a version of it.                           *)
LEMMA FirstIsMember ==
  ASSUME PM!VersionAssumption, NEW S \in SUBSET PackageVersion
  PROVE  PM!First(S) \in S \cup {PM!NoVersion}
<1>1. CASE S = {}
  BY <1>1 DEF PM!First
<1>2. CASE S # {}
  <2>1. S \subseteq Nat
    BY DEF PM!VersionAssumption
  <2>2. PICK v \in S : \A w \in S : ~(<<w, v>> \in OpToRel(<, Nat))
    BY <1>2, <2>1, NatLessThanWellFounded, WFMin, Zenon
  <2>3. \A w \in S : ~(w < v)
    BY <2>1, <2>2, Zenon DEF OpToRel
  <2>4. \A w \in S : v <= w
    BY <2>1, <2>3
  <2> QED
    BY <1>2, <2>4 DEF PM!First
<1> QED
  BY <1>1, <1>2

LEMMA FirstIsVersion ==
  ASSUME PM!VersionAssumption, NEW state
  PROVE  /\ PM!GetInstalledVersion(state) \in PackageVersion \cup {PM!NoVersion}
         /\ PM!GetBlockedVersion(state) \in PackageVersion \cup {PM!NoVersion}
<1>1. /\ {v \in PackageVersion : state[v] \in PM!Blocked \cup {"INSTALLED"}} \in SUBSET PackageVersion
      /\ {v \in PackageVersion : state[v] \in PM!Blocked} \in SUBSET PackageVersion
  OBVIOUS
<1> QED
  BY <1>1, FirstIsMember DEF PM!GetInstalledVersion, PM!GetBlockedVersion

(* What the private Install and Uninstall leave: only the version they are  *)
(* for changes, Install never gives it up, and Uninstall does so only when  *)
(* it has no locks.                                                         *)
LEMMA InstallOutcomes ==
  ASSUME NEW state \in [PackageVersion -> PM!InstallState \cup {PM!NotFound}], NEW v \in PackageVersion,
         NEW r \in PM!InstallOutcome(state, v)
  PROVE  /\ r.state \in [PackageVersion -> PM!InstallState \cup {PM!NotFound}]
         /\ \A w \in PackageVersion : r.state[w] = "UNINSTALLED" => state[w] = "UNINSTALLED"
<1>1. PICK stored \in PM!MayFail("CreateStorage"), done \in PM!MayFail("install") :
        r = IF ~stored THEN [state |-> state, ok |-> FALSE]
            ELSE [state |-> [state EXCEPT ![v] = IF done THEN "INSTALLED" ELSE "INSTALL_FAILURE"],
                  ok |-> done]
  BY DEF PM!InstallOutcome
<1>2. r.state = state
        \/ r.state = [state EXCEPT ![v] = IF done THEN "INSTALLED" ELSE "INSTALL_FAILURE"]
  BY <1>1
<1> QED
  BY <1>2 DEF PM!InstallState

LEMMA UninstallOutcomes ==
  ASSUME NEW state \in [PackageVersion -> PM!InstallState \cup {PM!NotFound}],
         NEW locks \in [PackageVersion -> Nat], NEW v \in PackageVersion \cup {PM!NoVersion},
         PM!VersionAssumption, NEW after \in PM!UninstallOutcome(state, locks, v)
  PROVE  /\ after \in [PackageVersion -> PM!InstallState \cup {PM!NotFound}]
         /\ \A w \in PackageVersion : after[w] = "UNINSTALLED" /\ state[w] # "UNINSTALLED"
                                 => locks[w] = 0
<1>1. CASE v = PM!NoVersion
  BY <1>1 DEF PM!UninstallOutcome
<1>2. CASE v # PM!NoVersion /\ locks[v] > 0
  <2>1. after = [state EXCEPT ![v] = "UNINSTALL_BLOCKED"]
    BY <1>2 DEF PM!UninstallOutcome
  <2> QED
    BY <2>1 DEF PM!InstallState
<1>3. CASE v # PM!NoVersion /\ ~(locks[v] > 0)
  <2>1. after = [state EXCEPT ![v] = "UNINSTALLED"] \/ after = state
    BY <1>3 DEF PM!UninstallOutcome
  <2>2. locks[v] = 0 /\ v \in PackageVersion
    BY <1>3
  <2> QED
    BY <2>1, <2>2 DEF PM!InstallState
<1> QED
  BY <1>1, <1>2, <1>3

(* Every step keeps the types, and gives a version up only without locks.   *)
GivenUpUnlocked ==
  \A v \in PackageVersion :
    installState'[v] = "UNINSTALLED" /\ installState[v] # "UNINSTALLED" => mLockCount'[v] = 0

LEMMA PackageStep ==
  ASSUME PM!VersionAssumption, PM!LockBoundAssumption, PM!TypeOK, PM!Next
  PROVE  PM!TypeOK' /\ GivenUpUnlocked
<1> USE PM!VersionAssumption, PM!LockBoundAssumption DEF PM!LockBoundAssumption, PM!TypeOK, GivenUpUnlocked
<1>1. CASE PM!InitializeState
  BY <1>1 DEF PM!InitializeState, PM!InstallState, PM!NotFound
<1>2. ASSUME NEW v \in PackageVersion, PM!Install(v) PROVE PM!TypeOK' /\ GivenUpUnlocked
  <2> DEFINE installing == [installState EXCEPT ![v] = "INSTALLING"]
  <2>1. installing \in [PackageVersion -> PM!InstallState \cup {PM!NotFound}]
    BY DEF PM!InstallState
  <2>2. \/ installState' = [installState EXCEPT ![v] = "INSTALLATION_BLOCKED"]
        \/ \E r \in PM!InstallOutcome(installing, v) : installState' = r.state
    BY <1>2, Zenon DEF PM!Install
  <2>3. CASE installState' = [installState EXCEPT ![v] = "INSTALLATION_BLOCKED"]
    BY <1>2, <2>3 DEF PM!Install, PM!InstallState
  <2>4. CASE \E r \in PM!InstallOutcome(installing, v) : installState' = r.state
    <3>1. PICK r \in PM!InstallOutcome(installing, v) : installState' = r.state
      BY <2>4
    <3>2. /\ installState' \in [PackageVersion -> PM!InstallState \cup {PM!NotFound}]
          /\ \A w \in PackageVersion : installState'[w] = "UNINSTALLED" => installing[w] = "UNINSTALLED"
      BY <2>1, <3>1, InstallOutcomes, Zenon
    <3>3. \A w \in PackageVersion : installing[w] = "UNINSTALLED" => installState[w] = "UNINSTALLED"
      OBVIOUS
    <3> QED
      BY <1>2, <3>2, <3>3 DEF PM!Install
  <2> QED
    BY <2>2, <2>3, <2>4
<1>3. ASSUME NEW v \in PackageVersion, PM!Lock(v) PROVE PM!TypeOK' /\ GivenUpUnlocked
  BY <1>3 DEF PM!Lock
<1>4. ASSUME NEW v \in PackageVersion, PM!Unlock(v) PROVE PM!TypeOK' /\ GivenUpUnlocked
  <2> DEFINE b == PM!GetBlockedVersion(installState)
  <2>1. /\ mLockCount' = [mLockCount EXCEPT ![v] = @ - 1] /\ mLockCount[v] > 0
        /\ UNCHANGED <<cacheInitialized, chosen>>
    BY <1>4 DEF PM!Unlock
  <2>2. mLockCount' \in [PackageVersion -> 0..MaxLocks] /\ mLockCount' \in [PackageVersion -> Nat]
    BY <2>1
  <2>3. b \in PackageVersion \cup {PM!NoVersion}
    BY FirstIsVersion
  <2>4. CASE PM!LocksLeft(v) \/ b = PM!NoVersion
    <3>1. UNCHANGED <<installState, unpackedPath>>
      BY <1>4, <2>4, Zenon DEF PM!Unlock
    <3> QED
      BY <2>1, <2>2, <3>1
  <2>5. CASE ~PM!LocksLeft(v) /\ b # PM!NoVersion
    <3>1. mLockCount'[v] = 0
      BY <2>1, <2>5 DEF PM!LocksLeft
    <3>2. unpackedPath' \in [PackageVersion -> BOOLEAN]
      <4>1. unpackedPath' = [unpackedPath EXCEPT ![b] = FALSE]
        BY <1>4, <2>5 DEF PM!Unlock
      <4> QED
        BY <4>1, Zenon
    <3>3. CASE installState[b] = "INSTALLATION_BLOCKED"
      <4>1. PICK r \in PM!InstallOutcome(installState, b) :
              installState' = IF r.ok THEN [r.state EXCEPT ![v] = "UNINSTALLED"] ELSE r.state
        BY <1>4, <2>5, <3>3, Zenon DEF PM!Unlock
      <4>2. /\ r.state \in [PackageVersion -> PM!InstallState \cup {PM!NotFound}]
            /\ \A w \in PackageVersion : r.state[w] = "UNINSTALLED" => installState[w] = "UNINSTALLED"
        BY <2>3, <2>5, InstallOutcomes, Zenon
      <4>3. installState' = [r.state EXCEPT ![v] = "UNINSTALLED"] \/ installState' = r.state
        BY <4>1
      <4> QED
        BY <2>1, <2>2, <3>1, <3>2, <4>2, <4>3 DEF PM!InstallState
    <3>4. CASE installState[b] # "INSTALLATION_BLOCKED"
      <4>1. PICK state \in PM!UninstallOutcome(installState, mLockCount',
                                            PM!GetInstalledVersion(installState)) :
              installState' = state
        BY <1>4, <2>5, <3>4, Zenon DEF PM!Unlock
      <4>2. PM!GetInstalledVersion(installState) \in PackageVersion \cup {PM!NoVersion}
        BY FirstIsVersion
      <4>3. /\ installState' \in [PackageVersion -> PM!InstallState \cup {PM!NotFound}]
            /\ \A w \in PackageVersion : installState'[w] = "UNINSTALLED" /\ installState[w] # "UNINSTALLED"
                                    => mLockCount'[w] = 0
        BY <2>2, <4>1, <4>2, UninstallOutcomes, Zenon
      <4> QED
        BY <2>1, <2>2, <3>2, <4>3
    <3> QED
      BY <3>3, <3>4
  <2> QED
    BY <2>4, <2>5
<1>5. ASSUME NEW u \in Uninstaller, PM!ChooseVersion(u) PROVE PM!TypeOK' /\ GivenUpUnlocked
  <2>1. PM!GetInstalledVersion(installState) \in PackageVersion \cup {PM!NoVersion}
    BY FirstIsVersion
  <2> QED
    BY <1>5, <2>1 DEF PM!ChooseVersion
<1>6. ASSUME NEW u \in Uninstaller, PM!Uninstall(u) PROVE PM!TypeOK' /\ GivenUpUnlocked
  <2>1. chosen[u] \in PackageVersion \cup {PM!NoVersion} /\ mLockCount \in [PackageVersion -> Nat]
    BY <1>6 DEF PM!Uninstall
  <2>2. PICK state \in PM!UninstallOutcome(installState, mLockCount, chosen[u]) :
          installState' = state
    BY <1>6 DEF PM!Uninstall
  <2>3. /\ installState' \in [PackageVersion -> PM!InstallState \cup {PM!NotFound}]
        /\ \A w \in PackageVersion : installState'[w] = "UNINSTALLED" /\ installState[w] # "UNINSTALLED"
                                => mLockCount[w] = 0
    BY <2>1, <2>2, UninstallOutcomes, Zenon
  <2> QED
    BY <1>6, <2>3 DEF PM!Uninstall
<1> QED
  BY <1>1, <1>2, <1>3, <1>4, <1>5, <1>6 DEF PM!Next

-----------------------------------------------------------------------------
(* Induction over the natural numbers, for a set instead of an operator.     *)
LEMMA Inductive ==
  ASSUME NEW S, 0 \in S, \A n \in Nat : n \in S => n + 1 \in S
  PROVE  Nat \subseteq S
<1> SUFFICES ASSUME Nat \ S # {} PROVE FALSE
  OBVIOUS
<1>1. PICK n \in Nat \ S : \A m \in Nat \ S : ~(<<m, n>> \in OpToRel(<, Nat))
  BY NatLessThanWellFounded, WFMin, Zenon
<1>2. n - 1 \in Nat /\ n - 1 < n /\ (n - 1) + 1 = n
  OBVIOUS
<1>3. <<n - 1, n>> \in OpToRel(<, Nat)
  BY <1>2 DEF OpToRel
<1> QED
  BY <1>1, <1>2, <1>3

-----------------------------------------------------------------------------
(* PreinstallManager.  What is left of the directory, after the n-th of its  *)
(* packages.                                                                 *)
Keeps(kept, state, packages, n) ==
  kept = [m \in 0..n |-> IF m = 0 THEN <<>>
                         ELSE IF PI!NotNewer(state, packages[m]) THEN kept[m - 1]
                         ELSE Append(kept[m - 1], packages[m])]

LEMMA KeepsExists ==
  ASSUME NEW state, NEW packages, NEW n \in Nat
  PROVE  \E kept : Keeps(kept, state, packages, n)
<1> DEFINE Next1(f, m) == IF m = 0 THEN <<>>
                          ELSE IF PI!NotNewer(state, packages[m]) THEN f[m - 1]
                          ELSE Append(f[m - 1], packages[m])
           Has == {m \in Nat : \E kept : Keeps(kept, state, packages, m)}
<1>1. 0 \in Has
  <2>1. Keeps([m \in 0..0 |-> <<>>], state, packages, 0)
    BY DEF Keeps
  <2> QED BY <2>1
<1>2. ASSUME NEW m \in Nat, m \in Has PROVE m + 1 \in Has
  <2>1. PICK f : Keeps(f, state, packages, m)
    BY <1>2
  <2> DEFINE g == [k \in 0..(m + 1) |-> Next1(f, k)]
  <2>2. \A k \in 0..m : f[k] = g[k]
    <3>1. f = [k \in 0..m |-> Next1(f, k)]
      BY <2>1, Zenon DEF Keeps
    <3>2. \A k \in 0..m : k \in 0..(m + 1)
      OBVIOUS
    <3> HIDE DEF Next1
    <3>3. ASSUME NEW k \in 0..m PROVE f[k] = g[k]
      <4>1. f[k] = Next1(f, k)
        BY <3>1, Zenon
      <4>2. g[k] = Next1(f, k)
        BY <3>2, Zenon
      <4> QED BY <4>1, <4>2
    <3> QED BY <3>3
  <2>3. \A k \in 0..(m + 1) : k # 0 => k - 1 \in 0..m
    OBVIOUS
  <2>4. g = [k \in 0..(m + 1) |-> Next1(g, k)]
    <3> HIDE DEF g
    <3>1. \A k \in 0..(m + 1) : k # 0 => f[k - 1] = g[k - 1]
      BY <2>2, <2>3
    <3>2. \A k \in 0..(m + 1) : Next1(f, k) = Next1(g, k)
      BY <3>1
    <3> HIDE DEF Next1
    <3> QED BY <3>2 DEF g
  <2>5. Keeps(g, state, packages, m + 1)
    BY <2>4, Zenon DEF Keeps
  <2> HIDE DEF g
  <2> QED BY <2>5
<1> HIDE DEF Has
<1>3. n \in Has
  BY <1>1, <1>2, Inductive
<1> QED
  BY <1>3 DEF Has

(* Exactly the packages that are newer are kept.                             *)
LEMMA FilteredKeeps ==
  ASSUME NEW state, NEW packages \in Seq(PI!File)
  PROVE  /\ PI!Filtered(state, packages) \in Seq(PI!File)
         /\ \A k \in 1..Len(packages) :
              PI!NotNewer(state, packages[k])
                \/ \E i \in DOMAIN PI!Filtered(state, packages) :
                     PI!Filtered(state, packages)[i] = packages[k]
<1> DEFINE L == Len(packages)
           kept == CHOOSE f : Keeps(f, state, packages, L)
           In(s, e) == \E i \in DOMAIN s : s[i] = e
           Good == {n \in Nat : n \in 0..L =>
                      /\ kept[n] \in Seq(PI!File)
                      /\ \A k \in 1..n : PI!NotNewer(state, packages[k]) \/ In(kept[n], packages[k])}
<1>1. L \in Nat /\ \A k \in 1..L : packages[k] \in PI!File
  OBVIOUS
<1>2. Keeps(kept, state, packages, L)
  BY <1>1, KeepsExists
<1>3. PI!Filtered(state, packages) = kept[L]
  BY DEF PI!Filtered, Keeps
<1> HIDE DEF kept, L
<1>4. kept[0] = <<>>
  BY <1>1, <1>2 DEF Keeps
<1>5. ASSUME NEW n \in Nat, n + 1 \in 0..L
      PROVE  /\ n \in 0..L /\ n + 1 \in 1..L
             /\ kept[n + 1] = IF PI!NotNewer(state, packages[n + 1]) THEN kept[n]
                              ELSE Append(kept[n], packages[n + 1])
  <2>1. n \in 0..L /\ n + 1 \in 1..L /\ n + 1 # 0 /\ (n + 1) - 1 = n
    BY <1>1, <1>5
  <2> QED BY <1>2, <1>5, <2>1 DEF Keeps
<1>6. 0 \in Good
  <2>1. kept[0] \in Seq(PI!File)
    <3>1. <<>> \in Seq(PI!File)
      OBVIOUS
    <3> QED BY <1>4, <3>1
  <2>2. ~\E k \in 1..0 : TRUE
    OBVIOUS
  <2> QED BY <2>1, <2>2
<1>7. ASSUME NEW n \in Nat, n \in Good PROVE n + 1 \in Good
  <2> SUFFICES ASSUME n + 1 \in 0..L
               PROVE  /\ kept[n + 1] \in Seq(PI!File)
                      /\ \A k \in 1..(n + 1) :
                           PI!NotNewer(state, packages[k]) \/ In(kept[n + 1], packages[k])
    OBVIOUS
  <2>1. /\ kept[n] \in Seq(PI!File)
        /\ \A k \in 1..n : PI!NotNewer(state, packages[k]) \/ In(kept[n], packages[k])
    BY <1>5, <1>7
  <2>2. CASE PI!NotNewer(state, packages[n + 1])
    BY <1>5, <2>1, <2>2
  <2>3. CASE ~PI!NotNewer(state, packages[n + 1])
    <3>1. kept[n + 1] = Append(kept[n], packages[n + 1]) /\ packages[n + 1] \in PI!File
      BY <1>1, <1>5, <2>3
    <3>2. /\ kept[n + 1] \in Seq(PI!File)
          /\ Len(kept[n + 1]) = Len(kept[n]) + 1 /\ Len(kept[n]) \in Nat
          /\ \A i \in 1..Len(kept[n]) : kept[n + 1][i] = kept[n][i]
          /\ kept[n + 1][Len(kept[n]) + 1] = packages[n + 1]
      BY <2>1, <3>1
    <3>3. /\ DOMAIN kept[n] = 1..Len(kept[n])
          /\ DOMAIN kept[n + 1] = 1..(Len(kept[n]) + 1)
      BY <2>1, <3>2
    <3>4. \A e : In(kept[n], e) => In(kept[n + 1], e)
      BY <3>2, <3>3
    <3>5. In(kept[n + 1], packages[n + 1])
      BY <3>2, <3>3
    <3>6. \A k \in 1..(n + 1) : k \in 1..n \/ k = n + 1
      OBVIOUS
    <3> QED BY <2>1, <3>2, <3>4, <3>5, <3>6
  <2> QED BY <2>2, <2>3
<1>8. Nat \subseteq Good
  <2> HIDE DEF Good
  <2> QED BY <1>6, <1>7, Inductive
<1> QED
  BY <1>1, <1>3, <1>8 DEF L

(* Of two versions one is newer or the other is at least as new.             *)
LEMMA NewerOrNot ==
  ASSUME PI!VersionOrderAssumption, NEW v \in PI!Version, NEW w \in PI!Version,
         ~PI!isNewerVersion(v, w)
  PROVE  PI!AtLeastAsNew(w, v)
<1>1. \A x \in PI!Version : x = <<>> \/ (\A k \in 1..4 : x[k] \in Nat)
  <2> SUFFICES ASSUME NEW k \in DOMAIN VersionOrder
               PROVE  LET x == VersionOrder[k] IN x = <<>> \/ \A i \in 1..4 : x[i] \in Nat
    BY DEF PI!Version, PI!ToSet
  <2>1. VersionOrder[k] \in Seq(Nat) /\ Len(VersionOrder[k]) \in {0, 4}
    BY DEF PI!VersionOrderAssumption
  <2> QED BY <2>1
<1>2. CASE v = <<>> \/ w = <<>>
  BY <1>2 DEF PI!AtLeastAsNew
<1>3. CASE v # <<>> /\ w # <<>>
  <2>1. \A k \in {1, 2, 3, 4} : v[k] \in Nat /\ w[k] \in Nat
    BY <1>1, <1>3
  <2>2. \A k \in 1..4 : (\A j \in 1..(k - 1) : v[j] = w[j]) => ~(v[k] > w[k])
    BY <1>3 DEF PI!isNewerVersion
  <2>3. ~(v[1] > w[1])
    BY <2>2
  <2>4. v[1] = w[1] => ~(v[2] > w[2])
    BY <2>2
  <2>5. v[1] = w[1] /\ v[2] = w[2] => ~(v[3] > w[3])
    BY <2>2
  <2>6. v[1] = w[1] /\ v[2] = w[2] /\ v[3] = w[3] => ~(v[4] > w[4])
    <3>1. ASSUME v[1] = w[1], v[2] = w[2], v[3] = w[3], NEW j \in 1..3 PROVE v[j] = w[j]
      BY <3>1
    <3> QED BY <2>2, <3>1
  <2> QED BY <2>1, <2>3, <2>4, <2>5, <2>6 DEF PI!AtLeastAsNew
<1> QED BY <1>2, <1>3

(* Every package of the directory is still to be installed, was tried, or    *)
(* is no newer than a version that was listed as installed.                  *)
Served(e) ==
  \E v \in PI!Version : listed[e.packageId][v] = "INSTALLED" /\ PI!AtLeastAsNew(v, e.version)

PreinstallInv ==
  /\ PI!TypeOK
  /\ at = "filter" => preinstallPackages = directory
  /\ at = "done" => preinstallPackages = <<>>
  /\ at # "filter" =>
       \A k \in DOMAIN directory :
         \/ \E i \in DOMAIN preinstallPackages : preinstallPackages[i] = directory[k]
         \/ directory[k] \in tried
         \/ Served(directory[k])

LEMMA PreinstallInit == ASSUME PI!PackageAssumption, PI!Init PROVE PreinstallInv
<1>1. preinstallPackages \in Seq(PI!File)
  <2>1. PICK n \in 0..MaxFiles : preinstallPackages \in [1..n -> PI!File]
    BY DEF PI!Init
  <2>2. n \in Nat
    BY <2>1 DEF PI!PackageAssumption
  <2>3. [1..n -> PI!File] \in {[1..m -> PI!File] : m \in Nat}
    BY <2>2
  <2> QED BY <2>1, <2>3, SeqDef, Zenon
<1>2. PI!TypeOK
  BY <1>1 DEF PI!Init, PI!TypeOK
<1> QED
  BY <1>2 DEF PI!Init, PreinstallInv

(* What the filter leaves out is served.                                     *)
LEMMA LeftOutIsServed ==
  ASSUME PI!VersionOrderAssumption, NEW e \in PI!File, PI!NotNewer(mState, e), listed' = mState
  PROVE  Served(e)'
<1>1. PICK v \in PI!existingApps(mState, e.packageId) : ~PI!isNewerVersion(e.version, v)
  BY DEF PI!NotNewer
<1>2. PICK f \in PI!Considered(mState) : f.packageId = e.packageId /\ f.version = v
  BY <1>1 DEF PI!existingApps
<1>3. f \in PI!File /\ mState[f.packageId][f.version] = "INSTALLED"
  BY <1>2 DEF PI!Considered, PI!Entries
<1>4. v \in PI!Version /\ e.version \in PI!Version
  BY <1>2, <1>3 DEF PI!File
<1>5. PI!AtLeastAsNew(v, e.version)
  BY <1>1, <1>4, NewerOrNot
<1> QED
  BY <1>2, <1>3, <1>4, <1>5 DEF Served

LEMMA PreinstallStep ==
  ASSUME PI!VersionOrderAssumption, PreinstallInv, [PI!Next]_(PI!preinstallVars)
  PROVE  PreinstallInv'
<1>1. CASE PI!FilterPackages
  <2>1. /\ directory \in Seq(PI!File) /\ DOMAIN directory = 1..Len(directory)
        /\ preinstallPackages = directory
        /\ preinstallPackages' = PI!Filtered(mState, directory)
        /\ at' = "install" /\ listed' = mState
        /\ UNCHANGED <<mState, forceInstall, installError, directory, tried>>
    BY <1>1 DEF PI!FilterPackages, PreinstallInv, PI!TypeOK
  <2>2. PI!TypeOK'
    BY <2>1, FilteredKeeps DEF PreinstallInv, PI!TypeOK
  <2>3. ASSUME NEW k \in DOMAIN directory
        PROVE  \/ \E i \in DOMAIN preinstallPackages' : preinstallPackages'[i] = directory[k]
               \/ Served(directory[k])'
    <3>1. directory[k] \in PI!File /\ k \in 1..Len(directory)
      BY <2>1
    <3>2. CASE PI!NotNewer(mState, directory[k])
      <4>1. Served(directory[k])'
        BY <2>1, <3>1, <3>2, LeftOutIsServed DEF Served
      <4> QED BY <4>1
    <3>3. CASE ~PI!NotNewer(mState, directory[k])
      BY <2>1, <3>1, <3>3, FilteredKeeps
    <3> QED BY <3>2, <3>3
  <2> QED BY <2>1, <2>2, <2>3 DEF PreinstallInv, Served
<1>2. CASE PI!InstallPackage
  <2> DEFINE e == Head(preinstallPackages)
  <2>1. PICK state \in PreinstallState \cap {"INSTALLED", "INSTALL_FAILURE"} :
          /\ mState' = [mState EXCEPT ![e.packageId][e.version] = state]
          /\ installError' = (installError \/ state # "INSTALLED")
          /\ tried' = tried \cup {e}
    BY <1>2 DEF PI!InstallPackage
  <2>2. /\ preinstallPackages # <<>> /\ preinstallPackages' = Tail(preinstallPackages)
        /\ at = "install"
        /\ UNCHANGED <<forceInstall, at, directory, listed>>
    BY <1>2 DEF PI!InstallPackage
  <2>3. /\ e \in PI!File /\ Tail(preinstallPackages) \in Seq(PI!File)
        /\ \A i \in DOMAIN preinstallPackages :
             \/ preinstallPackages[i] = e
             \/ \E j \in DOMAIN Tail(preinstallPackages) :
                  Tail(preinstallPackages)[j] = preinstallPackages[i]
    <3>1. preinstallPackages \in Seq(PI!File) /\ preinstallPackages # <<>>
      BY <2>2 DEF PreinstallInv, PI!TypeOK
    <3>2. /\ e \in PI!File /\ Tail(preinstallPackages) \in Seq(PI!File) /\ e = preinstallPackages[1]
          /\ DOMAIN preinstallPackages = 1..Len(preinstallPackages)
          /\ Len(preinstallPackages) \in Nat
          /\ DOMAIN Tail(preinstallPackages) = 1..(Len(preinstallPackages) - 1)
          /\ \A j \in 1..(Len(preinstallPackages) - 1) :
               Tail(preinstallPackages)[j] = preinstallPackages[j + 1]
      BY <3>1
    <3>3. ASSUME NEW i \in DOMAIN preinstallPackages, i # 1
          PROVE  \E j \in DOMAIN Tail(preinstallPackages) :
                   Tail(preinstallPackages)[j] = preinstallPackages[i]
      <4>1. i - 1 \in 1..(Len(preinstallPackages) - 1) /\ (i - 1) + 1 = i
        BY <3>2, <3>3
      <4> QED BY <3>2, <4>1
    <3> QED BY <3>2, <3>3
  <2>4. PI!TypeOK'
    <3>1. e.packageId \in Package /\ e.version \in PI!Version
      BY <2>3 DEF PI!File
    <3>2. mState' \in PI!States
      BY <2>1, <3>1 DEF PreinstallInv, PI!TypeOK, PI!States
    <3> QED BY <2>1, <2>2, <2>3, <3>2 DEF PreinstallInv, PI!TypeOK
  <2>5. ASSUME NEW k \in DOMAIN directory
        PROVE  \/ \E i \in DOMAIN preinstallPackages' : preinstallPackages'[i] = directory[k]
               \/ directory[k] \in tried'
               \/ Served(directory[k])'
    BY <2>1, <2>2, <2>3 DEF PreinstallInv, Served
  <2> QED BY <2>2, <2>4, <2>5 DEF PreinstallInv
<1>3. CASE PI!Finish
  BY <1>3 DEF PI!Finish, PreinstallInv, PI!TypeOK, Served
<1>4. ASSUME NEW e \in PI!File, PI!Uninstall(e) PROVE PreinstallInv'
  <2>1. e.packageId \in Package /\ e.version \in PI!Version
    BY DEF PI!File
  <2>2. mState' \in PI!States
    BY <1>4, <2>1 DEF PI!Uninstall, PreinstallInv, PI!TypeOK, PI!States
  <2>3. UNCHANGED <<forceInstall, preinstallPackages, at, installError, directory, listed, tried>>
    BY <1>4 DEF PI!Uninstall
  <2> QED BY <2>2, <2>3 DEF PreinstallInv, PI!TypeOK, Served
<1>5. CASE UNCHANGED PI!preinstallVars
  BY <1>5 DEF PI!preinstallVars, PreinstallInv, PI!TypeOK, Served
<1> QED
  BY <1>1, <1>2, <1>3, <1>4, <1>5 DEF PI!Next

LEMMA PreinstallSuffices == PreinstallInv => PI!NothingNewerIsLeftOut
  BY DEF PreinstallInv, Served, PI!NothingNewerIsLeftOut

-----------------------------------------------------------------------------
(* USBMassStorage                                                            *)
USE DEF US!listVars, US!deviceMountVars, US!kernelVars, US!plugVars

LEMMA NoMountType == ASSUME US!DeviceAssumption PROVE US!NoMount \in US!Mount
<1>1. PICK p \in Partition, i \in MountPath : TRUE
  BY DEF US!DeviceAssumption
<1>2. [partitionName |-> p, mountPath |-> i] \in US!Mount
  BY DEF US!Mount
<1> QED
  BY <1>2 DEF US!NoMount

LEMMA UsbTypesInit ==
  ASSUME US!DeviceAssumption, US!Init
  PROVE  US!TypeOK
<1>1. PICK d \in Device : TRUE
  BY DEF US!DeviceAssumption
<1>2. (CHOOSE x \in Device : TRUE) \in Device
  BY <1>1
<1> QED
  BY <1>2, NoMountType DEF US!Init, US!TypeOK

LEMMA UsbTypesStep ==
  ASSUME US!DeviceAssumption, US!TypeOK, [US!Next]_(US!usbVars)
  PROVE  US!TypeOK'
<1> USE DEF US!TypeOK, US!Goto
<1>0. {"boot", "job"} \cup Client = US!Thread
  BY DEF US!Thread
<1>100. CASE UNCHANGED US!usbVars
  BY <1>100 DEF US!usbVars
<1>1. ASSUME NEW d \in Device, US!OnDevicePluggedIn(d) PROVE US!TypeOK'
  BY <1>1, <1>0 DEF US!OnDevicePluggedIn, US!Event
<1>2. ASSUME NEW d \in Device, US!OnDevicePluggedOut(d) PROVE US!TypeOK'
  BY <1>2, <1>0 DEF US!OnDevicePluggedOut, US!Event
<1>3. ASSUME NEW t \in US!Thread, US!ReadPartitions(t) PROVE US!TypeOK'
  BY <1>3, <1>0 DEF US!ReadPartitions, US!DeviceAssumption
<1>4. ASSUME NEW t \in US!Thread, US!NextPartition(t) PROVE US!TypeOK'
  BY <1>4, <1>0 DEF US!NextPartition, US!Mount
<1>5. ASSUME NEW t \in US!Thread, US!LastPartition(t) PROVE US!TypeOK'
  BY <1>5, NoMountType DEF US!LastPartition
<1>6. ASSUME NEW t \in US!Thread, US!Mkdir(t) PROVE US!TypeOK'
  <2>1. mountInfo[t] \in US!Mount /\ mountInfo[t].mountPath \in MountPath
    BY DEF US!Mount
  <2> QED
    BY <2>1, <1>6 DEF US!Mkdir
<1>7. ASSUME NEW t \in US!Thread, US!DoMount(t) PROVE US!TypeOK'
  BY <1>7, <1>0 DEF US!DoMount
<1>8. ASSUME NEW t \in US!Thread, US!Record(t) PROVE US!TypeOK'
  BY <1>8, <1>0 DEF US!Record
<1>9. ASSUME NEW e \in US!Event, NEW d \in Device, US!TakeJob(e, d) PROVE US!TypeOK'
  BY <1>9, <1>0 DEF US!TakeJob
<1>10. CASE US!DispatchMountEvent
  BY <1>10, <1>0 DEF US!DispatchMountEvent
<1>11. CASE US!DispatchUnMountEvent
  BY <1>11, <1>0 DEF US!DispatchUnMountEvent, US!OneLess
<1>12. CASE US!Umount
  BY <1>12, <1>0 DEF US!Umount
<1>13. CASE US!LastUmount
  BY <1>13, <1>0 DEF US!LastUmount
<1>14. CASE US!EraseEntry
  <2>1. device["job"] \in Device
    BY <1>0
  <2>2. CASE success["job"]
    <3>1. US!OneLess(usbStorageDeviceInfo[device["job"]]) \in Nat
      BY <2>1 DEF US!OneLess
    <3>2. usbStorageMountInfo' \in [Device -> SUBSET US!Mount]
      BY <2>2, <1>14 DEF US!EraseEntry
    <3>3. usbStorageDeviceInfo' \in [Device -> Nat]
      BY <3>1, <2>2, <1>14 DEF US!EraseEntry
    <3>4. entries' \subseteq Device /\ seen' \subseteq US!Mount
      BY <2>2, <1>14 DEF US!EraseEntry
    <3>5. usbAt' = [usbAt EXCEPT !["job"] = "idle"] /\ UNCHANGED <<device, US!deviceMountVars, todo,
                                                             aborted, US!kernelVars, US!plugVars>>
      BY <1>14 DEF US!EraseEntry
    <3> QED
      BY <3>2, <3>3, <3>4, <3>5
  <2>3. CASE ~success["job"]
    BY <2>3, <1>14 DEF US!EraseEntry
  <2> QED
    BY <2>2, <2>3
<1>15. CASE US!ListDevices
  BY <1>15, <1>0 DEF US!ListDevices
<1>16. CASE US!MountDevicesOnBootUp
  BY <1>16, <1>0 DEF US!MountDevicesOnBootUp
<1>17. ASSUME NEW c \in Client, NEW d \in Device, US!GetMountPoints(c, d) PROVE US!TypeOK'
  BY <1>17, <1>0 DEF US!GetMountPoints
<1>18. ASSUME NEW c \in Client, US!FindMountPoints(c) PROVE US!TypeOK'
  BY <1>18, <1>0 DEF US!FindMountPoints
<1>19. ASSUME NEW c \in Client, US!AnswerMountPoints(c) PROVE US!TypeOK'
  BY <1>19, <1>0 DEF US!AnswerMountPoints
<1>20. ASSUME NEW c \in Client, US!GetDeviceList(c) PROVE US!TypeOK'
  BY <1>20, <1>0 DEF US!GetDeviceList
<1>21. ASSUME NEW c \in Client, US!PushDevices(c) PROVE US!TypeOK'
  BY <1>21, <1>0 DEF US!PushDevices
<1> QED
  BY <1>100, <1>1, <1>2, <1>3, <1>4, <1>5, <1>6, <1>7, <1>8, <1>9, <1>10, <1>11, <1>12, <1>13, <1>14, <1>15, <1>16, <1>17, <1>18, <1>19, <1>20, <1>21
  DEF US!Next, US!DeviceMount, US!Dispatch, US!Calls
-----------------------------------------------------------------------------
(* Every mount has its directory, and a directory one mount.                *)
Kernel ==
  /\ \A m \in mounted : m.mountPath \in directories
  /\ \A m, n \in mounted : m.mountPath = n.mountPath => m = n

(* A thread that mounts has made a directory that is nobody else's; once    *)
(* mounted, nothing but the thread knows of it.                             *)
Mounting(t) == usbAt[t] \in {"mount", "record"}

Hands ==
  /\ \A t \in US!Thread : Mounting(t) => mountInfo[t].mountPath \in directories
  /\ \A t \in US!Thread : usbAt[t] = "mount" =>
       \A m \in mounted : m.mountPath # mountInfo[t].mountPath
  /\ \A t \in US!Thread : usbAt[t] = "record" =>
       mountInfo[t] \in mounted /\ \A d \in Device : mountInfo[t] \notin US!Live(d)
  /\ \A t, u \in US!Thread : t # u /\ Mounting(t) /\ Mounting(u) =>
       mountInfo[t].mountPath # mountInfo[u].mountPath

Records ==
  /\ \A d \in Device : US!Live(d) \subseteq mounted
  /\ \A d, e \in Device : d # e => US!Live(d) \cap US!Live(e) = {}

UsbInv == US!TypeOK /\ Kernel /\ Hands /\ Records

(* A step that leaves alone what is mounted, what is recorded and who mounts*)
LEMMA UsbAside ==
  ASSUME Kernel, Hands, Records, UNCHANGED US!kernelVars,
         \A d \in Device : US!Live(d)' = US!Live(d),
         \A t \in US!Thread : Mounting(t)' => usbAt'[t] = usbAt[t] /\ mountInfo'[t] = mountInfo[t]
  PROVE  Kernel' /\ Hands' /\ Records'
<1>1. Kernel' /\ Records'
  BY DEF Kernel, Records
<1>2. Hands'
  BY DEF Hands, Mounting
<1> QED
  BY <1>1, <1>2

LEMMA UsbInit == ASSUME US!DeviceAssumption, US!Init PROVE UsbInv
<1>1. US!TypeOK
  BY UsbTypesInit
<1>2. Kernel /\ Hands /\ Records
  BY DEF US!Init, Kernel, Hands, Records, Mounting, US!Live, US!Unmounting
<1> QED
  BY <1>1, <1>2 DEF UsbInv

LEMMA UsbStep ==
  ASSUME US!DeviceAssumption, UsbInv, [US!Next]_(US!usbVars)
  PROVE  UsbInv'
<1> DEFINE I == Kernel /\ Hands /\ Records
<1> USE DEF UsbInv, US!Goto
<1> HIDE DEF I
<1>0. US!TypeOK /\ US!TypeOK' /\ Kernel /\ Hands /\ Records /\ "job" \in US!Thread /\ "boot" \in US!Thread
      /\ Client \subseteq US!Thread
  BY UsbTypesStep DEF US!Thread
<1>100. CASE UNCHANGED US!usbVars
  <2>1. \A d \in Device : US!Live(d)' = US!Live(d)
    BY <1>100 DEF US!usbVars, US!Live, US!Unmounting
  <2> QED
    BY <2>1, <1>0, <1>100, UsbAside DEF US!usbVars, Mounting, I
<1>1. ASSUME NEW d \in Device, US!OnDevicePluggedIn(d) PROVE I'
  <2>1. \A x \in Device : US!Live(x)' = US!Live(x)
    BY <1>1, <1>0 DEF US!OnDevicePluggedIn, US!Live, US!Unmounting, US!TypeOK
  <2>2. UNCHANGED US!kernelVars /\ \A x \in US!Thread : Mounting(x)' => usbAt'[x] = usbAt[x] /\ mountInfo'[x] = mountInfo[x]
    BY <1>1, <1>0 DEF US!OnDevicePluggedIn, Mounting, US!TypeOK
  <2> QED
    BY <2>1, <2>2, <1>0, UsbAside DEF I
<1>2. ASSUME NEW d \in Device, US!OnDevicePluggedOut(d) PROVE I'
  <2>1. \A x \in Device : US!Live(x)' = US!Live(x)
    BY <1>2, <1>0 DEF US!OnDevicePluggedOut, US!Live, US!Unmounting, US!TypeOK
  <2>2. UNCHANGED US!kernelVars /\ \A x \in US!Thread : Mounting(x)' => usbAt'[x] = usbAt[x] /\ mountInfo'[x] = mountInfo[x]
    BY <1>2, <1>0 DEF US!OnDevicePluggedOut, Mounting, US!TypeOK
  <2> QED
    BY <2>1, <2>2, <1>0, UsbAside DEF I
<1>3. ASSUME NEW t \in US!Thread, US!ReadPartitions(t) PROVE I'
  <2>1. \A x \in Device : US!Live(x)' = US!Live(x)
    BY <1>3, <1>0 DEF US!ReadPartitions, US!Live, US!Unmounting, US!TypeOK
  <2>2. UNCHANGED US!kernelVars /\ \A x \in US!Thread : Mounting(x)' => usbAt'[x] = usbAt[x] /\ mountInfo'[x] = mountInfo[x]
    BY <1>3, <1>0 DEF US!ReadPartitions, Mounting, US!TypeOK
  <2> QED
    BY <2>1, <2>2, <1>0, UsbAside DEF I
<1>4. ASSUME NEW t \in US!Thread, US!NextPartition(t) PROVE I'
  <2>1. \A x \in Device : US!Live(x)' = US!Live(x)
    BY <1>4, <1>0 DEF US!NextPartition, US!Live, US!Unmounting, US!TypeOK
  <2>2. UNCHANGED US!kernelVars /\ \A x \in US!Thread : Mounting(x)' => usbAt'[x] = usbAt[x] /\ mountInfo'[x] = mountInfo[x]
    BY <1>4, <1>0 DEF US!NextPartition, Mounting, US!TypeOK
  <2> QED
    BY <2>1, <2>2, <1>0, UsbAside DEF I
<1>5. ASSUME NEW t \in US!Thread, US!LastPartition(t) PROVE I'
  <2>1. \A x \in Device : US!Live(x)' = US!Live(x)
    BY <1>5, <1>0 DEF US!LastPartition, US!Live, US!Unmounting, US!TypeOK
  <2>2. UNCHANGED US!kernelVars /\ \A x \in US!Thread : Mounting(x)' => usbAt'[x] = usbAt[x] /\ mountInfo'[x] = mountInfo[x]
    BY <1>5, <1>0 DEF US!LastPartition, Mounting, US!TypeOK
  <2> QED
    BY <2>1, <2>2, <1>0, UsbAside DEF I
<1>6. ASSUME NEW t \in US!Thread, US!Mkdir(t) PROVE I'
  <2>1. \A d \in Device : US!Live(d)' = US!Live(d)
    BY <1>6, <1>0 DEF US!Mkdir, US!Live, US!Unmounting, US!TypeOK
  <2>2. CASE directories' = directories /\ ~Mounting(t)'
    BY <2>1, <2>2, <1>6, <1>0, UsbAside DEF US!Mkdir, Mounting, US!TypeOK, I
  <2>3. CASE /\ mountInfo[t].mountPath \notin directories /\ usbAt' = [usbAt EXCEPT ![t] = "mount"]
             /\ directories' = directories \cup {mountInfo[t].mountPath}
    <3>1. mounted' = mounted /\ mountInfo' = mountInfo
      BY <1>6 DEF US!Mkdir
    <3>2. Kernel' /\ Records'
      BY <2>1, <2>3, <3>1, <1>0 DEF Kernel, Records
    <3>3. \A u \in US!Thread : usbAt'[u] = IF u = t THEN "mount" ELSE usbAt[u]
      BY <2>3, <1>0 DEF US!TypeOK
    <3>4. Hands'
      BY <2>1, <2>3, <3>1, <3>3, <1>0 DEF Kernel, Hands, Mounting
    <3> QED
      BY <3>2, <3>4 DEF I
  <2> QED
    BY <2>2, <2>3, <1>6, <1>0 DEF US!Mkdir, Mounting, US!TypeOK
<1>7. ASSUME NEW t \in US!Thread, US!DoMount(t) PROVE I'
  <2>1. \A d \in Device : US!Live(d)' = US!Live(d)
    BY <1>7, <1>0 DEF US!DoMount, US!Live, US!Unmounting, US!TypeOK
  <2>2. mountInfo' = mountInfo /\ Mounting(t) /\ mountInfo[t] \in US!Mount
    BY <1>7, <1>0 DEF US!DoMount, Mounting, US!TypeOK
  <2>3. CASE /\ usbAt' = [usbAt EXCEPT ![t] = "partition"] /\ mounted' = mounted
             /\ \/ directories' = directories \ {mountInfo[t].mountPath}
                \/ directories' = directories
    <3>1. \A u \in US!Thread : usbAt'[u] = IF u = t THEN "partition" ELSE usbAt[u]
      BY <2>3, <1>0 DEF US!TypeOK
    <3>2. Kernel' /\ Records'
      BY <2>1, <2>3, <1>7, <1>0 DEF Kernel, Records, Hands, US!DoMount
    <3>3. Hands'
      BY <2>1, <2>2, <2>3, <3>1, <1>0 DEF Hands, Mounting
    <3> QED
      BY <3>2, <3>3 DEF I
  <2>4. CASE /\ usbAt' = [usbAt EXCEPT ![t] = "record"] /\ mounted' = mounted \cup {mountInfo[t]}
             /\ directories' = directories
    <3>1. \A u \in US!Thread : usbAt'[u] = IF u = t THEN "record" ELSE usbAt[u]
      BY <2>4, <1>0 DEF US!TypeOK
    <3>2. mountInfo[t].mountPath \in directories /\ usbAt[t] = "mount"
          /\ \A m \in mounted : m.mountPath # mountInfo[t].mountPath
      BY <2>2, <1>7, <1>0 DEF Hands, US!DoMount
    <3>3. Kernel' /\ Records'
      BY <2>1, <2>4, <3>2, <1>0 DEF Kernel, Records
    <3>4. \A d \in Device : mountInfo[t] \notin US!Live(d)
      BY <3>2, <1>0 DEF Records
    <3>5. \A u \in US!Thread : u # t /\ Mounting(u) =>
                             mountInfo[u].mountPath # mountInfo[t].mountPath
      BY <2>2, <1>0 DEF Hands
    <3>6. Hands'
      BY <2>1, <2>2, <2>4, <3>1, <3>2, <3>4, <3>5, <1>0 DEF Hands, Mounting
    <3> QED
      BY <3>3, <3>6 DEF I
  <2> QED
    BY <2>3, <2>4, <1>7 DEF US!DoMount
<1>8. ASSUME NEW t \in US!Thread, US!Record(t) PROVE I'
  <2> DEFINE m == mountInfo[t]
  <2>1. /\ m \in mounted /\ \A d \in Device : m \notin US!Live(d)
        /\ device[t] \in Device /\ mountInfo' = mountInfo /\ UNCHANGED US!kernelVars
        /\ device' = device /\ Mounting(t)
    BY <1>8, <1>0 DEF US!Record, Hands, US!TypeOK, Mounting
  <2>2. \A u \in US!Thread : usbAt'[u] = IF u = t THEN "partition" ELSE usbAt[u]
    BY <1>8, <1>0 DEF US!Record, US!TypeOK
  <2>3. /\ \A d \in Device : US!Unmounting(d)' <=> US!Unmounting(d)
        /\ \A d \in Device : US!Unmounting(d) => success'["job"] = success["job"]
    BY <1>8, <1>0, <2>1, <2>2 DEF US!Record, US!Unmounting, US!TypeOK
  <2>4. CASE /\ usbStorageMountInfo' = [usbStorageMountInfo EXCEPT ![device[t]] = @ \cup {m}]
             /\ seen' = IF US!Unmounting(device[t]) THEN seen \ {m} ELSE seen
    <3>1. \A d \in Device : US!Live(d)' = IF d = device[t] THEN US!Live(d) \cup {m} ELSE US!Live(d)
      <4> SUFFICES ASSUME NEW d \in Device
                   PROVE  US!Live(d)' = IF d = device[t] THEN US!Live(d) \cup {m} ELSE US!Live(d)
        OBVIOUS
      <4> DEFINE L == US!Live(d)
      <4>1. usbStorageMountInfo'[d] = IF d = device[t] THEN usbStorageMountInfo[d] \cup {m}
                                                       ELSE usbStorageMountInfo[d]
        BY <2>1, <2>4, <1>0 DEF US!TypeOK
      <4>2. US!Unmounting(d) /\ d # device[t] => seen' = seen
        BY <2>4, <2>1 DEF US!Unmounting
      <4>3. US!Unmounting(d) /\ d = device[t] => seen' = seen \ {m}
        BY <2>4
      <4> HIDE DEF m
      <4>4. CASE ~US!Unmounting(d)
        BY <4>4, <4>1, <2>3 DEF US!Live
      <4>5. CASE US!Unmounting(d) /\ d # device[t]
        BY <4>5, <4>1, <4>2, <2>3 DEF US!Live
      <4>6. CASE US!Unmounting(d) /\ d = device[t]
        BY <4>6, <4>1, <4>3, <2>3 DEF US!Live
      <4> QED
        BY <4>4, <4>5, <4>6
    <3> HIDE DEF m
    <3>2. Records'
      BY <3>1, <2>1, <1>0 DEF Records
    <3>3. Kernel'
      BY <2>1, <1>0 DEF Kernel
    <3>4. \A u \in US!Thread : u # t /\ usbAt[u] = "record" => mountInfo[u] # m
      BY <2>1, <1>0 DEF Hands, Mounting, m
    <3>5. Hands'
      BY <2>1, <2>2, <3>1, <3>4, <1>0 DEF Hands, Mounting
    <3> QED
      BY <3>2, <3>3, <3>5 DEF I
  <2>5. CASE UNCHANGED <<usbStorageMountInfo, seen>>
    <3>1. \A d \in Device : US!Live(d)' = US!Live(d)
      BY <2>5, <2>3 DEF US!Live
    <3>2. \A u \in US!Thread : Mounting(u)' => usbAt'[u] = usbAt[u] /\ mountInfo'[u] = mountInfo[u]
      BY <2>1, <2>2 DEF Mounting
    <3> QED
      BY <3>1, <3>2, <2>1, <1>0, UsbAside DEF I
  <2> QED
    BY <2>4, <2>5, <1>8 DEF US!Record
<1>9. ASSUME NEW e \in US!Event, NEW d \in Device, US!TakeJob(e, d) PROVE I'
  <2>1. \A x \in Device : US!Live(x)' = US!Live(x)
    BY <1>9, <1>0 DEF US!TakeJob, US!Live, US!Unmounting, US!TypeOK
  <2>2. UNCHANGED US!kernelVars /\ \A x \in US!Thread : Mounting(x)' => usbAt'[x] = usbAt[x] /\ mountInfo'[x] = mountInfo[x]
    BY <1>9, <1>0 DEF US!TakeJob, Mounting, US!TypeOK
  <2> QED
    BY <2>1, <2>2, <1>0, UsbAside DEF I
<1>10. CASE US!DispatchMountEvent
  <2>1. \A x \in Device : US!Live(x)' = US!Live(x)
    BY <1>10, <1>0 DEF US!DispatchMountEvent, US!Live, US!Unmounting, US!TypeOK
  <2>2. UNCHANGED US!kernelVars /\ \A x \in US!Thread : Mounting(x)' => usbAt'[x] = usbAt[x] /\ mountInfo'[x] = mountInfo[x]
    BY <1>10, <1>0 DEF US!DispatchMountEvent, Mounting, US!TypeOK
  <2> QED
    BY <2>1, <2>2, <1>0, UsbAside DEF I
<1>11. CASE US!DispatchUnMountEvent
  <2>1. \A x \in Device : US!Live(x)' = US!Live(x)
    BY <1>11, <1>0 DEF US!DispatchUnMountEvent, US!Live, US!Unmounting, US!TypeOK
  <2>2. UNCHANGED US!kernelVars /\ \A x \in US!Thread : Mounting(x)' => usbAt'[x] = usbAt[x] /\ mountInfo'[x] = mountInfo[x]
    BY <1>11, <1>0 DEF US!DispatchUnMountEvent, Mounting, US!TypeOK
  <2> QED
    BY <2>1, <2>2, <1>0, UsbAside DEF I
<1>12. CASE US!Umount
  <2>0. PICK d \in Device : d = device["job"]
    BY <1>0 DEF US!TypeOK
  <2>1. /\ usbAt["job"] = "umount" /\ US!Unmounting(d)
        /\ usbAt' = usbAt /\ device' = device /\ mountInfo' = mountInfo
        /\ usbStorageMountInfo' = usbStorageMountInfo
        /\ \A e \in Device : e # d => ~US!Unmounting(e)
    BY <2>0, <1>12, <1>0 DEF US!Umount, US!TypeOK, US!Unmounting
  <2>2. PICK m \in usbStorageMountInfo[d] \ seen :
          /\ seen' = seen \cup {m}
          /\ \/ /\ m \in mounted
                /\ mounted' = mounted \ {m}
                /\ \/ directories' = directories \ {m.mountPath}
                   \/ UNCHANGED directories
                /\ success' = [success EXCEPT !["job"] = TRUE]
             \/ UNCHANGED <<US!kernelVars, success>>
    BY <2>0, <1>12 DEF US!Umount
  <2>3. \A e \in Device : US!Unmounting(e)' <=> US!Unmounting(e)
    BY <2>1 DEF US!Unmounting
  <2>4. \A e \in Device : e # d => US!Live(e)' = US!Live(e)
    BY <2>1, <2>3 DEF US!Live
  <2>5. m \in US!Live(d)
    BY <2>2 DEF US!Live
  <2>6. US!Live(d)' \subseteq US!Live(d)
    <3>1. success["job"] => success'["job"]
      BY <2>2, <1>0 DEF US!TypeOK
    <3> QED
      BY <3>1, <2>1, <2>2, <2>3 DEF US!Live
  <2>7. CASE UNCHANGED US!kernelVars
    <3>1. Kernel' /\ Records'
      BY <2>1, <2>4, <2>6, <2>7, <1>0 DEF Kernel, Records
    <3>2. Hands'
      BY <2>1, <2>4, <2>6, <2>7, <1>0 DEF Hands, Mounting
    <3> QED
      BY <3>1, <3>2, <1>0
  <2>8. CASE /\ m \in mounted /\ mounted' = mounted \ {m}
             /\ directories' = directories \ {m.mountPath} \/ UNCHANGED directories
             /\ success' = [success EXCEPT !["job"] = TRUE]
    <3>1. US!Live(d)' \subseteq US!Live(d) \ {m}
      <4>1. success'["job"]
        BY <2>8, <1>0 DEF US!TypeOK
      <4> QED
        BY <4>1, <2>1, <2>2, <2>3, <2>6 DEF US!Live
    <3>2. \A e \in Device : m \notin US!Live(e)'
      BY <3>1, <2>1, <2>4, <2>5, <1>0 DEF Records
    <3>3. \A e \in Device : US!Live(e)' \subseteq US!Live(e)
      BY <2>4, <2>6
    <3>4. Records'
      BY <3>2, <3>3, <2>8, <1>0 DEF Records
    <3>5. Kernel'
      BY <2>8, <1>0 DEF Kernel
    <3>6. \A t \in US!Thread : usbAt[t] = "record" => mountInfo[t] # m
      BY <2>1, <2>5, <1>0 DEF Hands
    <3>7. \A t \in US!Thread : Mounting(t) => mountInfo[t].mountPath # m.mountPath
      BY <2>8, <3>6, <1>0 DEF Hands, Kernel, Mounting
    <3>8. Hands'
      BY <2>1, <2>8, <3>3, <3>6, <3>7, <1>0 DEF Hands, Mounting
    <3> QED
      BY <3>4, <3>5, <3>8, <1>0
  <2> QED
    BY <2>2, <2>7, <2>8
<1>13. CASE US!LastUmount
  <2>1. \A x \in Device : US!Live(x)' = US!Live(x)
    BY <1>13, <1>0 DEF US!LastUmount, US!Live, US!Unmounting, US!TypeOK
  <2>2. UNCHANGED US!kernelVars /\ \A x \in US!Thread : Mounting(x)' => usbAt'[x] = usbAt[x] /\ mountInfo'[x] = mountInfo[x]
    BY <1>13, <1>0 DEF US!LastUmount, Mounting, US!TypeOK
  <2> QED
    BY <2>1, <2>2, <1>0, UsbAside DEF I
<1>14. CASE US!EraseEntry
  <2>0. PICK d \in Device : d = device["job"]
    BY <1>0 DEF US!TypeOK
  <2>1. /\ usbAt["job"] = "erase" /\ device' = device /\ success' = success
        /\ mountInfo' = mountInfo /\ UNCHANGED US!kernelVars
        /\ usbAt' = [usbAt EXCEPT !["job"] = "idle"]
    BY <2>0, <1>14, <1>0 DEF US!EraseEntry, US!TypeOK
  <2>2. \A e \in Device : US!Unmounting(e) => e = d
    BY <2>0 DEF US!Unmounting
  <2>3. \A e \in Device : ~US!Unmounting(e)'
    BY <2>1, <1>0 DEF US!Unmounting, US!TypeOK
  <2>4. \A e \in Device : US!Live(e)' \subseteq US!Live(e)
    <3>1. CASE success["job"]
      <4>1. \A e \in Device : usbStorageMountInfo'[e] = IF e = d THEN {} ELSE usbStorageMountInfo[e]
        BY <2>0, <3>1, <1>14, <1>0, <2>1 DEF US!EraseEntry, US!TypeOK
      <4> QED
        BY <4>1, <2>2, <2>3 DEF US!Live
    <3>2. CASE ~success["job"]
      <4>1. usbStorageMountInfo' = usbStorageMountInfo
        BY <3>2, <1>14 DEF US!EraseEntry
      <4> QED
        BY <4>1, <3>2, <2>3 DEF US!Live
    <3> QED
      BY <3>1, <3>2
  <2>5. \A t \in US!Thread : Mounting(t)' => usbAt'[t] = usbAt[t]
    BY <2>1, <1>0 DEF Mounting, US!TypeOK
  <2>6. Kernel' /\ Records'
    BY <2>1, <2>4, <1>0 DEF Kernel, Records
  <2>7. Hands'
    BY <2>1, <2>4, <2>5, <1>0 DEF Hands, Mounting
  <2> QED
    BY <2>6, <2>7, <1>0
<1>15. CASE US!ListDevices
  <2>1. \A x \in Device : US!Live(x)' = US!Live(x)
    BY <1>15, <1>0 DEF US!ListDevices, US!Live, US!Unmounting, US!TypeOK
  <2>2. UNCHANGED US!kernelVars /\ \A x \in US!Thread : Mounting(x)' => usbAt'[x] = usbAt[x] /\ mountInfo'[x] = mountInfo[x]
    BY <1>15, <1>0 DEF US!ListDevices, Mounting, US!TypeOK
  <2> QED
    BY <2>1, <2>2, <1>0, UsbAside DEF I
<1>16. CASE US!MountDevicesOnBootUp
  <2>1. \A x \in Device : US!Live(x)' = US!Live(x)
    <3>1. UNCHANGED <<usbStorageMountInfo, seen, success>>
      BY <1>16 DEF US!MountDevicesOnBootUp
    <3>2. usbAt'["job"] = usbAt["job"] /\ device'["job"] = device["job"]
      BY <1>16, <1>0 DEF US!MountDevicesOnBootUp, US!TypeOK
    <3> QED
      BY <3>1, <3>2 DEF US!Live, US!Unmounting
  <2>2. UNCHANGED US!kernelVars /\ \A x \in US!Thread : Mounting(x)' => usbAt'[x] = usbAt[x] /\ mountInfo'[x] = mountInfo[x]
    BY <1>16, <1>0 DEF US!MountDevicesOnBootUp, Mounting, US!TypeOK
  <2> QED
    BY <2>1, <2>2, <1>0, UsbAside DEF I
<1>17. ASSUME NEW c \in Client, NEW d \in Device, US!GetMountPoints(c, d) PROVE I'
  <2>1. \A x \in Device : US!Live(x)' = US!Live(x)
    BY <1>17, <1>0 DEF US!GetMountPoints, US!Live, US!Unmounting, US!TypeOK
  <2>2. UNCHANGED US!kernelVars /\ \A x \in US!Thread : Mounting(x)' => usbAt'[x] = usbAt[x] /\ mountInfo'[x] = mountInfo[x]
    BY <1>17, <1>0 DEF US!GetMountPoints, Mounting, US!TypeOK
  <2> QED
    BY <2>1, <2>2, <1>0, UsbAside DEF I
<1>18. ASSUME NEW c \in Client, US!FindMountPoints(c) PROVE I'
  <2>1. \A x \in Device : US!Live(x)' = US!Live(x)
    BY <1>18, <1>0 DEF US!FindMountPoints, US!Live, US!Unmounting, US!TypeOK
  <2>2. UNCHANGED US!kernelVars /\ \A x \in US!Thread : Mounting(x)' => usbAt'[x] = usbAt[x] /\ mountInfo'[x] = mountInfo[x]
    BY <1>18, <1>0 DEF US!FindMountPoints, Mounting, US!TypeOK
  <2> QED
    BY <2>1, <2>2, <1>0, UsbAside DEF I
<1>19. ASSUME NEW c \in Client, US!AnswerMountPoints(c) PROVE I'
  <2>1. \A x \in Device : US!Live(x)' = US!Live(x)
    BY <1>19, <1>0 DEF US!AnswerMountPoints, US!Live, US!Unmounting, US!TypeOK
  <2>2. UNCHANGED US!kernelVars /\ \A x \in US!Thread : Mounting(x)' => usbAt'[x] = usbAt[x] /\ mountInfo'[x] = mountInfo[x]
    BY <1>19, <1>0 DEF US!AnswerMountPoints, Mounting, US!TypeOK
  <2> QED
    BY <2>1, <2>2, <1>0, UsbAside DEF I
<1>20. ASSUME NEW c \in Client, US!GetDeviceList(c) PROVE I'
  <2>1. \A x \in Device : US!Live(x)' = US!Live(x)
    BY <1>20, <1>0 DEF US!GetDeviceList, US!Live, US!Unmounting, US!TypeOK
  <2>2. UNCHANGED US!kernelVars /\ \A x \in US!Thread : Mounting(x)' => usbAt'[x] = usbAt[x] /\ mountInfo'[x] = mountInfo[x]
    BY <1>20, <1>0 DEF US!GetDeviceList, Mounting, US!TypeOK
  <2> QED
    BY <2>1, <2>2, <1>0, UsbAside DEF I
<1>21. ASSUME NEW c \in Client, US!PushDevices(c) PROVE I'
  <2>1. \A x \in Device : US!Live(x)' = US!Live(x)
    BY <1>21, <1>0 DEF US!PushDevices, US!Live, US!Unmounting, US!TypeOK
  <2>2. UNCHANGED US!kernelVars /\ \A x \in US!Thread : Mounting(x)' => usbAt'[x] = usbAt[x] /\ mountInfo'[x] = mountInfo[x]
    BY <1>21, <1>0 DEF US!PushDevices, Mounting, US!TypeOK
  <2> QED
    BY <2>1, <2>2, <1>0, UsbAside DEF I
<1> QED
  BY <1>0, <1>100, <1>1, <1>2, <1>3, <1>4, <1>5, <1>6, <1>7, <1>8, <1>9, <1>10, <1>11, <1>12, <1>13, <1>14, <1>15, <1>16, <1>17, <1>18, <1>19, <1>20, <1>21
  DEF US!Next, US!DeviceMount, US!Dispatch, US!Calls, I

HIDE DEF US!listVars, US!deviceMountVars, US!kernelVars, US!plugVars

-----------------------------------------------------------------------------
(* The composition                                                           *)
RT == INSTANCE RuntimeManager_proofs
        WITH App <- RuntimeApp, AppOf <- RuntimeAppOf, Failing <- RuntimeFailing
SH == INSTANCE RDKShell_proofs
        WITH App <- ShellApp, Call <- ShellCall, AppOf <- ShellAppOf, Failing <- ShellFailing
ST == INSTANCE Storage_proofs
        WITH App <- StorageApp, Failing <- StorageFailing, Thread <- StoreThread

(* The next-state relations of the two instances of a module are the same.   *)
LEMMA SameStorage ==
  ([SM!Next]_(SM!storageVars) <=> [ST!Next]_(ST!storageVars)) /\ (SM!Start <=> ST!Start)
<1> USE DEF SM!None, ST!None, SM!Removed, ST!Removed, SM!MayFail, ST!MayFail,
            SM!hasEnoughStorageFreeSpace, ST!hasEnoughStorageFreeSpace, SM!f_bfree, ST!f_bfree,
            SM!Used, ST!Used, SM!ReservationSpaceKB, ST!ReservationSpaceKB, SM!Reserved,
            ST!Reserved, SM!SetProperty, ST!SetProperty, SM!DeleteProperty, ST!DeleteProperty,
            SM!ForgetProperty, ST!ForgetProperty, SM!Populate, ST!Populate, SM!Populated,
            ST!Populated, SM!Restored, ST!Restored, SM!deleteDirectoryEntries, ST!deleteDirectoryEntries,
            SM!Count, ST!Count, SM!MapThenSumSet, ST!MapThenSumSet, SM!MapThenFoldSet,
            ST!MapThenFoldSet
<1>1. \A a, size : (SM!CreateStorage(a, size) <=> ST!CreateStorage(a, size))
  BY DEF SM!CreateStorage, ST!CreateStorage
<1>2. \A a, size : (SM!KilledInCreateStorage(a, size) <=> ST!KilledInCreateStorage(a, size))
  BY DEF SM!KilledInCreateStorage, ST!KilledInCreateStorage
<1>3. \A a : (SM!GetStorage(a) <=> ST!GetStorage(a))
  BY DEF SM!GetStorage, ST!GetStorage
<1>4. \A a : (SM!DeleteStorage(a) <=> ST!DeleteStorage(a))
  BY DEF SM!DeleteStorage, ST!DeleteStorage
<1>5. \A a : (SM!Write(a) <=> ST!Write(a))
  BY DEF SM!Write, ST!Write
<1>6. \A a : (SM!LoseDirectory(a) <=> ST!LoseDirectory(a))
  BY DEF SM!LoseDirectory, ST!LoseDirectory
<1>7. \A S : (SM!Clear(S) <=> ST!Clear(S))
  BY DEF SM!Clear, ST!Clear
<1>8. SM!populateAppInfoCacheFromStoragePath <=> ST!populateAppInfoCacheFromStoragePath
  BY DEF SM!populateAppInfoCacheFromStoragePath, ST!populateAppInfoCacheFromStoragePath
<1>9. \A a : (SM!KilledInDeleteStorage(a) <=> ST!KilledInDeleteStorage(a))
  BY DEF SM!KilledInDeleteStorage, ST!KilledInDeleteStorage
<1>10. SM!Start <=> ST!Start
  BY <1>2, <1>8, <1>9 DEF SM!Start, ST!Start
<1> QED
  BY <1>1, <1>3, <1>4, <1>5, <1>6, <1>7, <1>10
     DEF SM!Next, ST!Next, SM!storageVars, ST!storageVars

LEMMA SameStore == [PS!Next]_(PS!storeVars) <=> [ST!PS!Next]_(ST!PS!storeVars)
<1> USE DEF PS!NoCall, ST!PS!NoCall, PS!ns_maxsize, ST!PS!ns_maxsize, PS!TotalSize,
            ST!PS!TotalSize, PS!NsSize, ST!PS!NsSize, PS!Row, ST!PS!Row, PS!None, ST!PS!None,
            PS!Refuses, ST!PS!Refuses, PS!item_maxsize, ST!PS!item_maxsize,
            PS!item_limit_default, ST!PS!item_limit_default, PS!item_limit, ST!PS!item_limit,
            PS!Absent, ST!PS!Absent, PS!Empty, ST!PS!Empty, PS!NoFile, ST!PS!NoFile,
            PS!MapThenSumSet, ST!PS!MapThenSumSet, PS!MapThenFoldSet, ST!PS!MapThenFoldSet,
            PS!Cardinality, ST!PS!Cardinality
<1>1. \A t, c : (PS!InsertNamespace(t, c) <=> ST!PS!InsertNamespace(t, c))
  BY DEF PS!InsertNamespace, ST!PS!InsertNamespace
<1>2. \A t : (PS!InsertItem(t) <=> ST!PS!InsertItem(t))
  BY DEF PS!InsertItem, ST!PS!InsertItem
<1>3. \A t : (PS!InsertLimit(t) <=> ST!PS!InsertLimit(t))
  BY DEF PS!InsertLimit, ST!PS!InsertLimit
<1>4. \A n : (PS!DeleteNamespace(n) <=> ST!PS!DeleteNamespace(n))
  BY DEF PS!DeleteNamespace, ST!PS!DeleteNamespace
<1>5. \A n, k : (PS!DeleteKey(n, k) <=> ST!PS!DeleteKey(n, k))
  BY DEF PS!DeleteKey, ST!PS!DeleteKey
<1>6. PS!Kill <=> ST!PS!Kill
  BY DEF PS!Kill, ST!PS!Kill
<1>7. PS!IntegrityCheck <=> ST!PS!IntegrityCheck
  BY DEF PS!IntegrityCheck, ST!PS!IntegrityCheck
<1>8. PS!Backup <=> ST!PS!Backup
  BY DEF PS!Backup, ST!PS!Backup
<1> QED
  BY <1>1, <1>2, <1>3, <1>4, <1>5, <1>6, <1>7, <1>8
     DEF PS!Next, ST!PS!Next, PS!Call, ST!PS!Call, PS!storeVars, ST!PS!storeVars

LEMMA SameRuntime == [RM!Next]_(RM!runtimeVars) <=> [RT!Next]_(RT!runtimeVars)
<1> USE DEF RM!getUserId, RT!getUserId, RM!NoUid, RT!NoUid, RM!uidVars, RT!uidVars, RM!MayFail,
            RT!MayFail, RM!isOCIPluginObjectValid, RT!isOCIPluginObjectValid,
            RM!StartContainer, RT!StartContainer, RM!Announce, RT!Announce, RM!Listed,
            RT!Listed, RM!clearUserId, RT!clearUserId, RM!runVars, RT!runVars, RM!reportVars,
            RT!reportVars, RM!Reported, RT!Reported
<1>1. \A i : (RM!Run(i) <=> RT!Run(i))
  BY DEF RM!Run, RT!Run
<1>2. \A i, force : (RM!Stop(i, force) <=> RT!Stop(i, force))
  BY DEF RM!Stop, RT!Stop
<1>3. \A i : (RM!Hibernate(i) <=> RT!Hibernate(i))
  BY DEF RM!Hibernate, RT!Hibernate
<1>4. \A i : (RM!Wake(i) <=> RT!Wake(i))
  BY DEF RM!Wake, RT!Wake
<1>5. \A i : (RM!stateListenerRunning(i) <=> RT!stateListenerRunning(i))
  BY DEF RM!stateListenerRunning, RT!stateListenerRunning
<1>6. \A i : (RM!stateListenerStopped(i) <=> RT!stateListenerStopped(i))
  BY DEF RM!stateListenerStopped, RT!stateListenerStopped
<1>7. \A i : (RM!onVerityFailed(i) <=> RT!onVerityFailed(i))
  BY DEF RM!onVerityFailed, RT!onVerityFailed
<1>8. \A job : (RM!Forward(job) <=> RT!Forward(job))
  BY DEF RM!Forward, RT!Forward
<1>9. \A job : (RM!Dispatch(job) <=> RT!Dispatch(job))
  BY DEF RM!Dispatch, RT!Dispatch
<1> QED
  BY <1>1, <1>2, <1>3, <1>4, <1>5, <1>6, <1>7, <1>8, <1>9
     DEF RM!Next, RT!Next, RM!Deliver, RT!Deliver, RM!Call, RT!Call, RM!Dobby, RT!Dobby,
         RM!runtimeVars, RT!runtimeVars

LEMMA SameShell == [RS!Next]_(RS!shellVars) <=> [SH!Next]_(SH!shellVars)
<1> USE DEF RS!Goto, SH!Goto, RS!markVars, SH!markVars, RS!knownVars, SH!knownVars,
            RS!requestVars, SH!requestVars, RS!callVars, SH!callVars, RS!IsTold, SH!IsTold,
            RS!BeingDestroyed, SH!BeingDestroyed, RS!AfterVisible, SH!AfterVisible,
            RS!AfterDisplay, SH!AfterDisplay, RS!Activates, SH!Activates, RS!CanRun, SH!CanRun,
            RS!OverRpc, SH!OverRpc, RS!WorkerIsFree, SH!WorkerIsFree, RS!BusyWorkers,
            SH!BusyWorkers, RS!InProgress, SH!InProgress, RS!Clients, SH!Clients, RS!ToSet,
            SH!ToSet, RS!Cardinality, SH!Cardinality, RS!displayVars, SH!displayVars,
            RS!HasStateControl, SH!HasStateControl, RS!MayLackStateControl,
            SH!MayLackStateControl
<1>1. \A c : (RS!FindPlugin(c) <=> SH!FindPlugin(c))
  BY DEF RS!FindPlugin, SH!FindPlugin
<1>2. \A c : (RS!Clone(c) <=> SH!Clone(c))
  BY DEF RS!Clone, SH!Clone
<1>3. \A c : (RS!Configure(c) <=> SH!Configure(c))
  BY DEF RS!Configure, SH!Configure
<1>4. \A c : (RS!RegisterNotification(c) <=> SH!RegisterNotification(c))
  BY DEF RS!RegisterNotification, SH!RegisterNotification
<1>5. \A c : (RS!SetState(c) <=> SH!SetState(c))
  BY DEF RS!SetState, SH!SetState
<1>6. \A c : (RS!SetVisibility(c) <=> SH!SetVisibility(c))
  BY DEF RS!SetVisibility, SH!SetVisibility
<1>7. \A c : (RS!Tell(c) <=> SH!Tell(c))
  BY DEF RS!Tell, SH!Tell
<1>8. \A c : (RS!EndLaunch(c) <=> SH!EndLaunch(c))
  BY DEF RS!EndLaunch, SH!EndLaunch
<1>9. \A c : (RS!IsRequested(c) <=> SH!IsRequested(c))
  BY DEF RS!IsRequested, SH!IsRequested
<1>10. \A c : (RS!IsClient(c) <=> SH!IsClient(c))
  BY DEF RS!IsClient, SH!IsClient
<1>11. \A c : (RS!CreateDisplay(c) <=> SH!CreateDisplay(c))
  BY DEF RS!CreateDisplay, SH!CreateDisplay
<1>12. \A c : (RS!AwaitDisplay(c) <=> SH!AwaitDisplay(c))
  BY DEF RS!AwaitDisplay, SH!AwaitDisplay
<1>13. \A c : (RS!Activate(c) <=> SH!Activate(c))
  BY DEF RS!Activate, SH!Activate
<1>14. \A c : (RS!ActivateAtOnce(c) <=> SH!ActivateAtOnce(c))
  BY DEF RS!ActivateAtOnce, SH!ActivateAtOnce
<1>15. \A c : (RS!Remember(c) <=> SH!Remember(c))
  BY DEF RS!Remember, SH!Remember
<1>16. \A c : (RS!Activated(c) <=> SH!Activated(c))
  BY DEF RS!Activated, SH!Activated
<1>17. \A c : (RS!Deactivate(c) <=> SH!Deactivate(c))
  BY DEF RS!Deactivate, SH!Deactivate
<1>18. \A c : (RS!DeactivateAtOnce(c) <=> SH!DeactivateAtOnce(c))
  BY DEF RS!DeactivateAtOnce, SH!DeactivateAtOnce
<1>19. \A c : (RS!MarkExternal(c) <=> SH!MarkExternal(c))
  BY DEF RS!MarkExternal, SH!MarkExternal
<1>20. \A c : (RS!Unregister(c) <=> SH!Unregister(c))
  BY DEF RS!Unregister, SH!Unregister
<1>21. \A c : (RS!KillClient(c) <=> SH!KillClient(c))
  BY DEF RS!KillClient, SH!KillClient
<1>22. \A c : (RS!AwaitKill(c) <=> SH!AwaitKill(c))
  BY DEF RS!AwaitKill, SH!AwaitKill
<1>23. \A c : (RS!Forget(c) <=> SH!Forget(c))
  BY DEF RS!Forget, SH!Forget
<1>24. \A c : (RS!Deinitialized(c) <=> SH!Deinitialized(c))
  BY DEF RS!Deinitialized, SH!Deinitialized
<1>25. \A c : (RS!JobIsDone(c) <=> SH!JobIsDone(c))
  BY DEF RS!JobIsDone, SH!JobIsDone
<1>26. \A c : (RS!MarkDestroy(c) <=> SH!MarkDestroy(c))
  BY DEF RS!MarkDestroy, SH!MarkDestroy
<1>27. \A c : (RS!Lock(c) <=> SH!Lock(c))
  BY DEF RS!Lock, SH!Lock
<1>28. \A c : (RS!Unlock(c) <=> SH!Unlock(c))
  BY DEF RS!Unlock, SH!Unlock
<1>29. \A c : (RS!EndDestroy(c) <=> SH!EndDestroy(c))
  BY DEF RS!EndDestroy, SH!EndDestroy
<1>30. RS!Frame <=> SH!Frame
  BY DEF RS!Frame, SH!Frame
<1>31. \A c : (RS!RequestSuspend(c) <=> SH!RequestSuspend(c))
  BY DEF RS!RequestSuspend, SH!RequestSuspend
<1>32. \A c : (RS!MarkLaunch(c) <=> SH!MarkLaunch(c))
  BY DEF RS!MarkLaunch, SH!MarkLaunch
<1>33. \A c : (RS!Suspend(c) <=> SH!Suspend(c))
  BY DEF RS!Suspend, SH!Suspend
<1>34. \A c : (RS!ArriveToDestroy(c) <=> SH!ArriveToDestroy(c))
  BY DEF RS!ArriveToDestroy, SH!ArriveToDestroy
<1>35. \A c : (RS!ArriveFromOutside(c) <=> SH!ArriveFromOutside(c))
  BY DEF RS!ArriveFromOutside, SH!ArriveFromOutside
<1>36. \A c : (RS!ActivationFails(c) <=> SH!ActivationFails(c))
  BY DEF RS!ActivationFails, SH!ActivationFails
<1> QED
  BY <1>1, <1>2, <1>3, <1>4, <1>5, <1>6, <1>7, <1>8, <1>9, <1>10, <1>11, <1>12, <1>13, <1>14,
     <1>15, <1>16, <1>17, <1>18, <1>19, <1>20, <1>21, <1>22, <1>23, <1>24, <1>25, <1>26, <1>27,
     <1>28, <1>29, <1>30, <1>31, <1>32, <1>33, <1>34, <1>35, <1>36
     DEF RS!Next, SH!Next, RS!Runs, SH!Runs, RS!Launch, SH!Launch, RS!Display, SH!Display,
         RS!Job, SH!Job, RS!Destroy, SH!Destroy, RS!Calls, SH!Calls, RS!shellVars, SH!shellVars

(* A step of the composition is one of each plugin or leaves it as it is.    *)
LEMMA StepOfEach ==
  ASSUME [Next]_vars
  PROVE  /\ [PM!Next]_(PM!packageVars) /\ [SM!Next]_(SM!storageVars) /\ [RM!Next]_(RM!runtimeVars)
         /\ [PS!Next]_(PS!storeVars) /\ [PI!Next]_(PI!preinstallVars) /\ [RS!Next]_(RS!shellVars)
         /\ [US!Next]_(US!usbVars)
<1> USE DEF vars, pathVars, packageVars, storageVars, runtimeVars, storeVars, preinstallVars,
            shellVars, usbVars, Only
<1>1. [PM!Next]_(PM!packageVars)
  BY DEF Next, PM!packageVars
<1>2. [SM!Next]_(SM!storageVars)
  BY DEF Next, SM!storageVars
<1>3. [RM!Next]_(RM!runtimeVars)
  BY DEF Next, RM!runtimeVars, RM!uidVars, RM!runVars, RM!reportVars
<1>4. [PS!Next]_(PS!storeVars)
  BY DEF Next, PS!storeVars
<1>5. [PI!Next]_(PI!preinstallVars)
  BY DEF Next, PI!preinstallVars
<1>6. [RS!Next]_(RS!shellVars)
  BY DEF Next, RS!shellVars, RS!markVars, RS!knownVars, RS!requestVars, RS!callVars,
         RS!displayVars
<1>7. [US!Next]_(US!usbVars)
  BY DEF Next, US!usbVars, US!listVars, US!deviceMountVars, US!kernelVars, US!plugVars
<1> QED BY <1>1, <1>2, <1>3, <1>4, <1>5, <1>6, <1>7

(* What the constants of Services are to the instances.                      *)
LEMMA Constants ==
  /\ PM!VersionAssumption /\ PM!LockBoundAssumption
  /\ PI!PackageAssumption /\ PI!VersionOrderAssumption /\ US!DeviceAssumption
  /\ RT!InstanceAssumption /\ RT!UidAssumption /\ SH!CallAssumption
  /\ ST!SizeAssumption /\ ST!PS!LengthAssumption /\ ST!PS!MaximumAssumption
<1>1. RT!InstanceAssumption /\ RT!UidAssumption
  BY RuntimeManagerConstants
     DEF RuntimeManagerConstants, RM!InstanceAssumption, RM!UidAssumption, RT!InstanceAssumption,
         RT!UidAssumption
<1>2. SH!CallAssumption
  BY RDKShellConstants
     DEF RDKShellConstants, RS!CallAssumption, SH!CallAssumption, RS!Kind, SH!Kind
<1>3. ST!SizeAssumption
  BY StorageManagerConstants DEF StorageManagerConstants, SM!SizeAssumption, ST!SizeAssumption
<1>4. ST!PS!LengthAssumption /\ ST!PS!MaximumAssumption
  BY PersistentStoreConstants
     DEF PersistentStoreConstants, PS!LengthAssumption, PS!MaximumAssumption,
         ST!PS!LengthAssumption, ST!PS!MaximumAssumption
<1> QED
  BY <1>1, <1>2, <1>3, <1>4, PackageManagerConstants, PreinstallManagerConstants,
     USBMassStorageConstants
     DEF PackageManagerConstants, PreinstallManagerConstants, USBMassStorageConstants

ServicesInv ==
  PM!TypeOK /\ RT!UidInv /\ PreinstallInv /\ SH!ShellInv /\ UsbInv

LEMMA ServicesInit == ASSUME Init PROVE ServicesInv
<1>1. PM!TypeOK
  <2>1. 0 \in 0..MaxLocks
    BY Constants DEF PM!LockBoundAssumption
  <2> QED BY <2>1 DEF Init, PM!Init, PM!TypeOK
<1>2. RT!UidInv
  <2>1. RT!Init
    BY DEF Init, RM!Init, RT!Init, RM!Uid, RT!Uid, RM!NoUid, RT!NoUid
  <2> QED BY <2>1, Constants, RT!UidInit
<1>3. SH!ShellInv
  <2>1. SH!Init
    BY DEF Init, RS!Init, SH!Init
  <2> QED BY <2>1, Constants, SH!InvInit
<1>4. PreinstallInv /\ UsbInv
  BY Constants, PreinstallInit, UsbInit DEF Init
<1> QED BY <1>1, <1>2, <1>3, <1>4 DEF ServicesInv

LEMMA ServicesStep ==
  ASSUME ServicesInv, [Next]_vars PROVE ServicesInv' /\ [GivenUpUnlocked]_(PM!packageVars)
<1>1. PM!TypeOK' /\ [GivenUpUnlocked]_(PM!packageVars)
  <2>1. CASE PM!Next
    BY <2>1, Constants, PackageStep DEF ServicesInv
  <2>2. CASE UNCHANGED PM!packageVars
    BY <2>2 DEF ServicesInv, PM!packageVars, PM!TypeOK
  <2> QED BY <2>1, <2>2, StepOfEach
<1>2. RT!UidInv'
  <2>1. [RT!Next]_(RT!runtimeVars)
    BY StepOfEach, SameRuntime
  <2> QED BY <2>1, Constants, RT!UidKept DEF ServicesInv
<1>3. SH!ShellInv'
  <2>1. [SH!Next]_(SH!shellVars)
    BY StepOfEach, SameShell
  <2> QED BY <2>1, Constants, SH!InvStep DEF ServicesInv
<1>4. PreinstallInv'
  BY Constants, StepOfEach, PreinstallStep DEF ServicesInv
<1>5. UsbInv'
  BY Constants, StepOfEach, UsbStep DEF ServicesInv
<1> QED BY <1>1, <1>2, <1>3, <1>4, <1>5 DEF ServicesInv

LEMMA ServicesInvariant == Spec => []ServicesInv
<1>1. Init => ServicesInv
  BY ServicesInit
<1>2. ServicesInv /\ [Next]_vars => ServicesInv'
  BY ServicesStep
<1> QED
  BY <1>1, <1>2, PTL DEF Spec

(* The two stores of sizes, whose sums are of finite sets.                   *)
LEMMA QuotaTypes == ASSUME ST!AppsAreFinite PROVE Spec => []ST!TypeOK
<1>1. Init => ST!TypeOK
  BY DEF Init, SM!Init, ST!TypeOK, ST!Amount, ST!None, SM!None
<1>2. ST!TypeOK /\ [Next]_vars => ST!TypeOK'
  BY Constants, StepOfEach, SameStorage, ST!TypesKept
<1> QED
  BY <1>1, <1>2, PTL DEF Spec

LEMMA StoreInvariant == ASSUME ST!NamesAreFinite PROVE Spec => []ST!StoreInv
<1>1. Init => ST!StoreInv
  <2> SUFFICES ASSUME Init PROVE ST!StoreInv
    OBVIOUS
  <2>1. ST!PS!Init
    BY DEF Init, PS!Init, ST!PS!Init, PS!Empty, ST!PS!Empty, PS!Absent, ST!PS!Absent, PS!None,
           ST!PS!None, PS!NoFile, ST!PS!NoFile, PS!NoCall, ST!PS!NoCall
  <2> QED BY <2>1, Constants, ST!StoreInit
<1>2. ST!StoreInv /\ [Next]_vars => ST!StoreInv'
  BY Constants, StepOfEach, SameStore, ST!StoreStep
<1> QED
  BY <1>1, <1>2, PTL DEF Spec

-----------------------------------------------------------------------------
(* Every variable of the plugins keeps its type; among others, a thread      *)
(* between two statements or two looks at a map has a version, a call, a     *)
(* device or a mount to go on with.                                          *)
THEOREM ServicesTypeCorrect ==
  ASSUME ST!AppsAreFinite, ST!NamesAreFinite PROVE Spec => []TypeOK
<1>1. ServicesInv /\ ST!TypeOK /\ ST!StoreInv => TypeOK
  <2>1. SH!ShellInv => RS!TypeOK
    BY DEF SH!ShellInv, SH!TypeOK, RS!TypeOK, SH!At, RS!At
  <2>2. RT!UidInv => RM!TypeOK
    BY DEF RT!UidInv, RT!TypeOK, RM!TypeOK, RT!Uid, RM!Uid, RT!NoUid, RM!NoUid, RT!Job, RM!Job,
           RT!Report, RM!Report
  <2>3. ST!TypeOK => SM!TypeOK
    BY DEF ST!TypeOK, SM!TypeOK, ST!Amount, SM!Amount, ST!Count, SM!Count, ST!None, SM!None
  <2>4. ST!StoreInv => PS!TypeOK
    <3>1. ST!PS!NoFile = PS!NoFile
      BY DEF ST!PS!NoFile, PS!NoFile, ST!PS!Empty, PS!Empty, ST!PS!Absent, PS!Absent, ST!PS!None,
             PS!None
    <3>2. ST!PS!Table = PS!Table
      BY DEF ST!PS!Table, PS!Table, ST!PS!None, PS!None
    <3>3. ST!PS!Call = PS!Call
      BY DEF ST!PS!Call, PS!Call, ST!PS!NoCall, PS!NoCall
    <3> QED BY <3>1, <3>2, <3>3 DEF ST!StoreInv, ST!PS!TypeOK, PS!TypeOK
  <2> QED
    BY <2>1, <2>2, <2>3, <2>4 DEF ServicesInv, TypeOK, PreinstallInv, UsbInv
<1> QED
  BY <1>1, ServicesInvariant, QuotaTypes, StoreInvariant, PTL

(* A version is given up only when nobody holds a lock on it, by Uninstall   *)
(* and by the delayed operation that the last Unlock completes (Package-     *)
(* ManagerImplementation::Uninstall, Unlock).                                *)
THEOREM UnlockedBeforeUninstall == Spec => UninstalledOnlyUnlocked
<1>1. ServicesInv /\ [Next]_vars => [GivenUpUnlocked]_(PM!packageVars)
  BY ServicesStep
<1>2. UninstalledOnlyUnlocked <=> [][GivenUpUnlocked]_(PM!packageVars)
  BY DEF UninstalledOnlyUnlocked, PM!UninstalledOnlyUnlocked, GivenUpUnlocked
<1> QED
  BY <1>1, <1>2, ServicesInvariant, PTL DEF Spec

(* No call promises the applications more than the file system holds, for    *)
(* any number of applications, any sizes and any capacity, whatever fails;   *)
(* only a start may that gives an application more than it had               *)
(* (RequestHandler::hasEnoughStorageFreeSpace).                              *)
THEOREM PromisesFit ==
  ASSUME ST!AppsAreFinite PROVE Spec => CallsDoNotOvercommit
<1>1. ST!TypeOK => (SM!NoOvercommit <=> ST!Fits(mStorageAppInfo, usedKB))
  <2>1. ST!NoOvercommit <=> SM!NoOvercommit
    BY DEF ST!NoOvercommit, SM!NoOvercommit, ST!ReservationSpaceKB, SM!ReservationSpaceKB,
           ST!Reserved, SM!Reserved, ST!Used, SM!Used, ST!None, SM!None, ST!f_bfree, SM!f_bfree,
           ST!MapThenSumSet, SM!MapThenSumSet, ST!MapThenFoldSet, SM!MapThenFoldSet
  <2> QED BY <2>1, Constants, ST!FitsIsNoOvercommit
<1>2. /\ ST!TypeOK /\ ST!TypeOK' /\ ST!Fits(mStorageAppInfo, usedKB) /\ [Next]_vars
      => \/ ST!Fits(mStorageAppInfo, usedKB)'
         \/ SM!Start /\ \E a \in StorageApp : mStorageAppInfo'[a] > mStorageAppInfo[a]
  BY Constants, StepOfEach, SameStorage, ST!FitsKept
<1> QED
  BY <1>1, <1>2, QuotaTypes, PTL DEF Spec, CallsDoNotOvercommit, SM!CallsDoNotOvercommit

(* A start of the StorageManager that reads an application's quota gives it  *)
(* neither more nor less than it had, unless the quota was last set, or read *)
(* by a start, in vain (populateAppInfoCacheFromStoragePath).                *)
THEOREM QuotasSurviveRestarts ==
  ASSUME ST!AppsAreFinite PROVE Spec => []RestartKeepsQuota
<1> DEFINE Kept == ST!TypeOK /\ ST!RestartKeepsQuota
<1>1. Init => Kept
  BY DEF Init, SM!Init, ST!RestartKeepsQuota, ST!TypeOK, ST!Amount, ST!None, SM!None
<1>2. Kept /\ [Next]_vars => Kept'
  <2> SUFFICES ASSUME ST!TypeOK, ST!RestartKeepsQuota, [Next]_vars PROVE Kept'
    OBVIOUS
  <2>1. [ST!Next]_(ST!storageVars)
    BY StepOfEach, SameStorage
  <2>2. ST!TypeOK'
    BY <2>1, Constants, ST!TypesKept
  <2>3. ST!RestartKeepsQuota'
    BY <2>1, <2>2, ST!QuotasKept
  <2> QED BY <2>2, <2>3
<1>3. Kept => RestartKeepsQuota
  BY DEF RestartKeepsQuota, SM!RestartKeepsQuota, ST!RestartKeepsQuota, SM!Restored, ST!Restored,
         SM!None, ST!None
<1> QED
  BY <1>1, <1>2, <1>3, PTL DEF Spec

(* Containers of two applications never run under the same user id           *)
(* (UserIdManager, RuntimeManagerImplementation::Run, Terminate, Kill).      *)
THEOREM UidsAreNotShared == Spec => []UidNotShared
<1>1. ServicesInv => UidNotShared
  <2>1. RT!UidInv => RT!UidNotShared
    BY Constants, RT!UidSuffices
  <2>2. RT!UidNotShared <=> RM!UidNotShared
    BY DEF RT!UidNotShared, RM!UidNotShared, RT!Listed, RM!Listed, RT!NoUid, RM!NoUid
  <2> QED BY <2>1, <2>2 DEF ServicesInv, UidNotShared
<1> QED
  BY <1>1, ServicesInvariant, PTL

(* Whatever two callers do between each other's statements and whatever a    *)
(* start after a kill or with a corrupt file restores, the tables outgrow    *)
(* neither _maxSize nor a namespace _limit (Store2::Open).                   *)
THEOREM TablesStayBounded ==
  ASSUME ST!NamesAreFinite PROVE Spec => []StoreIsBounded
<1>1. ST!StoreInv => StoreIsBounded
  <2>1. ST!StoreInv => ST!PS!StoreIsBounded
    BY ST!StoreSuffices
  <2>2. ST!PS!StoreIsBounded <=> PS!StoreIsBounded
    BY DEF ST!PS!StoreIsBounded, PS!StoreIsBounded, ST!PS!TotalSize, PS!TotalSize, ST!PS!NsSize,
           PS!NsSize, ST!PS!Row, PS!Row, ST!PS!None, PS!None, ST!PS!Cardinality, PS!Cardinality,
           ST!PS!MapThenSumSet, PS!MapThenSumSet, ST!PS!MapThenFoldSet, PS!MapThenFoldSet
  <2> QED BY <2>1, <2>2 DEF StoreIsBounded
<1> QED
  BY <1>1, StoreInvariant, PTL

(* No package of the directory is left out without a version that is at least*)
(* as new being installed, for any directory, any versions and any list the  *)
(* PackageManager returns (StartPreinstall, isNewerVersion).                 *)
THEOREM NewerIsTried == Spec => []NothingNewerIsLeftOut
<1>1. ServicesInv => NothingNewerIsLeftOut
  BY PreinstallSuffices DEF ServicesInv, NothingNewerIsLeftOut
<1> QED
  BY <1>1, ServicesInvariant, PTL

(* RDKShell knows every active plugin, and has left nothing behind of one    *)
(* that is not, whatever calls overlap (launchWrapper, handleInitialize,     *)
(* handleDeactivated, handleDeinitialized).                                  *)
THEOREM ShellKnowsItsPlugins == Spec => []ShellKnowsThePlugins
<1>1. ServicesInv => ShellKnowsThePlugins
  <2>1. SH!ShellInv => SH!ShellKnowsThePlugins
    BY SH!InvSuffices
  <2>2. SH!ShellKnowsThePlugins <=> RS!ShellKnowsThePlugins
    BY DEF SH!ShellKnowsThePlugins, RS!ShellKnowsThePlugins, SH!Clients, RS!Clients, SH!ToSet,
           RS!ToSet
  <2> QED BY <2>1, <2>2 DEF ServicesInv, ShellKnowsThePlugins
<1> QED
  BY <1>1, ServicesInvariant, PTL

(* What USBMassStorage records of a device is mounted, of one device only,   *)
(* unless a job is unmounting it (USBMassStorageImplementation::DeviceMount, *)
(* DispatchUnMountEvent).                                                    *)
THEOREM RecordsStayMounted == Spec => []RecordedIsMounted
<1>1. ServicesInv => RecordedIsMounted
  BY DEF ServicesInv, UsbInv, Kernel, Records, RecordedIsMounted, US!RecordedIsMounted
<1> QED
  BY <1>1, ServicesInvariant, PTL
=============================================================================
