-------------------------- MODULE PreinstallManager -------------------------
(* StartPreinstall of the PreinstallManager plugin, against the states the  *)
(* PackageManager keeps: the packages of a directory are installed, each in *)
(* a call of its own, unless the same version or a newer one is there.      *)
EXTENDS Naturals, Sequences, SequencesExt

CONSTANTS
  Package,        \* package ids, numbered
  VersionOrder,   \* the versions in the order of their strings: what sscanf
                  \* reads of them, four numbers, or <<>> of a string without
                  \* three numbers
  MaxFiles,       \* bound: packages in the directory
  InstallState    \* the states that entries may be in

PackageAssumption == Package \subseteq Nat /\ MaxFiles \in Nat
VersionOrderAssumption ==
  VersionOrder \in Seq(Seq(Nat)) /\ \A k \in DOMAIN VersionOrder : Len(VersionOrder[k]) \in {0, 4}
InstallStateAssumption == InstallState \subseteq {"INSTALLED", "UNINSTALLED", "INSTALL_FAILURE"}

VARIABLES
  mState,         \* PackageManager: the state of every package and version
  forceInstall,
  preinstallPackages,
  at,             \* where StartPreinstall is
  installError,
  directory, listed, tried   \* history: the directory read, mState as it was
                             \* listed, and the packages Install was called for

preinstallVars ==
  <<mState, forceInstall, preinstallPackages, at, installError, directory, listed, tried>>

Version == ToSet(VersionOrder)
NotFound == "not found"
File == [packageId : Package, version : Version]
States == [Package -> [Version -> InstallState \cup {NotFound}]]

TypeOK ==
  /\ mState \in States /\ listed \in States
  /\ preinstallPackages \in Seq(File) /\ directory \in Seq(File)
  /\ forceInstall \in BOOLEAN /\ installError \in BOOLEAN
  /\ at \in {"filter", "install", "done"}
  /\ tried \subseteq File

(* The directory is read in any order, with the same package in it twice or *)
(* not.                                                                     *)
Init ==
  /\ mState \in States /\ listed = mState
  /\ preinstallPackages \in UNION {[1..n -> File] : n \in 0..MaxFiles}
  /\ directory = preinstallPackages
  /\ forceInstall \in BOOLEAN
  /\ at = IF forceInstall THEN "install" ELSE "filter"
  /\ installError = FALSE /\ tried = {}

-----------------------------------------------------------------------------
(* isNewerVersion: the first number that differs decides.  A string that is *)
(* no version is not newer, and nothing is newer than it.                   *)
(* Slip: no number may be smaller.                                          *)
NewerInAll(v, w) ==
  /\ v # <<>> /\ w # <<>>
  /\ \E k \in 1..4 : v[k] > w[k] /\ \A j \in 1..4 : v[j] >= w[j]

isNewerVersion(v, w) ==
  /\ v # <<>> /\ w # <<>>
  /\ \E k \in 1..4 : v[k] > w[k] /\ \A j \in 1..(k - 1) : v[j] = w[j]

(* ListPackages: the entries in the order of the map.  The loop over them   *)
(* ends at the first entry that is not installed; of several versions of a  *)
(* package the last one counts.                                             *)
Position(v) == CHOOSE k \in DOMAIN VersionOrder : VersionOrder[k] = v

Before(e, f) ==
  \/ e.packageId < f.packageId
  \/ e.packageId = f.packageId /\ Position(e.version) < Position(f.version)

Entries(state) == {e \in File : state[e.packageId][e.version] # NotFound}

Considered(state) ==
  {e \in Entries(state) :
     \A f \in Entries(state) :
       f = e \/ Before(f, e) => state[f.packageId][f.version] = "INSTALLED"}

existingApps(state, p) ==
  {e.version : e \in {e \in Considered(state) :
     e.packageId = p /\ \A f \in Considered(state) : ~(f.packageId = p /\ Before(e, f))}}

NotNewer(state, e) ==
  \E v \in existingApps(state, e.packageId) : ~isNewerVersion(e.version, v)

(* The loop over the packages of the directory, which erases some of them.  *)
Filtered(state, packages) ==
  LET kept[n \in 0..Len(packages)] ==
        IF n = 0 THEN <<>>
        ELSE IF NotNewer(state, packages[n]) THEN kept[n - 1]
        ELSE Append(kept[n - 1], packages[n])
  IN kept[Len(packages)]

-----------------------------------------------------------------------------
FilterPackages ==
  /\ at = "filter" /\ at' = "install"
  /\ listed' = mState
  /\ preinstallPackages' = Filtered(mState, preinstallPackages)
  /\ UNCHANGED <<mState, forceInstall, installError, directory, tried>>

(* The next package; one that fails does not keep the others from it.       *)
InstallPackage ==
  /\ at = "install" /\ preinstallPackages # <<>>
  /\ LET e == Head(preinstallPackages) IN
     \E state \in InstallState \cap {"INSTALLED", "INSTALL_FAILURE"} :
       /\ mState' = [mState EXCEPT ![e.packageId][e.version] = state]
       /\ installError' = (installError \/ state # "INSTALLED")
       /\ tried' = tried \cup {e}
  /\ preinstallPackages' = Tail(preinstallPackages)
  /\ UNCHANGED <<forceInstall, at, directory, listed>>

Finish ==
  /\ at = "install" /\ preinstallPackages = <<>>
  /\ at' = "done"
  /\ UNCHANGED <<mState, forceInstall, preinstallPackages, installError, directory, listed,
                 tried>>

(* Another caller of the PackageManager.                                    *)
Uninstall(e) ==
  /\ "UNINSTALLED" \in InstallState
  /\ mState[e.packageId][e.version] = "INSTALLED"
  /\ mState' = [mState EXCEPT ![e.packageId][e.version] = "UNINSTALLED"]
  /\ UNCHANGED <<forceInstall, preinstallPackages, at, installError, directory, listed, tried>>

Next == FilterPackages \/ InstallPackage \/ Finish \/ \E e \in File : Uninstall(e)

Spec == Init /\ [][Next]_preinstallVars
-----------------------------------------------------------------------------
(* The order of versions, most significant number first.  A string that is  *)
(* no version is neither newer nor older than anything.                     *)
AtLeastAsNew(v, w) ==
  \/ v = <<>> \/ w = <<>>
  \/ v[1] > w[1]
  \/ v[1] = w[1] /\ (\/ v[2] > w[2]
                     \/ v[2] = w[2] /\ (v[3] > w[3] \/ (v[3] = w[3] /\ v[4] >= w[4])))

(* No package of the directory is left out without a version that is at     *)
(* least as new being installed, whatever the list of packages looks like   *)
(* and whoever failed before it (StartPreinstall, isNewerVersion).          *)
NothingNewerIsLeftOut ==
  at = "done" =>
    \A k \in DOMAIN directory :
      LET e == directory[k] IN
      e \in tried
        \/ \E v \in Version : /\ listed[e.packageId][v] = "INSTALLED"
                              /\ AtLeastAsNew(v, e.version)

(* PreinstallManagerImplementation.cpp:384: "not newer (equal or older) ->  *)
(* skip install": a version is not installed again, or over a newer one.    *)
OlderIsSkipped ==
  ~forceInstall =>
    \A e \in tried, v \in Version :
      listed[e.packageId][v] = "INSTALLED" => ~AtLeastAsNew(v, e.version)
=============================================================================
