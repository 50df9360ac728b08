SPECIFICATION Spec
CONSTANTS
  PackageVersion = {1, 2, 3}
  Uninstaller = {"u"}
  MaxLocks = 2
  PackageFailing = {"CreateStorage", "DeleteStorage", "install"}
  StorageApp = {"a", "b"}
  Size = {2, 3}
  Capacity = 4
  StorageFailing = {"mkdir", "rmdir", "nftw", "stat", "GET", "SET", "DELETE", "kill"}
  RuntimeApp = {"a", "b"}
  Inst = {"a1", "b1"}
  RuntimeAppOf <- TheApp
  NumUids = 3
  MinPool = 2
  RuntimeFailing = {"start", "display", "stop"}
  Ns = {"n", "m"}
  Key = {"k"}
  Length = {0, 2}
  StoreThread = {"t", "u"}
  maxSize = 5
  limit = 3
  Limit = {2}
  StoreFailing = {}
  Package = {1, 2}
  VersionOrder <- TenOrTwo
  MaxFiles = 2
  PreinstallState = {"INSTALLED", "UNINSTALLED"}
  ShellApp = {"a", "b"}
  ShellCall = {1, 2, 3, 4, 5}
  ShellAppOf <- CalledFor
  KindOf <- CalledTo
  Installed = {"b"}
  Workers = 3
  ShellFailing = {"type", "clone", "display", "activate", "state"}
  Device = {"d", "e"}
  Partition = {"d1", "e1"}
  PartitionsOf <- OneEach
  MountPath = {1, 2, 3}
  Client = {"c"}
  MaxPlugs = 1
  UsbFailing = {"mkdir", "mount", "umount"}
INVARIANTS TypeOK FoundIffReachable RestartKeepsQuota UidNotShared StoreIsBounded NothingNewerIsLeftOut ShellKnowsThePlugins RecordedIsMounted
PROPERTIES NotActivatedToTerminate CallsDoNotOvercommit UninstalledOnlyUnlocked
CHECK_DEADLOCK FALSE
