SPECIFICATION Spec
CONSTANTS
  Package = {1, 2}
  VersionOrder <- OneVersion
  MaxFiles = 1
  InstallState = {"INSTALLED", "UNINSTALLED"}
INVARIANT OlderIsSkipped
CHECK_DEADLOCK FALSE
