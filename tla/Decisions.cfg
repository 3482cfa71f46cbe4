CONSTANTS
  Names = {"a", "b", "c"}
  Ports = {1, 2}
  Cmds = {1}
  Resident <- FirstPorts
  Defaults = {"a"}
  Kinds = {"add", "remove"}
  Pinnable = {"b"}
  Reconciles = TRUE
SPECIFICATION Spec
INVARIANTS  PlacementsSound RefusalSound  ManifestSound
 
CHECK_DEADLOCK FALSE
