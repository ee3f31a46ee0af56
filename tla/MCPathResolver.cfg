CONSTANTS
  Names = {"a", "c"}
  DirIds = {"D1", "D2"}
  LinkIds = {"K1", "K2", "K3", "K4", "K5", "K6"}
  TargetOf <- MCTargetOf
  GuestPaths <- MCPaths
  EditPaths <- MCEdits
  MaxSymlinks = 3
  MaxEntries = 2
  MaxRounds = 24
  MaxLinks = 1
SPECIFICATION Spec
INVARIANTS
  LookupsMatch
  CacheTransparent
PROPERTIES
  Contained
