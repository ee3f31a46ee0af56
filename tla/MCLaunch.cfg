CONSTANTS
  Files <- MCFiles
  Links <- MCLinks
  Shells <- MCShells
  Dirs <- MCDirs
  Requests <- MCRequests
  Machine = "x86_64"
  kMaxShebangDepth = 4
  kMaxRequest = 9
  ps = 2
  Pages = 9
SPECIFICATION Spec
INVARIANTS
  StartsAsExecve
  ImageAsLinked
  OutcomeReported
