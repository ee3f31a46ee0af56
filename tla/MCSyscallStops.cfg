CONSTANTS
  NoThread = NoThread
  Threads = {L, N}
  Leader = L
  LeaderCalls <- MCCalls
  OtherCalls <- MCOther
  Options <- MCOptions
SPECIFICATION Spec
INVARIANTS
  TypeOK
  StopsToldApart
  GuestOwnsRegisters
  StandInsRemoved
  RequestFitsImage
PROPERTIES
  ImplementsCalls
