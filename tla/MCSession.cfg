\* A session with a timeout and two client threads: safety and liveness
\* (no symmetry, for the liveness).
SPECIFICATION FairSpec
CONSTANTS
  None = None
  Client = {c1, c2}
  HasTimeout = TRUE
INVARIANTS
  TypeOK
  EndedMeansGone
  ReportsFit
  NothingOutlivesDestroy
PROPERTIES
  OutcomeFinal
  ImplementsLifecycle
  CancelTerminates
  TimeoutTerminates
  CallsReturn
