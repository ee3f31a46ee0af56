\* A cancel() that read "created" before start() left it.
SPECIFICATION Spec
CONSTANTS
  None = None
  Client = {c1, c2}
  HasTimeout = FALSE
INVARIANT ReportedMeansGone
