\* Two processes of a root session; the child's id is used again.
SPECIFICATION Spec
CONSTANTS
  Keep = Keep
  Pid = {m, c}
  Main = m
  Uid = {0, 1}
  Gid = {0}
  UidCalls <- DropAndTakeBack
  GidCalls <- OneGid
  SessionUid = 0
  SessionGid = 0
  Program = {sh, tool}
  Shell = sh
  LateEvents = TRUE
CHECK_DEADLOCK FALSE
INVARIANTS
  TypeOK
  TimelyStateIsKernels
  NoStaleEntry
PROPERTIES
  DroppedUntilLateEvent
