--------------------------- MODULE MCSyscallStops ---------------------------
EXTENDS SyscallStops

\* Every call for the leader, the ones that race with it for a second thread.
MCCalls == Calls
MCOther == {"openat", "execve"}

\* Seccomp acceleration and GET_SYSCALL_INFO on and off, with and without a host
\* policy; an emulated identity with emulated links, and one kind of session without.
MCOptions == {o \in [seccomp : BOOLEAN, info : BOOLEAN, policy : BOOLEAN, identity : BOOLEAN,
                     links : BOOLEAN, sockets : {"host", "none", "audit"}] :
                 /\ o.identity \/ (o.seccomp /\ o.info /\ o.policy)
                 /\ o.links = o.identity
                 /\ o.sockets = IF ~o.identity THEN "host" ELSE IF o.policy THEN "audit" ELSE "none"}
=============================================================================
