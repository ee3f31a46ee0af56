------------------------------ MODULE GuestCall ------------------------------
(***************************************************************************)
(* What the supervisor promises a guest thread about one system call: the  *)
(* call is carried out by the kernel once, or answered by the supervisor   *)
(* once, never both; the thread then continues with the result of exactly  *)
(* that.  A call the kernel refuses under a seccomp filter the guest       *)
(* installed itself ends in the guest's own SIGSYS handler.                *)
(***************************************************************************)
CONSTANTS Threads, Leader

VARIABLES phase,    \* none, user, asked, ran or answered
          result    \* what the return register tells a thread in user mode

vars == <<phase, result>>

Results == {"none", "kernel", "answer", "signal"}

Init == /\ phase = [t \in Threads |-> IF t = Leader THEN "user" ELSE "none"]
        /\ result = [t \in Threads |-> "none"]

Goes(t, ph, r) == /\ phase' = [phase EXCEPT ![t] = ph]
                  /\ result' = [result EXCEPT ![t] = r]

Ask(t) == phase[t] = "user" /\ Goes(t, "asked", "none")

\* The two ways to serve a call; the supervisor's answer may be the return itself.
Run(t) == phase[t] = "asked" /\ Goes(t, "ran", "none")

Answer(t) == phase[t] = "asked" /\ Goes(t, "answered", "none")

Return(t) == \/ phase[t] = "ran" /\ Goes(t, "user", "kernel")
             \/ phase[t] \in {"asked", "answered"} /\ Goes(t, "user", "answer")
             \/ phase[t] = "asked" /\ Goes(t, "user", "signal")
             \* run and return at once, when no exit stop was asked for
             \/ phase[t] = "asked" /\ Goes(t, "user", "kernel")

\* clone returns in both threads.
Clone(t, u) == /\ phase[t] = "asked" /\ phase[u] = "none"
               /\ phase' = [phase EXCEPT ![t] = "ran", ![u] = "ran"]
               /\ UNCHANGED result

\* The new image replaces every thread of the process; the leader goes on.
Exec(t) == /\ phase[t] = "asked"
           /\ phase' = [u \in Threads |-> IF u = Leader THEN "ran" ELSE "none"]
           /\ result' = [u \in Threads |-> "none"]

Die == /\ phase' = [u \in Threads |-> "none"]
       /\ result' = [u \in Threads |-> "none"]

Next == \/ \E t \in Threads : \/ Ask(t) \/ Run(t) \/ Answer(t) \/ Return(t)
                              \/ Exec(t)
                              \/ \E u \in Threads : Clone(t, u)
        \/ Die

Spec == Init /\ [][Next]_vars
=============================================================================
