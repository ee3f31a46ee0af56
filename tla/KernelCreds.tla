---------------------------- MODULE KernelCreds ----------------------------
(***************************************************************************)
(* External: the rules a Linux kernel applies to the ids of a process, as  *)
(* setuid(2), setreuid(2), setresuid(2), setfsuid(2), fork(2), execve(2)   *)
(* and credentials(7) state them: the reference for what handle_identity   *)
(* emulates ("with the kernel's permission rules applied").                *)
(*                                                                         *)
(* Four ids: r(eal), e(ffective), s(aved), f(ilesystem).  A call either    *)
(* is permitted and has its effect, or changes nothing.                    *)
(***************************************************************************)
CONSTANT Keep    \* (uid_t)-1, "leave this id unchanged"

Given(x, old) == IF x = Keep THEN old ELSE x

(* -1 is no id to set: EINVAL.                                             *)
KernelSetid(c, priv, x) ==
  CASE x = Keep                                  -> c
    [] x # Keep /\ priv                          -> [r |-> x, e |-> x, s |-> x, f |-> x]
    [] x # Keep /\ ~priv /\ x \in {c.r, c.s}     -> [r |-> c.r, e |-> x, s |-> c.s, f |-> x]
    [] OTHER                                     -> c

KernelSetreid(c, priv, r, e) ==
  LET permitted == priv \/ (r \in {Keep, c.r, c.e} /\ e \in {Keep, c.r, c.e, c.s})
      eff == Given(e, c.e)
      savedFollows == r # Keep \/ e \notin {Keep, c.r}
  IN IF permitted
     THEN [r |-> Given(r, c.r), e |-> eff,
           s |-> IF savedFollows THEN eff ELSE c.s, f |-> eff]
     ELSE c

KernelSetresid(c, priv, r, e, s) ==
  LET permitted == priv \/ {r, e, s} \subseteq {Keep, c.r, c.e, c.s}
  IN IF permitted
     THEN [r |-> Given(r, c.r), e |-> Given(e, c.e), s |-> Given(s, c.s),
           f |-> Given(e, c.e)]
     ELSE c

KernelSetfsid(c, priv, x) ==
  IF x # Keep /\ (priv \/ x \in {c.r, c.e, c.s, c.f})
  THEN [c EXCEPT !.f = x] ELSE c

(* execve(2): "the effective user ID of the process is copied to the saved *)
(* set-user-ID"; the filesystem id follows the effective one.              *)
KernelExec(c) == [c EXCEPT !.s = c.e, !.f = c.e]
=============================================================================
