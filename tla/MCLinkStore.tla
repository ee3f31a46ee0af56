----------------------------- MODULE MCLinkStore -----------------------------
(* LinkStore for TLC: sessions, names (but for the long ones), files and   *)
(* ids are interchangeable.                                                *)
EXTENDS LinkStore, TLC

LinkSymmetry ==
  Permutations(Session) \cup Permutations(Name \ Long) \cup Permutations(File)
    \cup Permutations(Id)

(* A tangled state is checked, and nothing after it.                       *)
NotTangled == ~tangled
==============================================================================
