----------------------------- MODULE MCSession -----------------------------
(* Session for TLC; the clients and the timeout come from the cfg.         *)
EXTENDS Session
=============================================================================
