----------------------------- MODULE MCThreadPool -----------------------------
(* Two workers and three tasks. *)
EXTENDS ThreadPool, TLC

CONSTANTS w1, w2, t1, t2, t3
===============================================================================
