----------------------------- MODULE SessionMC -----------------------------
(* A session of two torrents, one after the other, on small instances.     *)
EXTENDS Session

CONSTANTS t1, t2, c1, c2
=============================================================================
