------------------------------- MODULE MCPool -------------------------------
(* Small instances of Pool.  Two goroutines are enough for one to unlock   *)
(* the mutex under the other's feet; three sessions are a session that     *)
(* dies, its replacement and a redundant one.                              *)
EXTENDS Pool

Kcp == {"kcp"}
=============================================================================
