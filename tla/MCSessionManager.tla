-------------------------- MODULE MCSessionManager --------------------------
(* Instance of SessionManager for TLC: two threads, so that one waits or terminates *)
(* while the other does; two sessions at a time out of three made.                  *)
EXTENDS SessionManager

mcBlocking == {"block"}
mcPids == 1 .. 3
=============================================================================
