--------------------------- MODULE MCLldbAdapter ---------------------------
(* Instance of LldbAdapter for TLC: initialize and one more registered request,  *)
(* one request around the table at a time, two stops, so that a stop is reported, *)
(* waited for, resumed from and reported again, and its report can come before    *)
(* the answer to the command that led to it.                                      *)
EXTENDS LldbAdapter

mcWaits == {2}
mcTimeouts == {1}
=============================================================================
