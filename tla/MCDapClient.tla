---------------------------- MODULE MCDapClient ----------------------------
(* Instance of DapClient for TLC.  Three requests are enough for one that timed *)
(* out, one in progress and one refused by a table of two; two unread messages  *)
(* for answers out of order and an answer behind an event.                      *)
EXTENDS DapClient

mcCommands == {"initialize", "disconnect"}
mcEventNames == {"initialized"}
mcTimeouts == {1}
=============================================================================
