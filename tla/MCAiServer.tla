----------------------------- MODULE MCAiServer -----------------------------
(* Instance of AiServer for TLC: a launch by one connection meets a query and a           *)
(* disconnect of the other at the lock and ends before or after them; the launch and the  *)
(* ticker each make an event, so that the event queue and the queue of a connection       *)
(* overflow; the connection with two requests may go away at any time.                    *)
EXTENDS AiServer

mcClients == {"a", "b"}
mcScript == [c \in mcClients |-> IF c = "a" THEN <<"launch">> ELSE <<"query", "disconnect">>]
mcLeavers == {"b"}
=============================================================================
