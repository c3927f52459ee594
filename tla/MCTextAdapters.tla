--------------------------- MODULE MCTextAdapters ---------------------------
(* Instance of TextAdapters for TLC: one place, where two breakpoints can be    *)
(* set, three operations and two stops, enough for an answer to come during the *)
(* next command, a stop to be reported to the wrong reader, and a second        *)
(* breakpoint to be confused with a first.                                      *)
EXTENDS TextAdapters

mcPlaces == {1}
=============================================================================
