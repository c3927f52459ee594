-------------------------------- MODULE MCTui --------------------------------
(* The terminal interface for TLC, one of its parts at a time: `part` is chosen in the     *)
(* initial state.  Three panels, so that the help panel is hidden between two others;      *)
(* files longer and shorter than the views and a line past them; stacks that grow and      *)
(* shrink; a buffer that wraps twice; more commands than the history holds.                *)
EXTENDS TuiPanels, ListPanels, OutputPanel

VARIABLE part

mcPanels == {"source", "help", "output"}
mcTypeOf == [p \in mcPanels |-> p]
mcFiles == {"long", "short"}
mcLength == [f \in mcFiles |-> IF f = "long" THEN 4 ELSE 2]
mcMatches == [f \in mcFiles |-> IF f = "long" THEN {1, 2, 4} ELSE {2}]
mcFrame(f, n) == [file |-> f, line |-> n]
mcStacks == {<<>>, <<mcFrame("short", 2)>>, <<mcFrame("long", 3), mcFrame("short", 1)>>,
             <<mcFrame("long", 4), mcFrame("long", 5)>>}

Init ==
    /\ part \in {"panels", "source", "lists", "output", "history"}
    /\ TuiStart /\ SourceInit /\ ListInit /\ OutputInit /\ HistoryInit
    /\ part \notin {"source", "lists"} => src.follow
    /\ part # "output" => outputHeight = 1

mcOutput == <<outputVars, historyVars>>

Next ==
    /\ UNCHANGED part
    /\ \/ part = "panels" /\ TuiNext /\ UNCHANGED <<src, listVars, mcOutput>>
       \/ part = "source" /\ SourceNext /\ UNCHANGED <<tuiVars, listVars, mcOutput>>
       \/ part = "lists" /\ ListNext /\ UNCHANGED <<tuiVars, mcOutput>>
       \/ part = "lists" /\ Layout /\ UNCHANGED <<tuiVars, listVars, mcOutput>>
       \/ part = "output" /\ OutputNext /\ UNCHANGED <<tuiVars, src, listVars, historyVars>>
       \/ part = "history" /\ HistoryNext /\ UNCHANGED <<tuiVars, src, listVars, outputVars>>

Spec == Init /\ [][Next]_<<part, tuiVars, src, listVars, mcOutput>>
=============================================================================
