---------------------------- MODULE MCStateModel ----------------------------
(* Instances of StateModel and StateData for TLC, one at a time: only the reset touches    *)
(* both, and it empties each.  Room for two breakpoints out of three made, all at one      *)
(* place, so that the list fills and a number could fall due for a second use; one hit,    *)
(* which a copy can carry over a reset; two threads, interchangeable because nothing in    *)
(* the model orders them.  Two listeners, which may be the same callback twice, with the   *)
(* variables of one scope; and without listeners three scopes, with as many variables as   *)
(* there are numbers for or with one more, and a largest int that the numbers of scopes 1  *)
(* and 2 stay below, while those of scope 7 overflow into those of scope 1.  One module    *)
(* more than fits.                                                                         *)
EXTENDS StateModel, StateData

VARIABLE part

mcDapIds == {1}
mcLocations == {"x"}
mcSymmetry == Permutations(ThreadIds)
mcDataThreads == {"t"}
mcFrameLists == {<<>>, <<11>>, <<12, 11>>}
mcScopes == {1, 2, 7}
mcCounts == {1000, 1001}
mcWants == [c \in {"all", "some"} |->
              IF c = "all" THEN {"stack", "variable", "exception"} ELSE {"variable"}]

MCInit == part \in {"state", "inspection", "numbers", "modules"} /\ Init /\ InspectionInit /\ ModuleInit

MCNext ==
    /\ UNCHANGED part
    /\ \/ part = "state" /\ Next /\ UNCHANGED dataVars
       \/ /\ part = "inspection" /\ InspectionNext /\ UNCHANGED <<vars, moduleVars>>
          /\ \A i \in DOMAIN varLists' : varLists'[i].of = 1
       \/ part = "numbers" /\ InspectionNext /\ listeners' = <<>> /\ UNCHANGED <<vars, moduleVars>>
       \/ part = "modules" /\ ModuleNext /\ UNCHANGED <<vars, inspection>>

MCSpec == MCInit /\ [][MCNext]_<<part, vars, dataVars>>
=============================================================================
