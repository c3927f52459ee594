----------------------------- MODULE RemoteCall -----------------------------
(***************************************************************************)
(* What a request/response client promises its caller: one call at a time, *)
(* each under an identifier of its own, and an outcome that is the peer's  *)
(* answer to that identifier or the admission that there was none.         *)
(***************************************************************************)
EXTENDS Naturals

CONSTANT Ids

VARIABLES issued, answered, current, outcome

vars == <<issued, answered, current, outcome>>

NoOutcome == [id |-> 0, is |-> "none"]

Init ==
    /\ issued = {}
    /\ answered = {}
    /\ current = 0
    /\ outcome = NoOutcome

\* A call begins under a fresh identifier.
Issue(n) ==
    /\ current = 0 /\ n \notin issued
    /\ issued' = issued \cup {n}
    /\ current' = n
    /\ UNCHANGED <<answered, outcome>>

\* The peer answers a call at most once, possibly after the caller gave up.
Answer(n, ok) ==
    /\ n \in issued
    /\ \A a \in answered : a.id # n
    /\ answered' = answered \cup {[id |-> n, ok |-> ok]}
    /\ UNCHANGED <<issued, current, outcome>>

\* The call returns the peer's answer to it, or gives up.
Finish ==
    /\ current # 0
    /\ \/ [id |-> current, ok |-> TRUE] \in answered /\ outcome' = [id |-> current, is |-> "ok"]
       \/ [id |-> current, ok |-> FALSE] \in answered /\ outcome' = [id |-> current, is |-> "failed"]
       \/ outcome' = [id |-> current, is |-> "gaveUp"]
    /\ current' = 0
    /\ UNCHANGED <<issued, answered>>

\* A call is refused before it is issued.
Refuse(n) ==
    /\ current = 0 /\ n \notin issued
    /\ outcome' = [id |-> n, is |-> "gaveUp"]
    /\ UNCHANGED <<issued, answered, current>>

\* The caller moves on and forgets the last outcome.
Forget ==
    /\ outcome' = NoOutcome
    /\ UNCHANGED <<issued, answered, current>>

Next ==
    \/ \E n \in Ids : Issue(n) \/ Refuse(n) \/ \E ok \in BOOLEAN : Answer(n, ok)
    \/ Finish
    \/ Forget

Spec == Init /\ [][Next]_vars
=============================================================================
