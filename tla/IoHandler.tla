------------------------------ MODULE IoHandler ------------------------------
(***************************************************************************)
(* The event dispatcher md_io_handler of src/src/io_handler.c: a table of   *)
(* registered descriptors, and md_io_handler_process, which polls them all  *)
(* and calls back the ones with something to report.                        *)
(*                                                                          *)
(* poll sees a copy of the table; the callbacks change the table itself.  A *)
(* registration is its descriptor and whether it asks to read: its callback *)
(* and user_data are the ones it was registered with, so the descriptor     *)
(* names them.                                                              *)
(***************************************************************************)
EXTENDS Integers, SequencesExt

CONSTANTS
    Fds,
    Nobody,         \* no descriptor
    MaxFds          \* md_io_handler_create's max_fds

ASSUME IoHandlerAssumption == Nobody \notin Fds /\ MaxFds \in Nat \ {0}

VARIABLES
    at,             \* where the program is: no handler, outside process, in poll, dispatching,
                    \* or in a callback
    table,          \* handler->registrations
    fd,             \* what each descriptor has to say
    pfds,           \* the copy poll has filled in
    result,         \* what poll returned
    reached,        \* i: the entry of the copy the dispatcher is at
    dispatched,
    called,         \* the descriptor a callback is given, the one it was registered for, the events
    churn           \* what the callbacks of this round have done to the table

ioVars == <<at, table, fd, pfds, result, reached, dispatched, called, churn>>

-----------------------------------------------------------------------------
States == {"quiet", "readable", "hungup", "closed"}
NotCalled == [fd |-> Nobody, owner |-> Nobody, events |-> {}]

IoInit ==
    /\ at = "absent" /\ table = <<>>
    /\ fd = [f \in Fds |-> "quiet"]
    /\ pfds = <<>> /\ result = 0 /\ reached = 1 /\ dispatched = 0
    /\ called = NotCalled /\ churn = {}

Registered(f) == \E k \in DOMAIN table : table[k].fd = f
RoundVars == <<pfds, result, reached, dispatched>>

Create ==
    /\ at = "absent" /\ at' = "idle"
    /\ table' = <<>>
    /\ UNCHANGED <<fd, RoundVars, called, churn>>

Destroy ==
    /\ at = "idle" /\ at' = "absent"
    /\ table' = <<>>
    /\ UNCHANGED <<fd, RoundVars, called, churn>>

-----------------------------------------------------------------------------
(* The table.                                                               *)

\* What a change of the table by a callback is, seen from the round.
Noted(kind) == churn' = IF at = "callback" THEN churn \cup {kind} ELSE churn

\* Mutant: the new registration goes to the front.
RegisterFirst(f, read) ==
    /\ IF Registered(f) \/ Len(table) >= MaxFds THEN UNCHANGED <<table, churn>>
       ELSE table' = <<[fd |-> f, read |-> read]>> \o table /\ Noted("added")
    /\ UNCHANGED <<at, fd, RoundVars, called>>

\* MD_ERROR_SESSION_EXISTS and MD_ERROR_BUFFER_OVERFLOW change nothing.
Register(f, read) ==
    /\ IF Registered(f) \/ Len(table) >= MaxFds THEN UNCHANGED <<table, churn>>
       ELSE table' = Append(table, [fd |-> f, read |-> read]) /\ Noted("added")
    /\ UNCHANGED <<at, fd, RoundVars, called>>

\* The last registration takes the place of the one removed.
Unregister(f) ==
    /\ \E k \in DOMAIN table :
          /\ table[k].fd = f
          /\ table' = [n \in 1 .. (Len(table) - 1) |-> IF n = k THEN Last(table) ELSE table[n]]
    /\ Noted(IF f = called.owner THEN "own removed" ELSE "other removed")
    /\ UNCHANGED <<at, fd, RoundVars, called>>

Modify(f, read) ==
    /\ Registered(f)
    /\ table' = [k \in DOMAIN table |-> IF table[k].fd = f THEN [table[k] EXCEPT !.read = read]
                                        ELSE table[k]]
    /\ UNCHANGED <<at, fd, RoundVars, called, churn>>

-----------------------------------------------------------------------------
(* A round.                                                                 *)

\* What poll reports of a registration, POLLNVAL for a closed descriptor included.
Revents(r) ==
    CASE fd[r.fd] = "closed" -> {"invalid"}
      [] fd[r.fd] = "hungup" -> {"hangup"} \cup (IF r.read THEN {"read"} ELSE {})
      [] fd[r.fd] = "readable" -> IF r.read THEN {"read"} ELSE {}
      [] OTHER -> {}

\* md_io_handler_process, up to the call of poll.  An empty table is MD_ERROR_INVALID_ARG.
Process ==
    /\ at = "idle" /\ table # <<>>
    /\ at' = "polling"
    /\ UNCHANGED <<table, fd, RoundVars, called, churn>>

Polled == [k \in DOMAIN table |-> [fd |-> table[k].fd, revents |-> Revents(table[k])]]
Ready == {k \in DOMAIN table : Revents(table[k]) # {}}

PollReports ==
    /\ at = "polling" /\ Ready # {}
    /\ at' = "dispatch"
    /\ pfds' = Polled /\ result' = Cardinality(Ready)
    /\ reached' = 1 /\ dispatched' = 0 /\ churn' = {}
    /\ UNCHANGED <<table, fd, called>>

PollTimesOut ==
    /\ at = "polling" /\ Ready = {}
    /\ at' = "idle"
    /\ UNCHANGED <<table, fd, RoundVars, called, churn>>

\* The handler of a signal ran: poll returns -1, and so does md_io_handler_process.
PollInterrupted ==
    /\ at = "polling"
    /\ at' = "idle"
    /\ UNCHANGED <<table, fd, RoundVars, called, churn>>

\* The loop's condition: the table as it is now, the count poll gave.
More == reached <= Len(table) /\ dispatched < result

\* What pfds[reached] holds: beyond the copy, whatever the memory there reads as.
Entries == IF reached <= Len(pfds) THEN {pfds[reached]}
           ELSE [fd : Fds, revents : SUBSET {"read", "hangup"}]

\* The callback of the registration reached is called with what the entry reached says;
\* an entry with nothing the dispatcher knows is passed over.
DispatchNext ==
    /\ at = "dispatch" /\ More
    /\ \E entry \in Entries :
          IF entry.revents \cap {"read", "hangup"} # {}
          THEN /\ at' = "callback"
               /\ called' = [fd |-> entry.fd, owner |-> table[reached].fd, events |-> entry.revents]
               /\ UNCHANGED reached
          ELSE /\ reached' = reached + 1
               /\ UNCHANGED <<at, called>>
    /\ UNCHANGED <<table, fd, pfds, result, dispatched, churn>>

CallbackReturns ==
    /\ at = "callback"
    /\ at' = "dispatch" /\ reached' = reached + 1 /\ dispatched' = dispatched + 1
    /\ called' = NotCalled
    /\ UNCHANGED <<table, fd, pfds, result, churn>>

RoundEnds ==
    /\ at = "dispatch" /\ ~More
    /\ at' = "idle"
    /\ pfds' = <<>> /\ result' = 0 /\ reached' = 1 /\ dispatched' = 0 /\ churn' = {}
    /\ UNCHANGED <<table, fd, called>>

-----------------------------------------------------------------------------
(* The descriptors.  A pipe of md_signal_create_self_pipe is one of them:   *)
(* md_signal_notify makes it readable, md_signal_clear_notification reads   *)
(* some of what is there.                                                   *)

Becomes(f, s) ==
    /\ fd[f] # "closed"
    /\ fd' = [fd EXCEPT ![f] = s]
    /\ UNCHANGED <<at, table, RoundVars, called, churn>>

Arrives(f) == fd[f] = "quiet" /\ Becomes(f, "readable")     \* md_signal_notify among others
HangsUp(f) == fd[f] \in {"quiet", "readable"} /\ Becomes(f, "hungup")
Drain(f) == fd[f] = "readable" /\ Becomes(f, "quiet")       \* md_nb_read
Close(f) == Becomes(f, "closed")                            \* md_close_fd

\* Outside process and in a callback the program may do anything with table and descriptors.
TableCall ==
    /\ at \in {"idle", "callback"}
    /\ \E f \in Fds :
          \/ Register(f, TRUE) \/ Unregister(f)
          \/ \E read \in BOOLEAN : Modify(f, read)
          \/ Drain(f) \/ Close(f)

\* md_io_handler_process, from the call to the return.
ProcessStep ==
    \/ Process \/ PollReports \/ PollTimesOut \/ PollInterrupted
    \/ DispatchNext \/ CallbackReturns \/ RoundEnds

\* What happens to a descriptor is seen by the next poll, so it may as well happen there.
World == at = "polling" /\ \E f \in Fds : Arrives(f) \/ HangsUp(f)

IoNext == Create \/ Destroy \/ TableCall \/ ProcessStep \/ World

IoSpec == IoInit /\ [][IoNext]_ioVars

-----------------------------------------------------------------------------
(* Properties.                                                              *)

\* A callback is given the descriptor it was registered for, as long as the callbacks before
\* it in the round have only added registrations or modified them, or have only removed their
\* own: it takes the removal of another's, or a removal and an addition together, to put one
\* registration in the place another was polled at (md_io_handler_unregister moves the last).
OwnCallback ==
    at = "callback" =>
        \/ called.fd = called.owner
        \/ "other removed" \in churn
        \/ {"own removed", "added"} \subseteq churn
        \/ reached > Len(pfds)

\* The dispatcher reads past its copy only if a callback has made the table longer and a
\* descriptor polled was closed: poll counts that one and no callback answers for it.
WithinCopy ==
    at = "dispatch" /\ More /\ reached > Len(pfds) =>
        /\ "added" \in churn
        /\ \E k \in DOMAIN pfds : pfds[k].revents = {"invalid"}

\* The callbacks of a round, which change the table it walks, misdirect it only in the ways
\* above (md_io_handler_process).
DispatchIsRight == OwnCallback /\ WithinCopy
=============================================================================
