---------------------------- MODULE SignalHandler ----------------------------
(***************************************************************************)
(* Signal handling, src/src/signal_handler.c: the actions installed for     *)
(* SIGCHLD, SIGTERM, SIGINT and SIGPIPE, the flags and the pipe the handler *)
(* writes, and the mask.                                                    *)
(*                                                                          *)
(* A handler runs between any two steps of the program, so initialising,    *)
(* undoing an initialisation that failed and shutting down are one step per *)
(* system call, each of the two close of the pipe included.  The handler    *)
(* itself is one step: another of our signals inside it sets the same kind  *)
(* of flag.  A signal whose action is not ours is the program's business,   *)
(* not the module's.                                                        *)
(***************************************************************************)
EXTENDS Integers, Sequences, FiniteSetsExt

CONSTANTS
    PipeCapacity,       \* what the pipe holds before write fails with EAGAIN
    MaxSignals          \* bound: the signals sent in one behaviour

ASSUME SignalAssumption == PipeCapacity \in Nat /\ MaxSignals \in Nat

VARIABLES
    doing,              \* the system call that comes next, Idle outside init and shutdown
    initialized,
    action,             \* the action of each signal: the program's, ours or the default
    saved,              \* old_sigchld, ...: what sigaction returned, or still the zeroes
    pipe,               \* of each end: -1, open, or the number of a closed descriptor
    bytes,              \* unread in the pipe
    shutdownRequested, childChanged,
    mask, oldMask,      \* the blocked signals, and the set kept by md_signal_save_and_block
    pending,            \* sent while blocked
    raised              \* how many signals were sent

installVars == <<doing, initialized, action, saved, pipe>>
handlerVars == <<bytes, shutdownRequested, childChanged>>
maskVars == <<mask, oldMask, pending, raised>>
sigVars == <<installVars, handlerVars, maskVars>>

-----------------------------------------------------------------------------
Signals == {"CHLD", "TERM", "INT", "PIPE"}
Idle == <<>>
Heard == Signals \ {"PIPE"}         \* the handler of SIGPIPE does nothing
PipeEnds == {"read", "write"}
Opened == [e \in PipeEnds |-> "open"]

SigInit ==
    /\ doing = Idle /\ initialized = FALSE
    /\ action = [s \in Signals |-> "original"] /\ saved = [s \in Signals |-> "default"]
    /\ pipe = [e \in PipeEnds |-> "none"] /\ bytes = 0
    /\ shutdownRequested = FALSE /\ childChanged = FALSE
    /\ mask = {} /\ oldMask = {} /\ pending = {} /\ raised = 0

-----------------------------------------------------------------------------
(* The handler.                                                             *)

\* signal_handler runs for each signal of the set: the flag first, then a byte in the pipe.
Handle(set) ==
    LET noted == {s \in set : s \in Heard /\ action[s] = "ours"}
    IN  /\ shutdownRequested' = (shutdownRequested \/ noted \cap {"TERM", "INT"} # {})
        /\ childChanged' = (childChanged \/ "CHLD" \in noted)
        /\ bytes' = IF pipe = Opened THEN Min({bytes + Cardinality(noted), PipeCapacity})
                    ELSE bytes

\* Somebody sends s, whose action is ours: now, or when s is unblocked.
Deliver(s) ==
    /\ action[s] = "ours" /\ raised < MaxSignals
    /\ raised' = raised + 1
    /\ IF s \in mask THEN pending' = pending \cup {s} /\ UNCHANGED handlerVars
       ELSE Handle({s}) /\ UNCHANGED pending
    /\ UNCHANGED <<installVars, mask, oldMask>>

-----------------------------------------------------------------------------
(* Initialising.                                                            *)

SignalInit ==
    /\ doing = Idle /\ ~initialized
    /\ pipe' = Opened /\ bytes' = 0
    /\ doing' = <<"install", "CHLD">>
    /\ UNCHANGED <<initialized, action, saved, shutdownRequested, childChanged, maskVars>>

Installed(s, next) ==
    /\ doing = <<"install", s>>
    /\ saved' = [saved EXCEPT ![s] = action[s]]
    /\ action' = [action EXCEPT ![s] = "ours"]
    /\ doing' = <<"install", next>>
    /\ UNCHANGED <<initialized, pipe, handlerVars, maskVars>>

Restored(s) == [action EXCEPT ![s] = saved[s]]
Closed(e, number) == [pipe EXCEPT ![e] = number]
After(order, work, call) == IF order[call] = "done" THEN Idle ELSE <<work, order[call]>>

\* Mutant: a failure leaves the handler of SIGCHLD in place.
UndoOrderForgets ==
    [INT |-> "TERM", TERM |-> "read", CHLD |-> "read", read |-> "write", write |-> "done"]

\* Mutant: a failure closes the pipe first.
UndoOrderCloses ==
    [INT |-> "read", read |-> "write", write |-> "TERM", TERM |-> "CHLD", CHLD |-> "done"]

\* The calls that follow the failure of a sigaction: each error path starts after its own.
UndoOrder ==
    [INT |-> "TERM", TERM |-> "CHLD", CHLD |-> "read", read |-> "write", write |-> "done"]

Failed(s) ==
    /\ doing = <<"install", s>>
    /\ doing' = After(UndoOrder, "undo", s)
    /\ UNCHANGED <<initialized, action, saved, pipe, handlerVars, maskVars>>

UndoRestored(s) ==
    /\ doing = <<"undo", s>>
    /\ action' = Restored(s)
    /\ doing' = After(UndoOrder, "undo", s)
    /\ UNCHANGED <<initialized, saved, pipe, handlerVars, maskVars>>

\* The numbers of the descriptors are kept.
UndoClosed(e) ==
    /\ doing = <<"undo", e>>
    /\ pipe' = Closed(e, "stale")
    /\ doing' = After(UndoOrder, "undo", e)
    /\ UNCHANGED <<initialized, action, saved, handlerVars, maskVars>>

InstallStep ==
    \/ Installed("CHLD", "TERM") \/ Installed("TERM", "INT") \/ Installed("INT", "PIPE")
    \/ \E s \in Heard : Failed(s)
    \/ \E s \in {"TERM", "CHLD"} : UndoRestored(s)
    \/ \E e \in PipeEnds : UndoClosed(e)
    \/ Installed("PIPE", "flags")
    \/ /\ doing = <<"install", "PIPE">> /\ doing' = <<"install", "flags">>        \* this failure is only logged
       /\ UNCHANGED <<initialized, action, saved, pipe, handlerVars, maskVars>>

\* The flags are cleared last, whatever the handlers have noted since they were installed.
FlagsCleared ==
    /\ doing = <<"install", "flags">>
    /\ initialized' = TRUE /\ shutdownRequested' = FALSE /\ childChanged' = FALSE
    /\ doing' = Idle
    /\ UNCHANGED <<action, saved, pipe, bytes, maskVars>>

-----------------------------------------------------------------------------
(* Shutting down.                                                           *)

ShutdownOrder ==
    [CHLD |-> "TERM", TERM |-> "INT", INT |-> "PIPE", PIPE |-> "read", read |-> "write",
     write |-> "done"]

SignalShutdown ==
    /\ doing = Idle /\ initialized
    /\ doing' = <<"restore", "CHLD">>
    /\ UNCHANGED <<initialized, action, saved, pipe, handlerVars, maskVars>>

RestoreStep ==
    \E s \in Signals :
        /\ doing = <<"restore", s>>
        /\ action' = Restored(s)
        /\ doing' = After(ShutdownOrder, "restore", s)
        /\ UNCHANGED <<initialized, saved, pipe, handlerVars, maskVars>>

PipeClosed ==
    \E e \in PipeEnds :
        /\ doing = <<"restore", e>>
        /\ pipe' = Closed(e, "none")
        /\ doing' = After(ShutdownOrder, "restore", e)
        /\ initialized' = (initialized /\ doing' # Idle)
        /\ UNCHANGED <<action, saved, handlerVars, maskVars>>

-----------------------------------------------------------------------------
(* The mask: what becomes unblocked is handled before the call returns.     *)

SetMask(m) ==
    /\ mask' = m
    /\ pending' = pending \cap m
    /\ Handle(pending \ m)
    /\ UNCHANGED <<installVars, raised>>

Block(set) == SetMask(mask \cup set) /\ UNCHANGED oldMask
Unblock(set) == SetMask(mask \ set) /\ UNCHANGED oldMask
SaveAndBlock(set) == SetMask(mask \cup set) /\ oldMask' = mask
RestoreMask == SetMask(oldMask) /\ UNCHANGED oldMask

RequestShutdown ==
    /\ shutdownRequested' = TRUE
    /\ UNCHANGED <<installVars, bytes, childChanged, maskVars>>

ClearShutdownRequest ==
    /\ shutdownRequested' = FALSE
    /\ UNCHANGED <<installVars, bytes, childChanged, maskVars>>

\* What the program itself does; the mask is its to change, here around SIGTERM and SIGINT.
SignalCall ==
    \/ SignalInit \/ InstallStep \/ FlagsCleared
    \/ SignalShutdown \/ RestoreStep \/ PipeClosed
    \/ /\ doing = Idle
       /\ \/ \E set \in {{"TERM"}, {"TERM", "INT"}} : Block(set) \/ Unblock(set) \/ SaveAndBlock(set)
          \/ RestoreMask
          \/ RequestShutdown \/ ClearShutdownRequest

SigNext == SignalCall \/ \E s \in Signals : Deliver(s)

SigSpec == SigInit /\ [][SigNext]_sigVars

-----------------------------------------------------------------------------
(* Properties.                                                              *)

\* Whoever handles a signal finds both ends of the pipe open: a handler never writes into a
\* descriptor that has been closed and may by now be another file, nor into a pipe nobody
\* can read, between any two calls of an initialisation, of the undoing of one that failed
\* and of a shutdown (signal_handler, md_signal_init, md_signal_shutdown).
PipeOpenWhileHandled ==
    \A s \in Heard : action[s] = "ours" => pipe = Opened

\* When the module is not in use the program has its own actions back, however far an
\* initialisation got before it failed (md_signal_init's error paths, md_signal_shutdown).
ActionsRestored ==
    doing = Idle /\ ~initialized => \A s \in Heard : action[s] = "original"
=============================================================================
