----------------------------- MODULE StateModel -----------------------------
(***************************************************************************)
(* The state model of src/src/state_model.c: the breakpoints, the threads   *)
(* and the execution state that every front end reads, kept up to date by   *)
(* the debugger's events and responses and by the callers' own changes.     *)
(*                                                                          *)
(* One thread uses a model at a time, so a call is one step.  What makes the *)
(* order matter lies outside: the events come in the debugger's order, and a *)
(* caller may write back, much later, a copy of a breakpoint it took before. *)
(* A breakpoint is its numbers, its place, whether it is enabled and how     *)
(* often it was hit; a thread is its number.                                 *)
(***************************************************************************)
EXTENDS Integers, Sequences, SequencesExt

CONSTANTS
    ThreadIds,          \* the debugger's thread numbers
    DapIds,             \* the debugger's breakpoint numbers
    Locations,          \* path and line
    MaxBreakpoints,     \* model->config.max_breakpoints
    MaxThreads,         \* model->config.max_threads
    MaxNextId,          \* bound: model->next_bp_id stops here
    MaxHits             \* bound: debug_state.total_breakpoint_hits stops here

ASSUME StateModelAssumption ==
    /\ -1 \notin ThreadIds /\ DapIds \subseteq Nat        \* MD_INVALID_ID is nobody's number
    /\ Locations # {}
    /\ MaxBreakpoints \in Nat /\ MaxThreads \in Nat
    /\ MaxNextId \in Nat \ {0} /\ MaxHits \in Nat

VARIABLES
    bps,        \* model->breakpoints, the head of the list first
    nextId,     \* model->next_bp_id
    threads,    \* model->threads, the head of the list first
    current,    \* model->current_thread_id
    snapshot,   \* model->debug_state.current_thread_id
    exec,       \* model->exec_state
    hits,       \* model->debug_state.total_breakpoint_hits
    held,       \* the copy of a breakpoint some caller has kept
    notified    \* the kinds of change the listeners were told of in the last step

vars == <<bps, nextId, threads, current, snapshot, exec, hits, held, notified>>

-----------------------------------------------------------------------------
Invalid == -1       \* MD_INVALID_ID
Execs == {"NONE", "RUNNING", "STOPPED", "TERMINATED"}   \* RUNNING: LAUNCHING and STEPPING too

Breakpoints == [id : Nat \cup {Invalid}, dap : DapIds \cup {Invalid}, loc : Locations,
                enabled : BOOLEAN, hits : Nat]

\* md_breakpoint_init, with what a response or an event tells.
Fresh(d, loc) == [id |-> Invalid, dap |-> d, loc |-> loc, enabled |-> TRUE, hits |-> 0]

Init ==
    /\ bps = <<>> /\ nextId = 1
    /\ threads = <<>> /\ current = Invalid /\ snapshot = Invalid
    /\ exec = "NONE" /\ hits = 0
    /\ held = Fresh(Invalid, CHOOSE loc \in Locations : TRUE)
    /\ notified = {}

-----------------------------------------------------------------------------
(* The list of breakpoints.                                                 *)

IdsOf(list) == {list[i].id : i \in DOMAIN list}

\* Entry i is the first with the debugger's number d, at place loc, or with the model's number id.
FirstDap(i, d) == bps[i].dap = d /\ \A j \in 1 .. (i - 1) : bps[j].dap # d
FirstAt(i, loc) == bps[i].loc = loc /\ \A j \in 1 .. (i - 1) : bps[j].loc # loc
FirstId(i, id) == bps[i].id = id /\ \A j \in 1 .. (i - 1) : bps[j].id # id
KnownDap(d) == \E i \in DOMAIN bps : bps[i].dap = d
KnownAt(loc) == \E i \in DOMAIN bps : bps[i].loc = loc

ThreadSide == <<threads, current, snapshot>>

\* md_state_add_breakpoint: at the limit it changes nothing.
Add(b) ==
    /\ IF Len(bps) >= MaxBreakpoints
       THEN UNCHANGED <<bps, nextId>> /\ notified' = {}
       ELSE /\ bps' = <<[b EXCEPT !.id = nextId]>> \o bps
            /\ nextId' = nextId + 1
            /\ notified' = {"breakpoint"}
    /\ UNCHANGED <<ThreadSide, exec, hits, held>>

\* Mutant: a breakpoint that is not in the list is put there.
UpdateUpserts(b) ==
    /\ bps' = IF b.id \in IdsOf(bps) \/ b.id = Invalid \/ Len(bps) >= MaxBreakpoints
              THEN [i \in DOMAIN bps |-> IF bps[i].id = b.id THEN b ELSE bps[i]]
              ELSE <<b>> \o bps
    /\ notified' = {"breakpoint"}
    /\ UNCHANGED <<nextId, ThreadSide, exec, hits, held>>

\* md_state_update_breakpoint: the entry with b's number becomes b.
Update(b) ==
    /\ bps' = [i \in DOMAIN bps |-> IF bps[i].id = b.id THEN b ELSE bps[i]]
    /\ notified' = IF b.id \in IdsOf(bps) THEN {"breakpoint"} ELSE {}
    /\ UNCHANGED <<nextId, ThreadSide, exec, hits, held>>

-----------------------------------------------------------------------------
(* Changes the callers make.                                                *)

MayAdd == nextId < MaxNextId

\* An adapter adds the breakpoint it has just set, without looking for one at its place.
SetBreakpoint(d, loc) == MayAdd /\ Add(Fresh(d, loc))

RemoveBreakpoint(id) ==
    /\ \E i \in DOMAIN bps : FirstId(i, id) /\ bps' = RemoveAt(bps, i)
    /\ notified' = {"breakpoint"}
    /\ UNCHANGED <<nextId, ThreadSide, exec, hits, held>>

ClearBreakpoints ==
    /\ bps' = <<>>
    /\ notified' = {"breakpoint"}
    /\ UNCHANGED <<nextId, ThreadSide, exec, hits, held>>

SetBreakpointEnabled(id, e) ==
    \E i \in DOMAIN bps : bps[i].id = id /\ Update([bps[i] EXCEPT !.enabled = e])

\* A caller takes a copy, and writes it back as it was then or switched over.
GetBreakpoint(id) ==
    /\ \E i \in DOMAIN bps : bps[i].id = id /\ held' = bps[i]
    /\ notified' = {}
    /\ UNCHANGED <<bps, nextId, ThreadSide, exec, hits>>

UpdateBreakpoint(e) == Update([held EXCEPT !.enabled = e])

SelectThread(t) ==
    /\ current' = t /\ snapshot' = t
    /\ notified' = {}
    /\ UNCHANGED <<bps, nextId, threads, exec, hits, held>>

\* An adapter's own view of the execution, set after a command succeeded.
SetExecState(s) ==
    /\ exec' = s
    /\ notified' = IF exec # s THEN {"exec"} ELSE {}
    /\ UNCHANGED <<bps, nextId, ThreadSide, hits, held>>

\* Mutant: the numbers start again.
ResetNumbers ==
    /\ bps' = <<>> /\ threads' = <<>> /\ current' = Invalid /\ snapshot' = Invalid
    /\ exec' = "NONE" /\ hits' = 0
    /\ nextId' = 1
    /\ notified' = {}
    /\ UNCHANGED held

\* Everything is emptied and nobody is told; the numbers go on.
Reset ==
    /\ bps' = <<>> /\ threads' = <<>> /\ current' = Invalid /\ snapshot' = Invalid
    /\ exec' = "NONE" /\ hits' = 0
    /\ notified' = {}
    /\ UNCHANGED <<nextId, held>>

-----------------------------------------------------------------------------
(* What the debugger says of breakpoints.                                   *)

\* A setBreakpoints response: the place decides which breakpoint it is.
SetBreakpointsResponse(d, loc) ==
    \/ \E i \in DOMAIN bps :
          FirstAt(i, loc) /\ Update([Fresh(d, loc) EXCEPT !.id = bps[i].id])
    \/ ~KnownAt(loc) /\ MayAdd /\ Add(Fresh(d, loc))

\* A breakpoint event: the debugger's number decides, and what it does not say is lost.
\* "removed" removes nothing.  An event without a number finds an entry without one.
BreakpointEvent(d, loc, reason) ==
    \/ \E i \in DOMAIN bps :
          FirstDap(i, d) /\ Update([Fresh(d, loc) EXCEPT !.id = bps[i].id])
    \/ ~KnownDap(d) /\ reason \in {"new", "changed"} /\ MayAdd /\ Add(Fresh(d, loc))
    \/ /\ ~KnownDap(d) /\ reason \notin {"new", "changed"}
       /\ notified' = {}
       /\ UNCHANGED <<bps, nextId, ThreadSide, exec, hits, held>>

-----------------------------------------------------------------------------
(* What the debugger says of the execution.                                 *)

\* Mutant: the state is assigned, not set.
StoppedAssigned(t, hitIds) ==
    LET hit(i) == \E d \in hitIds : FirstDap(i, d)
        known == {d \in hitIds : KnownDap(d)}
    IN  /\ hits + Cardinality(known) <= MaxHits
        /\ bps' = [i \in DOMAIN bps |-> IF hit(i) THEN [bps[i] EXCEPT !.hits = @ + 1] ELSE bps[i]]
        /\ hits' = hits + Cardinality(known)
        /\ IF t = Invalid THEN UNCHANGED <<current, snapshot>> ELSE current' = t /\ snapshot' = t
        /\ exec' = "STOPPED"
        /\ notified' = IF known # {} THEN {"breakpoint"} ELSE {}
        /\ UNCHANGED <<nextId, threads, held>>

\* A stop: the thread, the breakpoints hit, and last the state.
Stopped(t, hitIds) ==
    LET hit(i) == \E d \in hitIds : FirstDap(i, d)
        known == {d \in hitIds : KnownDap(d)}
    IN  /\ hits + Cardinality(known) <= MaxHits
        /\ bps' = [i \in DOMAIN bps |-> IF hit(i) THEN [bps[i] EXCEPT !.hits = @ + 1] ELSE bps[i]]
        /\ hits' = hits + Cardinality(known)
        /\ IF t = Invalid THEN UNCHANGED <<current, snapshot>> ELSE current' = t /\ snapshot' = t
        /\ exec' = "STOPPED"
        /\ notified' = (IF known # {} THEN {"breakpoint"} ELSE {})
                         \cup (IF exec # "STOPPED" THEN {"exec"} ELSE {})
        /\ UNCHANGED <<nextId, threads, held>>

Continued == SetExecState("RUNNING")
Ended == SetExecState("TERMINATED")         \* an exited or a terminated event

-----------------------------------------------------------------------------
(* What the debugger says of threads.                                       *)

HasThread(list, t) == \E i \in DOMAIN list : list[i] = t

\* md_state_add_thread on [list, current, snapshot]: the limit is tested first, the first
\* thread becomes the current one.
WithThread(st, t) ==
    IF Len(st.list) >= MaxThreads \/ HasThread(st.list, t) THEN st
    ELSE [list |-> <<t>> \o st.list,
          current |-> IF st.current = Invalid THEN t ELSE st.current,
          snapshot |-> IF st.current = Invalid THEN t ELSE st.snapshot]

\* A threads response adds its threads in order and takes none away.
ThreadsResponse(ts) ==
    LET new == FoldLeft(WithThread, [list |-> threads, current |-> current,
                                     snapshot |-> snapshot], ts)
    IN  /\ threads' = new.list /\ current' = new.current /\ snapshot' = new.snapshot
        /\ notified' = IF new.list # threads THEN {"thread"} ELSE {}
        /\ UNCHANGED <<bps, nextId, exec, hits, held>>

ThreadStarted(t) == ThreadsResponse(<<t>>)

\* md_state_remove_thread: another thread becomes current, in the model only.
ThreadExited(t) ==
    /\ \/ /\ ~HasThread(threads, t) /\ notified' = {}
          /\ UNCHANGED <<threads, current>>
       \/ \E i \in DOMAIN threads :
             /\ threads[i] = t /\ \A j \in 1 .. (i - 1) : threads[j] # t
             /\ threads' = RemoveAt(threads, i)
             /\ current' = IF current # t THEN current
                           ELSE IF threads' = <<>> THEN Invalid ELSE Head(threads')
             /\ notified' = {"thread"}
    /\ UNCHANGED <<snapshot, bps, nextId, exec, hits, held>>

\* md_state_clear_all_threads tells nobody.
ClearThreads ==
    /\ threads' = <<>> /\ current' = Invalid
    /\ notified' = {}
    /\ UNCHANGED <<snapshot, bps, nextId, exec, hits, held>>

-----------------------------------------------------------------------------
CallerStep ==
    \/ \E d \in DapIds \cup {Invalid}, loc \in Locations : SetBreakpoint(d, loc)
    \/ \E id \in IdsOf(bps) :
          \/ RemoveBreakpoint(id) \/ GetBreakpoint(id)
          \/ \E e \in BOOLEAN : SetBreakpointEnabled(id, e)
    \/ \E e \in BOOLEAN : UpdateBreakpoint(e)
    \/ ClearBreakpoints
    \/ \E t \in ThreadIds : SelectThread(t)
    \/ \E s \in Execs : SetExecState(s)
    \/ ClearThreads
    \/ Reset

DebuggerStep ==
    \/ \E d \in DapIds \cup {Invalid}, loc \in Locations :
          \/ SetBreakpointsResponse(d, loc)
          \/ \E reason \in {"new", "changed", "removed"} : BreakpointEvent(d, loc, reason)
    \/ \E t \in ThreadIds \cup {Invalid}, hitIds \in SUBSET DapIds : Stopped(t, hitIds)
    \/ Continued
    \/ Ended
    \/ \E t \in ThreadIds : ThreadStarted(t) \/ ThreadExited(t)
    \/ \E t, u \in ThreadIds : t # u /\ ThreadsResponse(<<t, u>>)

Next == CallerStep \/ DebuggerStep

Spec == Init /\ [][Next]_vars

-----------------------------------------------------------------------------
(* Properties.                                                              *)

HitsOf(list) ==
    LET upTo[n \in 0 .. Len(list)] == IF n = 0 THEN 0 ELSE upTo[n - 1] + list[n].hits
    IN  upTo[Len(list)]

\* No hit is invented: the hits of the breakpoints in the list were all counted since the
\* last reset, though a caller may write an old copy back over an entry, and events and
\* responses start an entry's count again (md_state_update_breakpoint,
\* debug_state.total_breakpoint_hits).
HitsAccounted == HitsOf(bps) <= hits

\* The list never holds a number twice, and a breakpoint's number never comes to mean
\* another breakpoint: once off the list it does not return, not even after a reset, so a
\* copy or a number a caller has kept is at worst refused (model->next_bp_id).
NumbersAreFinal ==
    [][/\ Len(bps') = Cardinality(IdsOf(bps'))
       /\ nextId' >= nextId
       /\ \A id \in IdsOf(bps') \ IdsOf(bps) : nextId <= id /\ id < nextId']_vars

\* A listener that looks again whenever it is told sees every change of the breakpoints and
\* of the execution state, the stop with its thread and hits included; only a reset, which
\* leaves the execution state NONE, goes untold (md_state_model_notify).
ChangesAreTold ==
    [][exec' # "NONE" =>
        /\ bps' # bps => "breakpoint" \in notified'
        /\ exec' # exec => "exec" \in notified']_vars
=============================================================================
