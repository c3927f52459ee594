--------------------------- MODULE SessionManager ---------------------------
(***************************************************************************)
(* The session manager of src/src/session_manager.c: the list of debugger   *)
(* processes, the threads of the host program that create, terminate, wait  *)
(* for and destroy them, and the kernel's process table (external).         *)
(*                                                                          *)
(* md_session_create, md_session_destroy and md_manager_destroy hold the    *)
(* manager's mutex from end to end; md_session_terminate and                *)
(* md_session_wait take no lock, so their system call and the assignment    *)
(* that follows it are separate steps.  The callers keep to the handles'    *)
(* lifetime: nobody uses a session that another thread is destroying.       *)
(***************************************************************************)
EXTENDS Integers, Sequences, FiniteSets

CONSTANTS
    Threads,        \* threads of the host program
    NoThread,       \* the mutex is free
    MaxSessions,    \* manager->max_sessions
    Pids,           \* process identifiers the kernel hands out
    WaitModes,      \* "block", and "poll" for md_session_wait with a timeout of 0
    Recycle,        \* whether the kernel hands out a reaped identifier again (it may)
    DestroyPolls,   \* turns of md_session_destroy's wait for SIGTERM, 10 in the code
    MaxId           \* bound: manager->next_session_id stops here

ASSUME SessionAssumption ==
    /\ NoThread \notin Threads
    /\ MaxSessions \in Nat \ {0} /\ MaxId \in Nat \ {0} /\ DestroyPolls \in Nat
    /\ WaitModes \subseteq {"block", "poll"}
    /\ Recycle \in BOOLEAN
    /\ Pids \subseteq Nat \ {0}

VARIABLES
    up,         \* manager->initialized
    list,       \* manager->sessions, newest first
    count,      \* manager->session_count
    nextId,     \* manager->next_session_id
    sess,       \* the session structures: pid, state, exit_code
    mutex,      \* the thread inside manager->mutex
    thr,        \* each thread's place in a call
    proc,       \* the kernel's process table
    exitOf,     \* history: how the process of a listed session really ended
    strayed     \* history: a session's signal reached a process that is not its own

vars == <<up, list, count, nextId, sess, mutex, thr, proc, exitOf, strayed>>

-----------------------------------------------------------------------------
Ids == 1 .. (MaxId - 1)
States == {"NONE", "STARTING", "RUNNING", "EXITING", "TERMINATED"}
NoId == 0
Alive == -1                    \* exitOf of a process that has not ended
NoChild == -2                  \* waitpid failed with ECHILD
Exited == 7                    \* a process that ends by itself, any status but 0
SIGTERM == 15
SIGKILL == 9
Codes == {0, Exited, 128 + SIGTERM, 128 + SIGKILL}

NoProc == [status |-> "unused", owner |-> NoId, code |-> 0, termed |-> FALSE, killed |-> FALSE]
NoSession == [pid |-> 0, state |-> "NONE", exitCode |-> 0]
IdleThread == [pc |-> "idle", id |-> NoId, left |-> 0, code |-> 0]

Init ==
    /\ up = TRUE
    /\ list = <<>> /\ count = 0 /\ nextId = 1
    /\ sess = [i \in Ids |-> NoSession]
    /\ mutex = NoThread
    /\ thr = [t \in Threads |-> IdleThread]
    /\ proc = [p \in Pids |-> NoProc]
    /\ exitOf = [i \in Ids |-> Alive]
    /\ strayed = FALSE

-----------------------------------------------------------------------------
(* System calls.                                                            *)

\* kill(p, 0) == 0: a zombie nobody has reaped still exists.
Exists(p) == proc[p].status \in {"running", "zombie"}

\* kill(sess[i].pid, sig), whatever process now has that identifier.
Signal(i, sig) ==
    LET p == sess[i].pid
    IN  /\ proc' = IF proc[p].status # "running" THEN proc
                   ELSE [proc EXCEPT ![p].termed = @ \/ sig = SIGTERM,
                                     ![p].killed = @ \/ sig = SIGKILL]
        /\ strayed' = (strayed \/ (Exists(p) /\ proc[p].owner # i))

\* waitpid on identifier p succeeds: the zombie is gone and its status delivered.
Reap(p) == proc' = [proc EXCEPT ![p] = [NoProc EXCEPT !.status = "gone"]]

Kernel == <<proc, exitOf, strayed>>

-----------------------------------------------------------------------------
(* Which calls the host program makes.                                      *)

Listed(i) == \E n \in DOMAIN list : list[n] = i
Busy(i) == \E t \in Threads : thr[t].id = i
BeingDestroyed(i) == \E t \in Threads : thr[t].id = i /\ mutex = t
MayBegin(t) ==
    /\ up /\ thr[t] = IdleThread
    /\ \A u \in Threads : thr[u].pc \notin {"managerTerm", "managerKill"}

At(t, pc, i) == [IdleThread EXCEPT !.pc = pc, !.id = i]

-----------------------------------------------------------------------------
(* md_session_create.  At the limit nothing changes; a pipe or a fork that  *)
(* fails has already spent the session number.  The kernel counts process   *)
(* identifiers upwards.                                                     *)

CreateFails(t) ==
    /\ MayBegin(t) /\ mutex = NoThread
    /\ count < MaxSessions /\ nextId < MaxId
    /\ nextId' = nextId + 1
    /\ UNCHANGED <<up, list, count, sess, mutex, thr, Kernel>>

Create(t) ==
    /\ MayBegin(t) /\ mutex = NoThread
    /\ count < MaxSessions /\ nextId < MaxId
    /\ \E p \in Pids :
          /\ \/ proc[p].status = "unused" /\ \A q \in Pids : q < p => proc[q].status # "unused"
             \/ Recycle /\ proc[p].status = "gone"
          /\ proc' = [proc EXCEPT ![p] = [NoProc EXCEPT !.status = "running", !.owner = nextId]]
          /\ sess' = [sess EXCEPT ![nextId] = [pid |-> p, state |-> "RUNNING", exitCode |-> 0]]
    /\ list' = <<nextId>> \o list
    /\ count' = count + 1
    /\ nextId' = nextId + 1
    /\ UNCHANGED <<up, mutex, thr, exitOf, strayed>>

-----------------------------------------------------------------------------
(* md_session_destroy: SIGTERM, a bounded wait, SIGKILL, then the structure *)
(* leaves the list.  The process is never waited for.                       *)

DestroyBegin(t, i) ==
    /\ MayBegin(t) /\ mutex = NoThread
    /\ Listed(i) /\ ~Busy(i)
    /\ mutex' = t
    /\ sess' = [sess EXCEPT ![i].state = "EXITING"]
    /\ IF Exists(sess[i].pid)
       THEN /\ Signal(i, SIGTERM)
            /\ thr' = [thr EXCEPT ![t] = [At(t, "destroyPoll", i) EXCEPT !.left = DestroyPolls]]
       ELSE /\ thr' = [thr EXCEPT ![t] = At(t, "destroyFree", i)]
            /\ UNCHANGED <<proc, strayed>>
    /\ UNCHANGED <<up, list, count, nextId, exitOf>>

DestroyPoll(t) ==
    /\ thr[t].pc = "destroyPoll"
    /\ thr' = IF thr[t].left > 0 /\ Exists(sess[thr[t].id].pid)
              THEN [thr EXCEPT ![t].left = @ - 1]
              ELSE [thr EXCEPT ![t].pc = "destroyKill"]
    /\ UNCHANGED <<up, list, count, nextId, sess, mutex, Kernel>>

\* Mutant: a process that did not follow SIGTERM is left to itself.
DestroyKillSkipped(t) ==
    /\ thr[t].pc = "destroyKill"
    /\ thr' = [thr EXCEPT ![t].pc = "destroyFree"]
    /\ UNCHANGED <<up, list, count, nextId, sess, mutex, Kernel>>

DestroyKill(t) ==
    /\ thr[t].pc = "destroyKill"
    /\ IF Exists(sess[thr[t].id].pid) THEN Signal(thr[t].id, SIGKILL)
       ELSE UNCHANGED <<proc, strayed>>
    /\ thr' = [thr EXCEPT ![t].pc = "destroyFree"]
    /\ UNCHANGED <<up, list, count, nextId, sess, mutex, exitOf>>

\* The first entry of i is unlinked.
Without(s, i) ==
    LET n == CHOOSE n \in DOMAIN s : s[n] = i
    IN  SubSeq(s, 1, n - 1) \o SubSeq(s, n + 1, Len(s))

\* Mutant: the structure is unlinked and the count forgotten.
DestroyFreeUncounted(t) ==
    /\ thr[t].pc = "destroyFree"
    /\ list' = Without(list, thr[t].id)
    /\ mutex' = NoThread
    /\ thr' = [thr EXCEPT ![t] = IdleThread]
    /\ sess' = [sess EXCEPT ![thr[t].id] = NoSession]
    /\ exitOf' = [exitOf EXCEPT ![thr[t].id] = Alive]
    /\ UNCHANGED <<up, count, nextId, proc, strayed>>

\* Mutant: the early return keeps the mutex.
DestroyFreeLocked(t) ==
    /\ thr[t].pc = "destroyFree"
    /\ list' = Without(list, thr[t].id)
    /\ count' = count - 1
    /\ thr' = [thr EXCEPT ![t] = IdleThread]
    /\ sess' = [sess EXCEPT ![thr[t].id] = NoSession]
    /\ exitOf' = [exitOf EXCEPT ![thr[t].id] = Alive]
    /\ UNCHANGED <<up, nextId, mutex, proc, strayed>>

DestroyFree(t) ==
    /\ thr[t].pc = "destroyFree"
    /\ list' = Without(list, thr[t].id)
    /\ count' = count - 1
    /\ mutex' = NoThread
    /\ thr' = [thr EXCEPT ![t] = IdleThread]
    /\ sess' = [sess EXCEPT ![thr[t].id] = NoSession]
    /\ exitOf' = [exitOf EXCEPT ![thr[t].id] = Alive]
    /\ UNCHANGED <<up, nextId, proc, strayed>>

-----------------------------------------------------------------------------
(* md_manager_destroy: the same for every session, a single 100 ms pause    *)
(* each, nothing else running in the library.                               *)

ManagerDestroy(t) ==
    /\ MayBegin(t) /\ mutex = NoThread
    /\ \A u \in Threads : thr[u] = IdleThread
    /\ mutex' = t
    /\ thr' = [thr EXCEPT ![t].pc = "managerTerm"]
    /\ UNCHANGED <<up, list, count, nextId, sess, Kernel>>

ManagerTerm(t) ==
    /\ thr[t].pc = "managerTerm" /\ list # <<>>
    /\ sess' = [sess EXCEPT ![Head(list)].state = "EXITING"]
    /\ Signal(Head(list), SIGTERM)
    /\ thr' = [thr EXCEPT ![t].pc = "managerKill"]
    /\ UNCHANGED <<up, list, count, nextId, mutex, exitOf>>

ManagerKill(t) ==
    /\ thr[t].pc = "managerKill"
    /\ IF Exists(sess[Head(list)].pid) THEN Signal(Head(list), SIGKILL)
       ELSE UNCHANGED <<proc, strayed>>
    /\ list' = Tail(list)
    /\ sess' = [sess EXCEPT ![Head(list)] = NoSession]
    /\ exitOf' = [exitOf EXCEPT ![Head(list)] = Alive]
    /\ thr' = [thr EXCEPT ![t].pc = "managerTerm"]
    /\ UNCHANGED <<up, count, nextId, mutex>>

ManagerDone(t) ==
    /\ thr[t].pc = "managerTerm" /\ list = <<>>
    /\ count' = 0
    /\ up' = FALSE
    /\ mutex' = NoThread
    /\ thr' = [thr EXCEPT ![t] = IdleThread]
    /\ UNCHANGED <<list, nextId, sess, Kernel>>

-----------------------------------------------------------------------------
(* md_session_terminate: no lock, the state is written after the signal.    *)

Terminate(t, i, force) ==
    /\ MayBegin(t)
    /\ Listed(i) /\ ~BeingDestroyed(i)
    /\ IF Exists(sess[i].pid)
       THEN /\ Signal(i, IF force THEN SIGKILL ELSE SIGTERM)
            /\ thr' = [thr EXCEPT ![t] = IF force THEN @ ELSE At(t, "mark", i)]
            /\ UNCHANGED sess
       ELSE /\ sess' = [sess EXCEPT ![i].state = "TERMINATED"]
            /\ UNCHANGED <<thr, proc, strayed>>
    /\ UNCHANGED <<up, list, count, nextId, mutex, exitOf>>

\* Mutant: the session is taken for ended as soon as SIGTERM is sent.
TerminateMarkEnded(t) ==
    /\ thr[t].pc = "mark"
    /\ sess' = [sess EXCEPT ![thr[t].id].state = "TERMINATED"]
    /\ thr' = [thr EXCEPT ![t] = IdleThread]
    /\ UNCHANGED <<up, list, count, nextId, mutex, Kernel>>

TerminateMark(t) ==
    /\ thr[t].pc = "mark"
    /\ sess' = [sess EXCEPT ![thr[t].id].state = "EXITING"]
    /\ thr' = [thr EXCEPT ![t] = IdleThread]
    /\ UNCHANGED <<up, list, count, nextId, mutex, Kernel>>

-----------------------------------------------------------------------------
(* md_session_wait: no lock.  Any timeout but 0 blocks in waitpid; with 0    *)
(* and a running process the code goes on with a status it never received.  *)

WaitBegin(t, i, mode) ==
    /\ MayBegin(t)
    /\ Listed(i) /\ ~BeingDestroyed(i)
    /\ thr' = [thr EXCEPT ![t] = At(t, mode, i)]
    /\ UNCHANGED <<up, list, count, nextId, sess, mutex, Kernel>>

\* waitpid returns: a status, no child of that identifier, or (WNOHANG) nothing.
WaitPid(t) ==
    LET p == sess[thr[t].id].pid
        Got(c) == thr' = [thr EXCEPT ![t].pc = "record", ![t].code = c]
    IN  /\ thr[t].pc \in {"block", "poll"}
        /\ \/ proc[p].status = "zombie" /\ Got(proc[p].code) /\ Reap(p)
           \/ ~Exists(p) /\ Got(NoChild) /\ UNCHANGED proc
           \/ /\ thr[t].pc = "poll" /\ proc[p].status = "running"
              /\ \E c \in Codes : Got(c)
              /\ UNCHANGED proc
        /\ UNCHANGED <<up, list, count, nextId, sess, mutex, exitOf, strayed>>

\* Mutant: a waiter that finds no child clears the status another one recorded.
WaitRecordCleared(t) ==
    /\ thr[t].pc = "record"
    /\ sess' = [sess EXCEPT ![thr[t].id].state = "TERMINATED",
                            ![thr[t].id].exitCode = IF thr[t].code = NoChild THEN 0
                                                    ELSE thr[t].code]
    /\ thr' = [thr EXCEPT ![t] = IdleThread]
    /\ UNCHANGED <<up, list, count, nextId, mutex, Kernel>>

WaitRecord(t) ==
    /\ thr[t].pc = "record"
    /\ sess' = [sess EXCEPT ![thr[t].id].state = "TERMINATED",
                            ![thr[t].id].exitCode = IF thr[t].code = NoChild THEN @
                                                    ELSE thr[t].code]
    /\ thr' = [thr EXCEPT ![t] = IdleThread]
    /\ UNCHANGED <<up, list, count, nextId, mutex, Kernel>>

-----------------------------------------------------------------------------
(* The processes.  They end by themselves at any time, by SIGTERM unless    *)
(* they ignore it, and by SIGKILL always.                                   *)

ProcessExit(p) ==
    /\ proc[p].status = "running"
    /\ \E c \in {Exited} \cup (IF proc[p].termed THEN {128 + SIGTERM} ELSE {})
                         \cup (IF proc[p].killed THEN {128 + SIGKILL} ELSE {}) :
          /\ proc' = [proc EXCEPT ![p] = [NoProc EXCEPT !.status = "zombie", !.owner = proc[p].owner, !.code = c]]
          /\ exitOf' = IF Listed(proc[p].owner) THEN [exitOf EXCEPT ![proc[p].owner] = c] ELSE exitOf
    /\ UNCHANGED <<up, list, count, nextId, sess, mutex, thr, strayed>>

-----------------------------------------------------------------------------
\* The steps of a call that do not depend on the process.
InCall(t) ==
    \/ DestroyPoll(t) \/ DestroyKill(t) \/ DestroyFree(t)
    \/ ManagerTerm(t) \/ ManagerKill(t) \/ ManagerDone(t)
    \/ TerminateMark(t) \/ WaitRecord(t)

Call(t) ==
    \/ Create(t) \/ CreateFails(t) \/ ManagerDestroy(t)
    \/ \E i \in Ids : \/ DestroyBegin(t, i)
                      \/ \E force \in BOOLEAN : Terminate(t, i, force)
                      \/ \E mode \in WaitModes : WaitBegin(t, i, mode)

Next ==
    \/ \E t \in Threads : Call(t) \/ InCall(t) \/ WaitPid(t)
    \/ \E p \in Pids : ProcessExit(p)

Spec == Init /\ [][Next]_vars

\* Threads run, and the kernel ends a process that has been sent SIGKILL.
FairSpec ==
    /\ Spec
    /\ \A t \in Threads : WF_vars(InCall(t))
    /\ \A p \in Pids : WF_vars(proc[p].killed /\ ProcessExit(p))

-----------------------------------------------------------------------------
(* Properties.                                                              *)

\* Whenever the mutex is free the count is the length of the list, no session is in it
\* twice, and the limit on sessions is kept (md_manager_get_session_count, _get_session_ids).
CountMatchesList ==
    mutex = NoThread =>
        /\ count = Len(list) /\ count <= MaxSessions
        /\ \A m, n \in DOMAIN list : list[m] = list[n] => m = n

\* No debugger outlives its session unnoticed: a process whose session has left the list
\* has ended or has SIGKILL on its way, though it ignored SIGTERM or the polls ran out
\* (session_manager.h:185, "Terminate the debugger process if still running").
DestroyedIsKilled ==
    \A p \in Pids : proc[p].status = "running" =>
        proc[p].killed \/ Listed(proc[p].owner)

\* A session is TERMINATED only when its process has ended: neither ESRCH from kill nor
\* ECHILD from waitpid is mistaken for an end that did not happen
\* (md_session_terminate, md_session_wait).
TerminatedIsDead ==
    \A i \in Ids : sess[i].state = "TERMINATED" => exitOf[i] # Alive

\* Once the threads have left a session whose process was reaped, the session holds the
\* status the process really ended with, whichever of several waiters reaped it
\* (md_session_wait).
ExitCodeTrue ==
    \A i \in Ids :
        Listed(i) /\ ~Busy(i) /\ proc[sess[i].pid].status = "gone"
            => sess[i].exitCode = exitOf[i]

\* Destroying a session or the manager always returns and releases the mutex, even when
\* the process ignores SIGTERM (md_session_destroy, md_manager_destroy).
MutexReleased == (mutex # NoThread) ~> (mutex = NoThread)
=============================================================================
