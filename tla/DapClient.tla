------------------------------ MODULE DapClient ------------------------------
(***************************************************************************)
(* The Debug Adapter Protocol client of src/src/dap_client.c, one thread    *)
(* that sends requests to a debugger process over a pipe and waits for the  *)
(* answers, and that debugger (external: modelled from what the client      *)
(* reads and writes).                                                       *)
(*                                                                          *)
(* A call is cut into the steps between which the debugger can act: the     *)
(* registration of the request, its sending, each poll of the pipe, each    *)
(* message handled.  A message is atomic here; the framing that can lose    *)
(* one (a body that arrives after its header, stderr bytes mixed in) is the *)
(* subject of DapFraming and appears here as LoseMessage.                   *)
(***************************************************************************)
EXTENDS Integers, Sequences, FiniteSets

CONSTANTS
    EventNames,     \* the events sent; those but "initialized" go to the adapter's handlers alone
    Commands,       \* the commands issued; "initialize" and "disconnect" have effects of their own
    MaxPending,     \* client->max_pending
    Timeouts,       \* the values dap_client_set_timeout is given, in polls of 10 ms
    MaxSeq,         \* bound: client->seq stops here
    MaxStream       \* bound: unread messages in the debugger's stdout pipe

ASSUME CommandsAssumption == Commands # {} /\ "process" \notin Commands
ASSUME MaxPendingAssumption == MaxPending \in Nat \ {0}
ASSUME TimeoutsAssumption == Timeouts # {} /\ Timeouts \subseteq Nat \cup {-1}
ASSUME BoundsAssumption == MaxSeq \in Nat \ {0} /\ MaxStream \in Nat

VARIABLES
    seq,                \* client->seq, the number the next request gets
    pending,            \* client->pending_requests[0 .. pending_count - 1]
    initialized,        \* client->initialized
    gotInitialized,     \* client->received_initialized_event
    timeout,            \* client->timeout_ms, in polls
    call,               \* the call in progress: its place, command, number, elapsed polls
    batch,              \* client->read_buffer: messages read and not yet handled
    ret,                \* what the last call returned
    alive,              \* the debugger's end of the pipes is open
    received,           \* requests the debugger has read and not answered
    stream,             \* the debugger's stdout pipe
    garbled,            \* a half-written request left the debugger's input out of step
    answers             \* history: every answer the debugger has written

client == <<seq, pending, initialized, gotInitialized, timeout, call, batch, ret>>
debugger == <<alive, received, stream, garbled, answers>>
vars == <<seq, pending, initialized, gotInitialized, timeout, call, batch, ret,
          alive, received, stream, garbled, answers>>

-----------------------------------------------------------------------------
Seqs == 1 .. MaxSeq
Requests == [seq : Seqs, cmd : Commands]
Answers == [seq : Seqs, cmd : Commands, success : BOOLEAN]
Entries == [seq : Seqs, cmd : Commands, completed : BOOLEAN, success : BOOLEAN]
Messages == [type : {"response"}, seq : Seqs, success : BOOLEAN]
              \cup [type : {"event"}, event : EventNames]
Errors == {"SUCCESS", "REQUEST_FAILED", "TIMEOUT", "CONNECTION_CLOSED", "IO_ERROR",
           "BUFFER_OVERFLOW", "INVALID_SEQ"}
Places == {"idle", "send", "wait", "parse"}

Idle == [pc |-> "idle", cmd |-> "process", seq |-> 0, elapsed |-> 0, hup |-> FALSE]
Result(c, s, e) == [cmd |-> c, seq |-> s, err |-> e]

Init ==
    /\ seq = 1
    /\ pending = <<>>
    /\ initialized = FALSE
    /\ gotInitialized = FALSE
    /\ timeout \in Timeouts
    /\ call = Idle
    /\ batch = <<>>
    /\ ret = Result("process", 0, "SUCCESS")
    /\ alive = TRUE
    /\ received = {}
    /\ stream = <<>>
    /\ garbled = FALSE
    /\ answers = {}

-----------------------------------------------------------------------------
(* The table of pending requests.                                           *)

\* The first entry with number s is at i.
FoundAt(i, s) ==
    /\ pending[i].seq = s
    /\ \A j \in 1 .. (i - 1) : pending[j].seq # s

NotFound(s) == \A i \in DOMAIN pending : pending[i].seq # s

Entry(s, c) == [seq |-> s, cmd |-> c, completed |-> FALSE, success |-> FALSE]

-----------------------------------------------------------------------------
(* The client's calls.                                                      *)

\* Mutant: initialize takes any return for a grant.
ReturnUngranted(err) ==
    /\ initialized' = CASE call.cmd = "initialize" -> TRUE
                        [] call.cmd = "disconnect" -> FALSE
                        [] OTHER -> initialized
    /\ ret' = Result(call.cmd, call.seq, err)
    /\ call' = Idle

\* What a command does with the answer, if one came, before it returns err.
Return(err) ==
    LET granted == \E i \in DOMAIN pending :
                       FoundAt(i, call.seq) /\ pending[i].success
    IN  /\ initialized' = CASE call.cmd = "initialize" -> initialized \/ granted
                            [] call.cmd = "disconnect" -> FALSE
                            [] OTHER -> initialized
        /\ ret' = Result(call.cmd, call.seq, err)
        /\ call' = Idle

\* Mutant: the limit of the table is not tested.
StartUnbounded(c) ==
    /\ call.pc = "idle" /\ seq < MaxSeq
    /\ pending' = Append(pending, Entry(seq, c))
    /\ call' = [Idle EXCEPT !.pc = "send", !.cmd = c, !.seq = seq]
    /\ seq' = seq + 1
    /\ UNCHANGED <<initialized, gotInitialized, timeout, batch, ret, debugger>>

\* Mutant: the number is not advanced.
StartSameSeq(c) ==
    /\ call.pc = "idle" /\ seq < MaxSeq
    /\ Len(pending) < MaxPending
    /\ pending' = Append(pending, Entry(seq, c))
    /\ call' = [Idle EXCEPT !.pc = "send", !.cmd = c, !.seq = seq]
    /\ UNCHANGED <<seq, initialized, gotInitialized, timeout, batch, ret, debugger>>

\* Mutant: a full table makes room by overwriting its first entry.
StartReusesSlot(c) ==
    /\ call.pc = "idle" /\ seq < MaxSeq
    /\ pending' = IF Len(pending) < MaxPending THEN Append(pending, Entry(seq, c))
                  ELSE [pending EXCEPT ![1] = Entry(seq, c)]
    /\ call' = [Idle EXCEPT !.pc = "send", !.cmd = c, !.seq = seq]
    /\ seq' = seq + 1
    /\ UNCHANGED <<initialized, gotInitialized, timeout, batch, ret, debugger>>

\* A command takes its number and a slot of the table, which is never given back.
Start(c) ==
    /\ call.pc = "idle" /\ seq < MaxSeq
    /\ Len(pending) < MaxPending
    /\ pending' = Append(pending, Entry(seq, c))
    /\ call' = [Idle EXCEPT !.pc = "send", !.cmd = c, !.seq = seq]
    /\ seq' = seq + 1
    /\ UNCHANGED <<initialized, gotInitialized, timeout, batch, ret, debugger>>

\* The table is full: the number is spent, nothing is sent.
StartRefused(c) ==
    /\ call.pc = "idle" /\ seq < MaxSeq
    /\ Len(pending) >= MaxPending
    /\ ret' = Result(c, seq, "BUFFER_OVERFLOW")
    /\ seq' = seq + 1
    /\ UNCHANGED <<pending, initialized, gotInitialized, timeout, call, batch, debugger>>

\* Once a half-written request is in the pipe, a later one may be swallowed by it.
Deliver(r) ==
    /\ alive
    /\ \/ received' = received \cup {r}
       \/ garbled /\ UNCHANGED received

SendRequest ==
    /\ call.pc = "send"
    /\ Deliver([seq |-> call.seq, cmd |-> call.cmd])
    /\ call' = [call EXCEPT !.pc = "wait"]
    /\ UNCHANGED <<seq, pending, initialized, gotInitialized, timeout, batch, ret,
                   alive, stream, garbled, answers>>

\* md_session_send fails on the header, or on the body with the header already
\* written.  The command returns at once; its slot stays taken.
SendFails ==
    /\ call.pc = "send"
    /\ garbled' \in {garbled, TRUE}
    /\ ret' = Result(call.cmd, call.seq, "IO_ERROR")
    /\ call' = Idle
    /\ UNCHANGED <<seq, pending, initialized, gotInitialized, timeout, batch,
                   alive, received, stream, answers>>

\* An event spends a number of the same sequence and enters no table.
SendEvent ==
    /\ call.pc = "idle" /\ seq < MaxSeq
    /\ seq' = seq + 1
    /\ UNCHANGED <<pending, initialized, gotInitialized, timeout, call, batch, ret, debugger>>

SetTimeout(t) ==
    /\ call.pc = "idle"
    /\ timeout' = t
    /\ UNCHANGED <<seq, pending, initialized, gotInitialized, call, batch, ret, debugger>>

-----------------------------------------------------------------------------
(* One turn of the event loop.                                              *)

Awaited(completed) ==
    \E i \in DOMAIN pending : FoundAt(i, call.seq) /\ pending[i].completed = completed

\* The poll returns what is in the pipe, and whether its other end is closed.
ReadSome ==
    /\ \E n \in 0 .. Len(stream) :
          /\ n = 0 => stream = <<>>
          /\ batch' = batch \o SubSeq(stream, 1, n)
          /\ stream' = SubSeq(stream, n + 1, Len(stream))
    /\ UNCHANGED <<seq, pending, initialized, gotInitialized, timeout, ret,
                   alive, received, garbled, answers>>

\* The wait loop goes on: the request is not completed and polls are left.
WaitPoll ==
    /\ call.pc = "wait" /\ Awaited(FALSE) /\ call.elapsed < timeout
    /\ call' = [call EXCEPT !.pc = "parse", !.hup = ~alive]
    /\ ReadSome

\* An adapter waiting for a stop pumps the connection outside any request.
ProcessMessages ==
    /\ call.pc = "idle"
    /\ call' = [Idle EXCEPT !.pc = "parse", !.hup = ~alive]
    /\ ReadSome

\* Mutant: the answer goes to the oldest open entry, whatever number it carries.
HandleResponseOldest(m) ==
    /\ \/ /\ \A i \in DOMAIN pending : pending[i].completed
          /\ UNCHANGED <<pending, initialized>>
       \/ \E i \in DOMAIN pending :
             /\ ~pending[i].completed /\ \A j \in 1 .. (i - 1) : pending[j].completed
             /\ pending' = [pending EXCEPT ![i].completed = TRUE, ![i].success = m.success]
             /\ initialized' = (initialized \/ (pending[i].cmd = "initialize" /\ m.success))
    /\ UNCHANGED gotInitialized

HandleResponse(m) ==
    /\ \/ /\ NotFound(m.seq)
          /\ UNCHANGED <<pending, initialized>>
       \/ \E i \in DOMAIN pending :
             /\ FoundAt(i, m.seq)
             /\ pending' = [pending EXCEPT ![i].completed = TRUE, ![i].success = m.success]
             /\ initialized' = (initialized \/ (pending[i].cmd = "initialize" /\ m.success))
    /\ UNCHANGED gotInitialized

HandleEvent(m) ==
    /\ gotInitialized' = (gotInitialized \/ m.event = "initialized")
    /\ UNCHANGED <<pending, initialized>>

ProcessMessage ==
    /\ call.pc = "parse" /\ batch # <<>>
    /\ batch' = Tail(batch)
    /\ \/ Head(batch).type = "response" /\ HandleResponse(Head(batch))
       \/ Head(batch).type = "event" /\ HandleEvent(Head(batch))
    /\ UNCHANGED <<seq, timeout, call, ret, debugger>>

\* The parser drops a message whose bytes it cannot line up (DapFraming).
LoseMessage ==
    /\ call.pc = "parse" /\ batch # <<>>
    /\ batch' = Tail(batch)
    /\ UNCHANGED <<seq, pending, initialized, gotInitialized, timeout, call, ret, debugger>>

\* Mutant: the polls are not counted.
PollDoneUncounted ==
    /\ call.pc = "parse" /\ batch = <<>>
    /\ \/ call.cmd # "process" /\ call.hup /\ Return("CONNECTION_CLOSED")
       \/ /\ call.cmd # "process" /\ ~call.hup
          /\ call' = [call EXCEPT !.pc = "wait"]
          /\ UNCHANGED <<initialized, ret>>
       \/ call.cmd = "process" /\ call' = Idle /\ UNCHANGED <<initialized, ret>>
    /\ UNCHANGED <<seq, pending, gotInitialized, timeout, batch, debugger>>

\* After a batch: a closed pipe ends the call, whatever the batch held.
PollDone ==
    /\ call.pc = "parse" /\ batch = <<>>
    /\ \/ call.cmd # "process" /\ call.hup /\ Return("CONNECTION_CLOSED")
       \/ /\ call.cmd # "process" /\ ~call.hup
          /\ call' = [call EXCEPT !.pc = "wait", !.elapsed = @ + 1]
          /\ UNCHANGED <<initialized, ret>>
       \/ /\ call.cmd = "process"
          /\ call' = Idle
          /\ ret' = Result("process", 0, IF call.hup THEN "CONNECTION_CLOSED" ELSE "SUCCESS")
          /\ UNCHANGED initialized
    /\ UNCHANGED <<seq, pending, gotInitialized, timeout, batch, debugger>>

\* Mutant: an answer is taken for a success whatever it says.
WaitOverUnread ==
    /\ call.pc = "wait"
    /\ \E i \in DOMAIN pending :
          /\ FoundAt(i, call.seq)
          /\ \/ ~pending[i].completed /\ call.elapsed >= timeout /\ Return("TIMEOUT")
             \/ pending[i].completed /\ Return("SUCCESS")
    /\ UNCHANGED <<seq, pending, gotInitialized, timeout, batch, debugger>>

\* The wait is over: the request is completed, or no poll is left.
WaitOver ==
    /\ call.pc = "wait"
    /\ \E i \in DOMAIN pending :
          /\ FoundAt(i, call.seq)
          /\ \/ ~pending[i].completed /\ call.elapsed >= timeout /\ Return("TIMEOUT")
             \/ pending[i].completed /\ ~pending[i].success /\ Return("REQUEST_FAILED")
             \/ pending[i].completed /\ pending[i].success /\ Return("SUCCESS")
    /\ UNCHANGED <<seq, pending, gotInitialized, timeout, batch, debugger>>

-----------------------------------------------------------------------------
(* The debugger: it answers each request it has read at most once, in any   *)
(* order and after any delay, sends events, and may exit at any time.       *)

Answer(r, ok) ==
    /\ alive /\ Len(stream) < MaxStream
    /\ received' = received \ {r}
    /\ stream' = Append(stream, [type |-> "response", seq |-> r.seq, success |-> ok])
    /\ answers' = answers \cup {[seq |-> r.seq, cmd |-> r.cmd, success |-> ok]}
    /\ UNCHANGED <<client, alive, garbled>>

Emit(e) ==
    /\ alive /\ Len(stream) < MaxStream
    /\ stream' = Append(stream, [type |-> "event", event |-> e])
    /\ UNCHANGED <<client, alive, received, garbled, answers>>

Exit ==
    /\ alive
    /\ alive' = FALSE
    /\ UNCHANGED <<client, received, stream, garbled, answers>>

-----------------------------------------------------------------------------
\* The steps of a call once it has begun.
CallStep == SendRequest \/ SendFails \/ WaitPoll \/ ProcessMessage \/ LoseMessage
              \/ PollDone \/ WaitOver

ClientStep ==
    \/ \E c \in Commands : Start(c) \/ StartRefused(c)
    \/ \E t \in Timeouts : SetTimeout(t)
    \/ SendEvent
    \/ ProcessMessages
    \/ CallStep

DebuggerStep ==
    \/ \E r \in received, ok \in BOOLEAN : Answer(r, ok)
    \/ \E e \in EventNames : Emit(e)
    \/ Exit

Next == ClientStep \/ DebuggerStep

Spec == Init /\ [][Next]_vars

\* The caller's thread runs: nothing in a call blocks for more than one 10 ms poll.
FairSpec == Spec /\ WF_vars(CallStep)

-----------------------------------------------------------------------------
(* Properties.                                                              *)

\* Type invariant.
TypeOK ==
    /\ seq \in Seqs
    /\ pending \in Seq(Entries) /\ Len(pending) <= MaxPending
    /\ initialized \in BOOLEAN /\ gotInitialized \in BOOLEAN
    /\ timeout \in Timeouts
    /\ call \in [pc : Places, cmd : Commands \cup {"process"}, seq : Seqs \cup {0},
                 elapsed : Nat, hup : BOOLEAN]
    /\ batch \in Seq(Messages)
    /\ ret \in [cmd : Commands \cup {"process"}, seq : Seqs \cup {0}, err : Errors]
    /\ alive \in BOOLEAN /\ garbled \in BOOLEAN
    /\ received \subseteq Requests
    /\ stream \in Seq(Messages)
    /\ answers \subseteq Answers

\* An answer is credited to the request it answers and to no other: a completed
\* entry holds what the debugger answered to that number and that command, though
\* answers come late, out of order and into a table that also holds the requests
\* that timed out (handle_response, find_pending).
AnswerCredited ==
    \A i \in DOMAIN pending : pending[i].completed =>
        [seq |-> pending[i].seq, cmd |-> pending[i].cmd, success |-> pending[i].success]
            \in answers

\* What a command returns is true of its own request: SUCCESS and REQUEST_FAILED are
\* the debugger's word on it, and a command refused or not sent left nothing with the
\* debugger that a retry could repeat (dap_client_wait_for_response, send_request).
ResultSound ==
    LET said(ok) == [seq |-> ret.seq, cmd |-> ret.cmd, success |-> ok] \in answers
    IN  ret.cmd # "process" =>
          /\ ret.err = "SUCCESS" => said(TRUE)
          /\ ret.err = "REQUEST_FAILED" => said(FALSE)
          /\ ret.err \in {"IO_ERROR", "BUFFER_OVERFLOW"} =>
                \A r \in received \cup answers : r.seq # ret.seq

\* The client counts itself initialized only after the debugger has granted an
\* initialize request of this client (handle_response, dap_client_initialize).
InitializedGranted ==
    initialized => \E a \in answers : a.cmd = "initialize" /\ a.success

\* An entry once completed keeps its answer: no later message, late answer or new
\* request rewrites what a caller may already have read (pending_requests).
CompletedIsFinal ==
    [][\A i \in DOMAIN pending : pending[i].completed => pending'[i] = pending[i]]_vars

\* Every call returns, whatever the debugger does: the wait loop counts its polls and
\* each poll is at most 10 ms (dap_client_wait_for_response).
CallReturns == (call.pc # "idle") ~> (call.pc = "idle")

\* What RemoteCall calls the identifiers used, the peer's answers and the last outcome.
Issued == {pending[i].seq : i \in DOMAIN pending}
Answered == {[id |-> a.seq, ok |-> a.success] : a \in answers}
Outcome ==
    IF ret.cmd = "process" THEN [id |-> 0, is |-> "none"]
    ELSE [id |-> ret.seq,
          is |-> CASE ret.err = "SUCCESS" -> "ok"
                   [] ret.err = "REQUEST_FAILED" -> "failed"
                   [] OTHER -> "gaveUp"]

Remote == INSTANCE RemoteCall WITH
    Ids <- Seqs, issued <- Issued, answered <- Answered, current <- call.seq, outcome <- Outcome

\* Seen from outside, the client makes one call at a time, each under a number never
\* used before, and reports on it what its own answer says (RemoteCall).
ImplementsRemoteCall == Remote!Spec
=============================================================================
