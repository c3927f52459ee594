----------------------------- MODULE LldbAdapter -----------------------------
(***************************************************************************)
(* The LLDB adapter (src/src/lldb_adapter.c behind the dispatch of          *)
(* src/src/adapter.c): run control of a program through the client of       *)
(* DapClient, whose variables and actions it shares.                        *)
(*                                                                          *)
(* The adapter learns what the program does in two ways: from events, which *)
(* are handled while any command waits for its answer, and from the answers *)
(* to its own commands, acted on when the command returns.  Launch, attach, *)
(* pause and every query go around the table of pending requests: they are  *)
(* sent under the number the next registered request will get, and nobody   *)
(* waits for their answers.                                                 *)
(*                                                                          *)
(* The adapter starts with a session: see TextAdapters for md_session_create, *)
(* which refuses all three adapters one.                                     *)
(*                                                                          *)
(* The debugger and its program are external: a program runs, stops, is     *)
(* resumed by a request or by itself, and ends, and the debugger reports it.*)
(***************************************************************************)
EXTENDS Integers, Sequences, FiniteSets

CONSTANTS
    WaitPolls,      \* the timeouts md_adapter_wait_for_stop is given, in polls of 50 ms
    MaxRaw,         \* bound: requests sent around the table
    MaxStops,       \* bound: times the program stops
    Timeouts, MaxPending, MaxSeq, MaxStream      \* as in DapClient

EventNames == {"initialized", "stopped", "continued", "exited", "terminated"}
Resuming == {"continue", "next", "stepIn", "stepOut"}
Commands == {"initialize", "disconnect"} \cup Resuming
RawCommands == {"launch", "attach", "pause", "data", "stack"}

ASSUME WaitAssumption == WaitPolls \subseteq Nat \ {0}
ASSUME AdapterBoundsAssumption == MaxRaw \in Nat /\ MaxStops \in Nat

VARIABLES
    seq, pending, initialized, gotInitialized, timeout, call, batch, ret,   \* DapClient
    alive, received, stream, garbled, answers,                              \* DapClient
    astate,         \* adapter->state
    exec,           \* the state model's exec_state
    op,             \* the adapter operation in progress, and wait_for_stop's polls left
    rawReceived,    \* requests sent around the table, read by the debugger and not answered
    prog,           \* external: what the program does
    stops,          \* external: times it stopped
    disturbed       \* history: a message lost, a number shared, a command given up

clientVars == <<seq, pending, initialized, gotInitialized, timeout, call, batch, ret,
                alive, received, stream, garbled, answers>>
adapterVars == <<astate, exec, op>>
vars == <<seq, pending, initialized, gotInitialized, timeout, call, batch, ret, alive,
          received, stream, garbled, answers, astate, exec, op, rawReceived,
          prog, stops, disturbed>>

Client == INSTANCE DapClient

-----------------------------------------------------------------------------
States == {"NONE", "INITIALIZED", "LAUNCHING", "RUNNING", "STOPPED", "TERMINATED", "ERROR"}
ExecStates == {"NONE", "LAUNCHING", "STOPPED", "RUNNING", "STEPPING", "TERMINATED"}
Programs == {"none", "running", "stopped", "ending", "ended"}

NoOp == [name |-> "none", left |-> 0]
Op(n, l) == [name |-> n, left |-> l]

Init ==
    /\ Client!Init
    /\ astate = "NONE" /\ exec = "NONE"
    /\ op = NoOp
    /\ rawReceived = {}
    /\ prog = "none" /\ stops = 0
    /\ disturbed = FALSE

-----------------------------------------------------------------------------
(* Operations that begin a registered request.                              *)

\* A request around the table that is still unanswered, or whose answer is still
\* unread, has the number this registered request is about to take.
Shared ==
    \/ \E r \in rawReceived : r.seq = seq
    \/ \E i \in DOMAIN stream : stream[i].type = "response" /\ stream[i].seq = seq

Begin(c) ==
    /\ op = NoOp
    /\ Client!Start(c)
    /\ op' = Op(c, 0)
    /\ disturbed' = (disturbed \/ Shared)
    /\ UNCHANGED <<astate, exec, rawReceived, prog, stops>>

BeginRefused(c) ==
    /\ op = NoOp
    /\ Client!StartRefused(c)
    /\ IF c = "disconnect" THEN astate' = "TERMINATED" /\ exec' = "TERMINATED"
                           ELSE UNCHANGED <<astate, exec>>
    /\ UNCHANGED <<op, rawReceived, prog, stops, disturbed>>

\* A front end goes on only once the adapter is initialized.
Ready == astate # "NONE"

\* An adapter whose initialisation failed is destroyed, not initialised again.
LldbInit ==
    /\ astate = "NONE" /\ pending = <<>>
    /\ Begin("initialize") \/ BeginRefused("initialize")
Resume(c) == Ready /\ (Begin(c) \/ BeginRefused(c))
LldbContinue == Resume("continue")
LldbStepOver == Resume("next")
LldbStepInto == Resume("stepIn")
LldbStepOut == Resume("stepOut")
LldbDisconnect == Ready /\ (Begin("disconnect") \/ BeginRefused("disconnect"))

\* Mutant: a command that resumes the program returns without noting that it runs.
ConcludeResumeUnnoted(c, err) == UNCHANGED <<astate, exec>>

\* What the dispatch of adapter.c leaves in the state model after a successful command.
ExecAfter(c) == IF c = "continue" THEN "RUNNING" ELSE "STEPPING"

\* continue, next, stepIn and stepOut note that the program runs once they were told so.
ConcludeResume(c, err) ==
    IF err = "SUCCESS" THEN astate' = "RUNNING" /\ exec' = ExecAfter(c)
                       ELSE UNCHANGED <<astate, exec>>

\* disconnect ends the session whatever the debugger answered.
ConcludeDisconnect(err) == astate' = "TERMINATED" /\ exec' = "TERMINATED"

ConcludeInit(err) ==
    /\ astate' = IF err = "SUCCESS" THEN "INITIALIZED" ELSE astate
    /\ UNCHANGED exec

Conclude(c, err) ==
    /\ \/ c = "initialize" /\ ConcludeInit(err)
       \/ c = "disconnect" /\ ConcludeDisconnect(err)
       \/ c \in Resuming /\ ConcludeResume(c, err)
    /\ op' = NoOp
    /\ disturbed' = (disturbed \/ err \notin {"SUCCESS", "REQUEST_FAILED"})

-----------------------------------------------------------------------------
(* Operations sent around the table.                                        *)

\* The request carries client->seq and leaves it as it is; find_pending then knows no
\* such number, and the wait is over before it began.
Raw(c) ==
    /\ op = NoOp /\ call.pc = "idle"
    /\ Cardinality(rawReceived \cup {a \in answers : a.cmd \in RawCommands}) < MaxRaw
    /\ Client!NotFound(seq)
    /\ alive
    /\ \/ rawReceived' = rawReceived \cup {[seq |-> seq, cmd |-> c]}
       \/ garbled /\ UNCHANGED rawReceived
    /\ UNCHANGED <<clientVars, op, prog, stops, disturbed>>

\* The pipe is closed (a half-written request is the subject of DapClient).
RawUnsent(c) ==
    /\ op = NoOp /\ call.pc = "idle" /\ ~alive
    /\ UNCHANGED <<clientVars, op, rawReceived, prog, stops, disturbed>>

\* A launch that was sent is taken for failed; one that was not leaves LAUNCHING behind.
LldbLaunch ==
    /\ Ready /\ UNCHANGED exec
    /\ \/ Raw("launch") /\ astate' = "ERROR"
       \/ RawUnsent("launch") /\ astate' = "LAUNCHING"

\* The state would be set once attach or pause were known to have been granted.
Unheard(c) == Ready /\ (Raw(c) \/ RawUnsent(c)) /\ UNCHANGED <<astate, exec>>
LldbAttach == Unheard("attach")
LldbPause == Unheard("pause")

\* evaluate, setVariable, variables, scopes; threads, stackTrace.
LldbQueryData == Unheard("data")
LldbQueryStack == Unheard("stack")

-----------------------------------------------------------------------------
(* wait_for_stop.                                                           *)

WaitForStop(t) ==
    /\ Ready /\ op = NoOp /\ call.pc = "idle"
    /\ op' = Op("waitForStop", t)
    /\ UNCHANGED <<clientVars, astate, exec, rawReceived, prog, stops, disturbed>>

\* A front end polls for events between operations (md_adapter_process_events).
ProcessEvents ==
    /\ Ready /\ op = NoOp
    /\ Client!ProcessMessages
    /\ op' = Op("processEvents", 0)
    /\ UNCHANGED <<astate, exec, rawReceived, prog, stops, disturbed>>

WaitTurn ==
    /\ op.name = "waitForStop"
    /\ Client!ProcessMessages
    /\ UNCHANGED <<adapterVars, rawReceived, prog, stops, disturbed>>

\* Mutant: a turn of the wait is not counted.
TurnOverUncounted(err) ==
    /\ op' = IF \/ op.name = "processEvents" \/ err # "SUCCESS"
                \/ astate \in {"STOPPED", "TERMINATED"}
             THEN NoOp ELSE op
    /\ UNCHANGED <<astate, exec, disturbed>>

\* After each poll the wait looks at the adapter's state, which an event handler may
\* just have set and an earlier stop may have left, and gives up after its last poll.
TurnOver(err) ==
    /\ op' = IF \/ op.name = "processEvents" \/ err # "SUCCESS"
                \/ astate \in {"STOPPED", "TERMINATED"} \/ op.left = 1
             THEN NoOp ELSE [op EXCEPT !.left = @ - 1]
    /\ UNCHANGED <<astate, exec, disturbed>>

-----------------------------------------------------------------------------
(* Steps of a command in progress.                                          *)

Shown(e, old) ==
    CASE e = "stopped" -> "STOPPED" [] e = "continued" -> "RUNNING"
      [] e \in {"exited", "terminated"} -> "TERMINATED" [] OTHER -> old

\* Mutant: the handler of stops looks only at the state model.
OnEventUnseen(e) ==
    /\ astate' = IF e = "stopped" THEN astate ELSE Shown(e, astate)
    /\ exec' = Shown(e, exec)

\* The handlers the adapter registered.  The state model is told only of an event with a
\* body, and "terminated" may come without one.
OnEvent(e) ==
    /\ astate' = Shown(e, astate)
    /\ exec' = Shown(e, exec) \/ (e = "terminated" /\ UNCHANGED exec)

HandleMessage ==
    /\ Client!ProcessMessage
    /\ IF Head(batch).type = "event" THEN OnEvent(Head(batch).event)
                                     ELSE UNCHANGED <<astate, exec>>
    /\ UNCHANGED <<op, rawReceived, prog, stops, disturbed>>

\* One loss is enough to tell what a loss does.
DropMessage ==
    /\ ~disturbed
    /\ Client!LoseMessage
    /\ disturbed' = TRUE
    /\ UNCHANGED <<adapterVars, rawReceived, prog, stops>>

\* The client's step ends its call: the operation goes on from there in the same step.
CommandStep ==
    /\ op # NoOp
    /\ Client!SendRequest \/ Client!SendFails \/ Client!WaitPoll \/ Client!PollDone
          \/ Client!WaitOver
    /\ IF call'.pc # "idle" THEN UNCHANGED <<adapterVars, disturbed>>
       ELSE IF call.cmd = "process" THEN TurnOver(ret'.err)
       ELSE Conclude(call.cmd, ret'.err)
    /\ UNCHANGED <<rawReceived, prog, stops>>

-----------------------------------------------------------------------------
(* The debugger and its program.                                            *)

\* What a granted request does to the program.
Effect(c) ==
    CASE c \in Resuming -> prog = "stopped" /\ prog' = "running"
      [] c \in {"launch", "attach"} -> prog = "none" /\ prog' = "running"
      [] c = "disconnect" -> prog' = "ended"
      [] OTHER -> UNCHANGED prog

AnswerCommand ==
    /\ \E r \in received, ok \in BOOLEAN :
          Client!Answer(r, ok) /\ IF ok THEN Effect(r.cmd) ELSE UNCHANGED prog
    /\ UNCHANGED <<adapterVars, rawReceived, stops, disturbed>>

AnswerRaw ==
    /\ \E r \in rawReceived, ok \in BOOLEAN :
          /\ Client!Answer(r, ok)
          /\ rawReceived' = rawReceived \ {r}
          /\ IF ok THEN Effect(r.cmd) ELSE UNCHANGED prog
    /\ UNCHANGED <<adapterVars, stops, disturbed>>

ProgramStops ==
    /\ prog = "running" /\ stops < MaxStops
    /\ Client!Emit("stopped")
    /\ prog' = "stopped" /\ stops' = stops + 1
    /\ UNCHANGED <<adapterVars, rawReceived, disturbed>>

ProgramResumes ==
    /\ prog = "stopped"
    /\ Client!Emit("continued")
    /\ prog' = "running"
    /\ UNCHANGED <<adapterVars, rawReceived, stops, disturbed>>

ProgramExits ==
    /\ \/ prog = "running" /\ Client!Emit("exited") /\ prog' = "ending"
       \/ prog = "ending" /\ Client!Emit("terminated") /\ prog' = "ended"
    /\ UNCHANGED <<adapterVars, rawReceived, stops, disturbed>>

DebuggerDies ==
    /\ Client!Exit
    /\ prog' = "ended"
    /\ UNCHANGED <<adapterVars, rawReceived, stops, disturbed>>

-----------------------------------------------------------------------------
AdapterStep == WaitTurn \/ HandleMessage \/ DropMessage \/ CommandStep

Next ==
    \/ LldbInit \/ LldbDisconnect
    \/ LldbContinue \/ LldbStepOver \/ LldbStepInto \/ LldbStepOut
    \/ LldbLaunch \/ LldbAttach \/ LldbPause \/ LldbQueryData \/ LldbQueryStack
    \/ \E t \in WaitPolls : WaitForStop(t)
    \/ ProcessEvents
    \/ AdapterStep
    \/ AnswerCommand \/ AnswerRaw
    \/ ProgramStops \/ ProgramResumes \/ ProgramExits \/ DebuggerDies

Spec == Init /\ [][Next]_vars

\* The caller's thread runs; a poll returns after at most 50 ms.
FairSpec == Spec /\ WF_vars(AdapterStep)

-----------------------------------------------------------------------------
(* Properties.                                                              *)

\* Nothing the debugger has written is still unread, and no command is under way.
Quiet == stream = <<>> /\ batch = <<>> /\ op = NoOp

\* Once everything is read, a front end that is shown a stopped program can inspect it:
\* it has not run on, by a command of its own or by itself, unless a message was lost, a
\* number shared or a command given up (on_stopped_event, on_continued_event,
\* the ends of continue, next, stepIn and stepOut).
ShownStopHolds == Quiet /\ ~disturbed /\ alive /\ astate = "STOPPED" => prog = "stopped"

\* The state is kept twice, by the adapter and by the state model, and written by event
\* handlers, by commands and by the dispatch.  As long as the adapter shows a program that
\* has not begun, runs or is stopped, the state model shows the same (adapter->state,
\* exec_state).  After a launch, which tells only the adapter, and after the end, of which a
\* bodiless notice tells only the adapter, they may differ.
CopiesAgree ==
    /\ astate \in {"NONE", "INITIALIZED"} => exec = "NONE"
    /\ astate = "STOPPED" => exec = "STOPPED"
    /\ astate = "RUNNING" => exec \in {"RUNNING", "STEPPING"}

\* Every operation returns, wait_for_stop included, whatever the debugger does or omits
\* (md_adapter_wait_for_stop counts its polls).
OperationsReturn == (op # NoOp) ~> (op = NoOp)
=============================================================================
