---------------------------- MODULE TextAdapters ----------------------------
(***************************************************************************)
(* The two adapters that speak text to their debugger, behind the dispatch  *)
(* of src/src/adapter.c: GDB's machine interface (src/src/gdb_adapter.c) and *)
(* bashdb (src/src/shell_adapter.c).                                         *)
(*                                                                          *)
(* Nothing in the text says which command an output answers.  A command that *)
(* wants an answer writes itself and then reads what it finds: GDB's until a *)
(* prompt or until the pipe is empty, which it usually still is; the shell's *)
(* until a prompt or for a hundred empty reads.  Other commands read nothing *)
(* and leave their outputs in the pipe.  Notices that the program stopped    *)
(* travel between the answers; process_events looks for them in what it      *)
(* reads, and most commands that read them do not.                           *)
(*                                                                          *)
(* The debugger and its program are external.                                *)
(***************************************************************************)
EXTENDS Integers, Sequences, SequencesExt

CONSTANTS
    Places,             \* path and line of a breakpoint
    ManagerRequired,    \* md_session_create refuses the NULL manager the adapters pass
    Attempts,           \* the shell's empty reads: 100 in the code
    MaxCmds,            \* bound: operations that send a command
    MaxStops            \* bound: times the program stops

ASSUME TextAssumption ==
    /\ ManagerRequired \in BOOLEAN
    /\ Attempts \in Nat \ {0} /\ MaxCmds \in Nat /\ MaxStops \in Nat

VARIABLES
    kind,       \* adapter->type
    sess,       \* whether adapter->session is set
    astate,     \* adapter->state
    exec,       \* exec_state of adapter->state_model
    listed,     \* the state model's breakpoints: the debugger's number and the place
    counter,    \* the shell's breakpoint_counter
    initErr,    \* what md_adapter_init returned last
    op,         \* the command that is reading its answer
    sent,       \* operations that sent a command so far
    cmds,       \* commands the debugger has not read
    out,        \* outputs the adapter has not read
    alive,      \* external: the debugger's process runs
    bps,        \* external: the breakpoints the debugger has
    made,       \* external: the breakpoints it ever made
    prog,       \* external: the program
    stops,      \* external: times it stopped
    starved,    \* history: the system refused a session
    sound,      \* history: every breakpoint was set and removed undisturbed
    missed      \* history: something that was read went unheeded

modelVars == <<exec, listed, counter>>
debuggerVars == <<alive, bps, made, prog, stops>>
historyVars == <<starved, sound, missed>>
vars == <<kind, sess, astate, exec, listed, counter, initErr, op, sent, cmds, out,
          alive, bps, made, prog, stops, starved, sound, missed>>

-----------------------------------------------------------------------------
Kinds == {"gdb", "shell"}
States == {"NONE", "INITIALIZED", "LAUNCHING", "RUNNING", "STOPPED", "TERMINATED"}
ExecStates == {"NONE", "STOPPED", "RUNNING", "STEPPING", "TERMINATED"}

\* A command, with the breakpoint it is about; an output, with the number in it.
Cmd(c, num, place) == [cmd |-> c, num |-> num, place |-> place]
Plain(c) == Cmd(c, 0, CHOOSE p \in Places : TRUE)
Item(what, num) == [what |-> what, num |-> num]
Text(what) == <<Item(what, 0)>>
Prompt == Text("prompt")
Says(text, what) == \E i \in DOMAIN text : text[i].what = what
SaysAny(text, whats) == \E w \in whats : Says(text, w)

\* The number after the first mention of a breakpoint, 0 if there is none.
Number(text) ==
    IF Says(text, "bkpt")
    THEN text[CHOOSE i \in DOMAIN text :
                 text[i].what = "bkpt" /\ \A j \in 1 .. (i - 1) : text[j].what # "bkpt"].num
    ELSE 0

NoOp == [cmd |-> Plain("none"), text |-> <<>>, left |-> 0, clean |-> TRUE]

Init ==
    /\ kind \in Kinds
    /\ sess = FALSE /\ astate = "NONE" /\ exec = "NONE"
    /\ listed = <<>> /\ counter = 0 /\ initErr = "none"
    /\ op = NoOp /\ sent = 0 /\ cmds = <<>> /\ out = <<>>
    /\ alive = FALSE /\ bps = {} /\ made = 0 /\ prog = "none" /\ stops = 0
    /\ starved = FALSE /\ sound = TRUE /\ missed = FALSE

-----------------------------------------------------------------------------
(* Lifecycle.                                                               *)

\* A session is a new debugger behind new pipes, which first are sent the commands in
\* opening; the system may refuse one.
CreateSession(opening) ==
    /\ bps' = {} /\ made' = 0
    /\ \/ /\ ~ManagerRequired /\ sess' = TRUE
          /\ cmds' = opening /\ out' = Prompt /\ UNCHANGED starved
       \/ /\ sess' = FALSE /\ cmds' = <<>> /\ out' = <<>>
          /\ starved' = (starved \/ ~ManagerRequired)
    /\ alive' = sess'

AdapterInit ==
    /\ astate = "NONE" /\ ~sess
    /\ CreateSession(<<>>)
    /\ astate' = IF sess' THEN "INITIALIZED" ELSE "NONE"
    /\ initErr' = IF sess' THEN "SUCCESS" ELSE "OUT_OF_MEMORY"
    /\ UNCHANGED <<kind, modelVars, op, sent, prog, stops, sound, missed>>

\* Commands whose answer nobody reads.
Send(seq) ==
    /\ sent < MaxCmds
    /\ IF alive THEN cmds' = cmds \o seq /\ sent' = sent + 1
                ELSE UNCHANGED <<cmds, sent>>
    /\ UNCHANGED out

Idle == sess /\ op = NoOp

GdbLaunch ==
    /\ Idle /\ kind = "gdb"
    /\ Send(<<Plain("set"), Plain("run")>>)
    /\ IF alive THEN astate' = "RUNNING" /\ exec' = "RUNNING"
                ELSE astate' = "LAUNCHING" /\ UNCHANGED exec
    /\ UNCHANGED <<kind, sess, listed, counter, initErr, op, debuggerVars, historyVars>>

\* Every command has been answered (bashdb answers one that resumes the script when the
\* script stops), and every answer read.
Undisturbed == cmds = <<>> /\ out = <<>> /\ (kind = "shell" => prog # "running")

\* A command whose answer is read: it is undisturbed if nothing else is on its way.
Begin(c) ==
    /\ Send(<<c>>)
    /\ op' = [cmd |-> c, text |-> <<>>, left |-> Attempts, clean |-> Undisturbed]

\* The debugger is replaced by a new one, which is sent an empty line: the reading ends
\* with the greeting's prompt or with the one that answers the line, which is then still
\* to come.  Without a new debugger the adapter is left LAUNCHING.
ShellLaunch ==
    /\ Idle /\ kind = "shell" /\ sent < MaxCmds
    /\ CreateSession(<<Plain("empty")>>)
    /\ astate' = "LAUNCHING"
    /\ IF sess' THEN op' = [NoOp EXCEPT !.cmd = Plain("launch"), !.left = Attempts]
                ELSE UNCHANGED op
    /\ sent' = sent + 1
    /\ prog' = IF sess' THEN "stopped" ELSE "ended"
    /\ sound' = (sound /\ listed = <<>>)
    /\ UNCHANGED <<kind, modelVars, initErr, stops, missed>>

Disconnect ==
    /\ Idle
    /\ \/ kind = "gdb" /\ Send(<<Plain("interrupt"), Plain("set"), Plain("exit")>>)
       \/ Send(<<Plain("exit")>>)
    /\ astate' = "TERMINATED" /\ exec' = "TERMINATED"
    /\ UNCHANGED <<kind, sess, listed, counter, initErr, op, debuggerVars, historyVars>>

-----------------------------------------------------------------------------
(* Commands.                                                                *)

Query(c) ==
    /\ Idle /\ alive
    /\ Begin(c)
    /\ UNCHANGED <<kind, sess, astate, modelVars, initErr, debuggerVars, historyVars>>

SetBreakpoint(p) == Query(Cmd("break", 0, p))

\* evaluate and get_stack_frames.
Evaluate == Query(Plain("evaluate"))

FirstNumbered(i, n) == listed[i].num = n /\ \A j \in 1 .. (i - 1) : listed[j].num # n

\* Mutant: a breakpoint leaves the list and the debugger keeps it.
RemoveBreakpointUntold ==
    /\ Idle
    /\ \E i \in DOMAIN listed :
          FirstNumbered(i, listed[i].num) /\ listed' = RemoveAt(listed, i)
    /\ UNCHANGED <<kind, sess, astate, exec, counter, initErr, op, sent, cmds, out,
                   debuggerVars, historyVars>>

\* The first breakpoint with the number leaves the list whatever the debugger does.
RemoveBreakpoint ==
    /\ Idle
    /\ \E i \in DOMAIN listed :
          /\ FirstNumbered(i, listed[i].num)
          /\ Send(<<Cmd("delete", listed[i].num, listed[i].place)>>)
          /\ listed' = RemoveAt(listed, i)
    /\ UNCHANGED <<kind, sess, astate, exec, counter, initErr, op, debuggerVars, historyVars>>

\* The list is cleared; the debugger is not told.
ClearAllBreakpoints ==
    /\ Idle /\ listed # <<>>
    /\ listed' = <<>> /\ sound' = FALSE
    /\ UNCHANGED <<kind, sess, astate, exec, counter, initErr, op, sent, cmds, out,
                   debuggerVars, starved, missed>>

\* GDB's commands note their effect and read nothing: continue in both places, the
\* steps in the state model only.
GdbContinue ==
    /\ Idle /\ kind = "gdb" /\ alive
    /\ Send(<<Plain("resume")>>)
    /\ astate' = "RUNNING" /\ exec' = "RUNNING"
    /\ UNCHANGED <<kind, sess, listed, counter, initErr, op, debuggerVars, historyVars>>

GdbStep ==
    /\ Idle /\ kind = "gdb" /\ alive
    /\ Send(<<Plain("resume")>>)
    /\ exec' = "STEPPING"
    /\ UNCHANGED <<kind, sess, astate, listed, counter, initErr, op, debuggerVars, historyVars>>

GdbPause ==
    /\ Idle /\ kind = "gdb"
    /\ Send(<<Plain("interrupt")>>)
    /\ UNCHANGED <<kind, sess, astate, modelVars, initErr, op, debuggerVars, historyVars>>

ShellContinue == kind = "shell" /\ Query(Plain("continue"))
ShellStep == kind = "shell" /\ Query(Plain("step"))

\* Mutant: nobody looks for the notice that the program runs.
ProcessGdbTextStops(text) ==
    /\ astate' = IF Says(text, "stopped") THEN "STOPPED" ELSE astate
    /\ exec' = IF Says(text, "stopped") THEN "STOPPED" ELSE exec

\* What process_events makes of what it reads: running wins over stopped, in any order.
ProcessGdbText(text) ==
    /\ astate' = IF Says(text, "running") THEN "RUNNING"
                 ELSE IF Says(text, "stopped") THEN "STOPPED" ELSE astate
    /\ exec' = IF Says(text, "stopped") THEN "STOPPED" ELSE exec

ProcessShellText(text) ==
    /\ astate' = IF Says(text, "terminated") THEN "TERMINATED"
                 ELSE IF Says(text, "stopped") THEN "STOPPED" ELSE astate
    /\ UNCHANGED exec

\* Read together, two notices make one; a refusal is not looked for.
Unheeded(text) == Says(text, "refused") \/ (Says(text, "stopped") /\ Says(text, "running"))

ProcessEvents ==
    /\ Idle /\ out # <<>>
    /\ \E n \in 1 .. Len(out) :
          LET text == SubSeq(out, 1, n) IN
             /\ out' = SubSeq(out, n + 1, Len(out))
             /\ IF kind = "gdb" THEN ProcessGdbText(text) ELSE ProcessShellText(text)
             /\ missed' = (missed \/ Unheeded(text))
    /\ UNCHANGED <<kind, sess, listed, counter, initErr, op, sent, cmds, debuggerVars,
                   starved, sound>>

-----------------------------------------------------------------------------
(* The end of a command that reads its answer.                              *)

\* The shell makes up a number when it read none; GDB's breakpoint stays without.
Numbered(text) ==
    IF Number(text) # 0 \/ kind = "gdb" THEN Number(text) ELSE counter + 1

\* The breakpoint is listed as verified whatever was read; a condition, if there is
\* one, is sent after it.
ConcludeBreak(text) ==
    /\ listed' = <<[num |-> Numbered(text), place |-> op.cmd.place]>> \o listed
    /\ counter' = IF Number(text) = 0 /\ kind = "shell" THEN counter + 1 ELSE counter
    /\ sound' = (sound /\ op.clean /\ Says(text, "bkpt"))
    /\ missed' = (missed \/ SaysAny(text, {"stopped", "running", "terminated", "refused"}))
    /\ \/ UNCHANGED cmds
       \/ Numbered(text) > 0 /\ alive /\ cmds' = Append(cmds, Plain("set"))
    /\ UNCHANGED <<astate, exec, sent>>

ConcludeEvaluate(text) ==
    /\ missed' = (missed \/ SaysAny(text, {"stopped", "running", "terminated", "refused"}))
    /\ UNCHANGED <<astate, modelVars, sound, cmds, sent>>

\* A mention of a breakpoint is taken for a stop.
ConcludeContinue(text) ==
    /\ astate' = IF SaysAny(text, {"stopped", "bkpt"}) THEN "STOPPED"
                 ELSE IF Says(text, "terminated") THEN "TERMINATED" ELSE "RUNNING"
    /\ exec' = "RUNNING"
    /\ missed' = (missed \/ ~op.clean \/ SaysAny(text, {"bkpt", "refused"})
                    \/ (Says(text, "stopped") /\ Says(text, "terminated")))
    /\ UNCHANGED <<listed, counter, sound, cmds, sent>>

\* A step is over, whatever was read.
ConcludeStep(text) ==
    /\ astate' = "STOPPED" /\ exec' = "STEPPING"
    /\ missed' = (missed \/ ~op.clean \/ Says(text, "terminated") \/ ~Says(text, "stopped"))
    /\ UNCHANGED <<listed, counter, sound, cmds, sent>>

ConcludeLaunch(text) ==
    /\ astate' = "STOPPED" /\ exec' = "STOPPED"
    /\ UNCHANGED <<listed, counter, sound, missed, cmds, sent>>

Conclude(text) ==
    /\ op' = NoOp
    /\ \/ op.cmd.cmd = "break" /\ ConcludeBreak(text)
       \/ op.cmd.cmd = "evaluate" /\ ConcludeEvaluate(text)
       \/ op.cmd.cmd = "continue" /\ ConcludeContinue(text)
       \/ op.cmd.cmd = "step" /\ ConcludeStep(text)
       \/ op.cmd.cmd = "launch" /\ ConcludeLaunch(text)

GoOn == UNCHANGED <<astate, modelVars, sound, missed, cmds, sent>>

\* Some of what is in the pipe is read; a prompt in what was read so far ends the reading.
ReadSome ==
    /\ op # NoOp /\ out # <<>>
    /\ \E n \in 1 .. Len(out) :
          LET text == op.text \o SubSeq(out, 1, n) IN
             /\ out' = SubSeq(out, n + 1, Len(out))
             /\ IF Says(text, "prompt") THEN Conclude(text)
                ELSE op' = [op EXCEPT !.text = text] /\ GoOn
    /\ UNCHANGED <<kind, sess, initErr, debuggerVars, starved>>

\* Mutant: an empty read of the shell's is not counted.
ReadNothingUncounted ==
    /\ op # NoOp /\ out = <<>>
    /\ IF kind = "gdb" THEN Conclude(op.text) ELSE UNCHANGED op /\ GoOn
    /\ UNCHANGED <<kind, sess, initErr, out, debuggerVars, starved>>

\* The pipe is empty: that ends GDB's reading, and the shell's the hundredth time.
ReadNothing ==
    /\ op # NoOp /\ out = <<>>
    /\ IF kind = "gdb" \/ op.left = 1 THEN Conclude(op.text)
       ELSE op' = [op EXCEPT !.left = @ - 1] /\ GoOn
    /\ UNCHANGED <<kind, sess, initErr, out, debuggerVars, starved>>

-----------------------------------------------------------------------------
(* The debugger and its program.                                            *)

External == UNCHANGED <<kind, sess, astate, modelVars, initErr, op, sent, historyVars>>

\* The first command is carried out or refused, and answered with a prompt; bashdb
\* answers nothing while the script runs.
CarryOut(c) ==
    \/ /\ c.cmd = "break"
       /\ made' = made + 1 /\ bps' = bps \cup {[num |-> made + 1, place |-> c.place]}
       /\ out' = out \o <<Item("bkpt", made + 1)>> \o Prompt
       /\ UNCHANGED <<alive, prog, stops>>
    \/ /\ c.cmd = "delete"
       /\ bps' = {b \in bps : b.num # c.num}
       /\ out' = out \o Prompt
       /\ UNCHANGED <<alive, made, prog, stops>>
    \/ /\ \/ c.cmd = "run" /\ prog \in {"none", "ended"}
          \/ c.cmd = "resume" /\ prog = "stopped"
       /\ prog' = "running" /\ out' = out \o Text("running") \o Prompt
       /\ UNCHANGED <<alive, bps, made, stops>>
    \/ /\ c.cmd \in {"continue", "step"} /\ prog = "stopped"
       /\ prog' = "running"
       /\ UNCHANGED <<alive, bps, made, stops, out>>
    \/ /\ c.cmd \in {"empty", "evaluate", "set", "interrupt"}
       /\ out' = out \o Text("done") \o Prompt
       /\ UNCHANGED debuggerVars
    \/ /\ c.cmd = "exit"
       /\ alive' = FALSE /\ prog' = "ended"
       /\ UNCHANGED <<out, bps, made, stops>>
    \/ /\ c.cmd \in {"break", "run", "resume", "continue", "step"}
       /\ out' = out \o Text("refused") \o Prompt
       /\ UNCHANGED debuggerVars

Debugger ==
    /\ alive /\ cmds # <<>>
    /\ kind = "gdb" \/ prog # "running"
    /\ CarryOut(Head(cmds)) /\ cmds' = Tail(cmds)
    /\ External

ProgramStops ==
    /\ alive /\ prog = "running" /\ stops < MaxStops
    /\ stops' = stops + 1
    /\ \/ prog' = "stopped" /\ out' = out \o Text("stopped") \o Prompt
       \/ prog' = "ended" /\ out' = out \o Text(IF kind = "gdb" THEN "stopped" ELSE "terminated") \o Prompt
    /\ UNCHANGED <<alive, bps, made, cmds>>
    /\ External

DebuggerDies ==
    /\ alive /\ alive' = FALSE /\ prog' = "ended"
    /\ UNCHANGED <<bps, made, stops, cmds, out>>
    /\ External

-----------------------------------------------------------------------------
AdapterReads == ReadSome \/ ReadNothing

Next ==
    \/ AdapterInit \/ GdbLaunch \/ ShellLaunch \/ Disconnect
    \/ \E p \in Places : SetBreakpoint(p)
    \/ RemoveBreakpoint \/ ClearAllBreakpoints
    \/ Evaluate
    \/ GdbContinue \/ GdbStep \/ GdbPause \/ ShellContinue \/ ShellStep
    \/ ProcessEvents
    \/ AdapterReads
    \/ Debugger \/ ProgramStops \/ DebuggerDies

Spec == Init /\ [][Next]_vars

\* The caller's thread goes on reading; the shell's sleeps are of 10 ms.
FairSpec == Spec /\ WF_vars(AdapterReads)

-----------------------------------------------------------------------------
(* Properties.                                                              *)

\* Nothing is under way in either direction.
Quiet == alive /\ cmds = <<>> /\ out = <<>> /\ op = NoOp

\* The breakpoints the front end is shown are those the debugger has, under the numbers
\* it knows them by, as long as each was set with nothing else on its way and was granted
\* before the reading ended, and none was dropped without telling the debugger
\* (gdb_set_breakpoint, shell_set_breakpoint and the removals).
ListedAreSet == Quiet /\ sound => ToSet(listed) = bps

\* Once all is read, STOPPED is shown when the program is stopped and not while it runs,
\* unless something was read that the reader did not look for (process_events, the ends
\* of the shell's continue and steps, GDB's steps that leave the state alone).
ShownHolds ==
    Quiet /\ ~missed =>
       /\ astate = "STOPPED" => prog # "running"
       /\ prog = "stopped" => astate = "STOPPED"

\* A command that reads its answer returns, whatever the debugger does or omits
\* (send_mi_command, send_shell_command).
CommandsReturn == (op # NoOp) ~> (op = NoOp)

\* README.md:364 says "Initialize and launch": md_adapter_init has no memory left only
\* when the system has none.
InitFailsForCause == initErr = "OUT_OF_MEMORY" => starved
=============================================================================
