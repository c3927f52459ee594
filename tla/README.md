# magic-debugger in TLA+

TLA+ models of magic-debugger (the C core, its terminal interface and the lock and channels
of its Go server), the configurations with which TLC checks them,
and proofs checked by TLAPS. Every definition is translated from the source; `PROJECT.json`
("map") names the lines each one stands for.

## The system

A front end (terminal interface, Vim plugin, or a Go server for AI tools) drives a debugger.
An *adapter* turns its wishes into requests; for LLDB these are Debug Adapter Protocol (DAP)
messages. A *session* is the debugger process with its three pipes. What the debugger says
goes through a byte buffer and a parser to the DAP client, which completes the request that
waits for it or hands an event to the adapter, which writes it into the *state model* that
the front ends read.

| Component | State it keeps | Operations | Interacts by | Hard because | Correct when |
|---|---|---|---|---|---|
| DAP client, requests (`dap_client.c`) | next number, table of pending requests, `initialized`, timeout | one command at a time; pump; send event | pipes to the debugger; callbacks to the adapter | answers late, reordered, lost; half-written requests; the debugger dies; a full table | a caller is told what the debugger said of *its* request, or that it gave up; every call returns |
| DAP client, framing (`dap_client.c`) | read buffer | parse after each read | reads stdout and stderr into one buffer | a read ends anywhere; stderr lands inside a message | messages are handled whole, once, in order; none is lost |
| I/O buffer (`io_handler.c`) | memory, capacity, head, tail, size | write, read, peek, lines, compact, clear | called by the framing | wrapping, growth, indices at the end of the memory | it is a queue of bytes |
| I/O handler (`io_handler.c`) | table of descriptors and callbacks | register, unregister, process | callbacks | callbacks that change the table | the callback called is the one registered |
| Session manager (`session_manager.c`) | list, count, mutex, per session pid, state, exit code | create, destroy, terminate, wait, destroy the manager | threads; kernel processes and signals | unlocked calls interleave; a zombie still answers `kill(pid, 0)`; reaped identifiers | books are right; no process survives its session; no end is invented; the mutex is released |
| State model (`state_model.c`) | breakpoints, threads, frames, variables, execution state, listeners | events, responses, callers' changes | called by adapters; notifies listeners | order of events and responses; old copies written back; reset | numbers stay unique; hits are not invented; listeners see what replaces what they drew; a number leads to its variable |
| LLDB adapter (`lldb_adapter.c`, `adapter.c`) | adapter state, current thread and frame | launch, breakpoints, run control, queries | DAP client, state model | events handled inside commands; requests outside the pending table | a stop that is shown is one; every operation returns |
| GDB, shell adapters (`gdb_adapter.c`, `shell_adapter.c`) | adapter state, breakpoint counter | text commands | session directly | output read without waiting for it | what is shown is what the debugger has, as far as its output was read by who asked |
| Signal handler (`signal_handler.c`) | flags, self-pipe, saved actions | init, check, clear, mask | kernel signals | handler at any instruction; rollback | no handler writes to a closed pipe; a failed init leaves nothing behind |
| Go debugger API (`ai-interface/api`, `binding`) | lock, running flag, event channel | one method per command; an event goroutine | goroutines | a lock taken twice, held while waiting | calls return |
| WebSocket server (`ai-interface/server`) | clients, channels | register, unregister, broadcast, shut down | goroutines and channels | two pumps and the registry close the same channel | answers keep their order; who leaves is forgotten; the server survives it |
| Terminal interface (`tui.c`, `tui_panel.c`) | panels, windows, focus; per panel a view, a selection, a buffer | keys, layout, updates | adapter, state model | ids reused, hidden panels, clamping at small heights | a panel keeps its window; the focus and the cursor stay in sight; nothing recent is lost |
| Vim plugin, logger, conversions, AI helper, cJSON | - | wording, parsing | - | - | not modelled: formatting without shared state, or vendored |

The hazards of this code, each with its line and the properties aimed at it, are listed in
`PROJECT.json` ("hazards").

## Modules

| Module | Models | State and actions against the code |
|---|---|---|
| `RemoteCall` | what a request/response client promises | abstract: issue under a fresh number, the peer answers at most once, finish with that answer or give up |
| `DapClient` | `dap_client.c`, requests, with the debugger as environment | `pending` is `pending_requests[0 .. pending_count-1]`, `call` the place in the current command, `batch` what a poll has read. `Start` takes number and slot, `SendRequest`/`SendFails` write it, `WaitPoll`, `ProcessMessage`, `PollDone`, `WaitOver` are the wait loop, one step for each point where the debugger can act in between. `Answer`, `Emit`, `Exit` are the debugger |
| `DapFraming` | `dap_client_process_messages` and `parse_messages_from_buffer` | bytes are tokens that say to which part of which message they belong; one parser turn is `NoLine`, `BadLine` or `GoodLine` |
| `ByteQueue`, `IoBuffer` | what `io_handler.h` promises of a buffer, and the ring buffer | one action per operation; memory is a function, never-written memory a value of its own |
| `IoHandler` | `md_io_handler_*`: registrations and `md_io_handler_process` | `pfds` is the copy poll fills, `table` the live array the dispatcher walks; between two dispatches a callback may register, unregister, modify, read or close |
| `SessionManager` | `session_manager.c`, its threads and the kernel's process table | calls under the mutex are cut where a process can end in between; `terminate` and `wait` take no lock and are cut at their system call |
| `StateModel` | breakpoints, threads and execution state of `state_model.c` | one step per call; what comes in any order is outside: events, responses, and `held`, a copy some caller writes back |
| `StateData` | frames, variables, exception, modules and listeners of `state_model.c` | chains of lists, newest first; a listener is a callback with the copy it made when it was last told; `untold` remembers what was taken away without a notice, and an allocation may fail between the old list and the new; a variable's number is an int of `MaxInt`, and a product that overflows wraps |
| `LldbAdapter` | `lldb_adapter.c` behind `adapter.c` | `INSTANCE DapClient` on shared variables: a registered command is that client's call, events are handled where it handles them (`OnEvent`), what the command does with its result is `CommandStep`; launch, attach, pause and queries go around the table; a notice of termination comes with or without a body, and without one it reaches the adapter only (`Shown`); the program is external |
| `TextAdapters` | `gdb_adapter.c`, `shell_adapter.c` behind `adapter.c` | `cmds` and `out` are the pipes; a command writes and then reads what is there, as far as its adapter reads; the shell's launch sends an empty line, which the new debugger answers with a prompt and nothing else; debugger and program external |
| `SignalHandler` | `signal_handler.c` | init, the undoing of one that failed (`UndoOrder`) and shutdown (`ShutdownOrder`) are one step per system call that changes an action or closes an end of the pipe, with the handler possible between any two; `pipe` keeps each end by itself |
| `TuiPanels` | panels, windows, focus of `tui.c`, the help panel's keys | `slots` is `s_panel_data`, `id` the index a panel believes is its own |
| `SourcePanel`, `ListPanels` | source, call stack and threads panels of `tui_panel.c` | the handlers call one another, so each is an operator from the panel's data to the panel's data; a search reads beyond the lines below the first (`Beneath`) and after the last, where it may end with nothing |
| `OutputPanel` | output buffer of `tui_panel.c`, command history of `tui.c` | lines and commands are numbers |
| `AiServer` | `websocket.go` and the lock, events and `Close` of `debugger.go` | one reader and one writer goroutine per connection, the registry, the broadcaster with its goroutine per event and connection, the ticker; a launch holds the lock for writing and, once it has succeeded, its handler takes it again to read the state (`GetState`) |
| `DapClientProofs`, `DapInputProofs`, `SessionManagerProofs`, `StateModelProofs`, `LldbAdapterProofs`, `TextAdapterProofs`, `TuiProofs`, `AiServerProofs` | - | the proofs: of `DapClient`; of `IoBuffer`, `DapFraming` and `IoHandler`; of `SessionManager` and `SignalHandler`; of `StateModel` and `StateData`; of the adapters; of the terminal's modules; of `AiServer` |
| `MC*` | - | instances for TLC |

How they fit together: `IoBuffer` implements `ByteQueue`, and `DapFraming` works on a
byte queue. `DapClient` takes messages as atomic and allows any of them to be lost
(`LoseMessage`), which is what `DapFraming` shows the parser to do: whole messages, in
order, some missing. `DapClient` implements `RemoteCall`, and `LldbAdapter` runs on
`DapClient` itself. The adapters write the execution state that `StateModel` and the front
ends read; the list panels move the source panel.

Modules that do not share state are checked in one run as a sum: `part`, chosen in the
initial state, says which of them moves (`MCEventLoop`, `MCStateModel`, `MCTui`).

Mutants: next to an action stands, marked as such, the form a plausible bug would give it.
No next-state relation uses them; they show that each property can fail.

## Runs

| Run | Question | Bounds, and why they are enough |
|---|---|---|
| `dap_client` | Are answers credited, results sound, `initialized` granted, completed entries final; does every call return; is it a `RemoteCall`? | 3 numbers, a table of 2, 2 unread messages, 1 poll per timeout: one request timed out, one in progress and one refused; answers swapped and late; the debugger may die at any point. The only commands with effects of their own are `initialize` and `disconnect`, and both are issued |
| `sessions` | Are the books right, are destroyed processes dead, are states and exit codes true, is the mutex released? | 2 threads, 2 sessions at a time of 3 made, 3 processes, 1 poll of destroy's 10: the polls only pass time. Blocking waits, and identifiers that are not reused (see findings) |
| `state_model` | Do numbers stay unique and hits honest over old copies and resets; are listeners told and do they hold what the model holds, unless it went without a word; does a number lead to its variable; does the module list drift? | 2 breakpoints of 3 made, 1 place, 1 debugger number, 1 hit, 2 threads (symmetric): the list fills, a place is taken twice, a number could be used twice. Scopes of 1000 and 1001 variables, on both sides of the stride of the numbers, and one whose numbers do not fit into the run's int; allocations that fail; 2 listeners, possibly the same callback twice; 3 modules for 2 places |
| `lldb_adapter` | Is a stop that is shown a stop; does the state model show what the adapter shows of a program not begun, running or stopped; does every operation return? | a registered command after initialize, one request around the table unanswered at a time, 2 stops: a stop is reported, waited for, resumed from and reported again, before and after the answer to the command that caused it |
| `text_adapters` | Is what is shown what the debugger has? | both adapters, 1 place with 2 breakpoints, 3 operations, 2 stops, 2 empty reads of the shell's 100: an answer comes during the next command and a stop reaches the wrong reader |
| `event_loop` | Is the self-pipe open whenever a handler runs, and does a failed init undo itself, call by call? What may a callback do to the dispatcher? Is the ring a byte queue? Are messages handled whole, once, in order, and which cuts are harmless? | four parts, one at a time. 2 signals and a pipe of 1 byte, which the second overflows. 3 symmetric descriptors with room for all: remove one's own, another's, and add in one round. A buffer of 3 that can grow to 6, requests of 1 and 2 bytes, a letter and a newline (what is written is arbitrary, so a misplaced byte shows where they differ): every split of a write and a read over the end occurs; growth while wrapped is excluded (see findings). 4 messages with bodies of 3 tokens, reads cut anywhere, 2 writes to stderr with or without a newline, lines of at most 4 tokens: one message can be lost, one swallowed while the parser finds its place again, and others follow |
| `tui` | Do panels keep their windows, the focus and the cursor their place; is the search right; is an entered frame shown; is the latest output kept? | 3 panels with help hidden between two others; files of 4 and 2 lines in views of 1 to 6 and below; stacks that grow and shrink, with a line past the file; a ring of 3 lines and 7 written; a history of 2 and 6 commands |
| `ai_server` | Do answers come in order, do calls end, are connections forgotten? | 2 connections, one with two requests and free to leave; a launch, which takes the lock twice, a query and a disconnect meet at the lock; queues of 1, which answers and two events overflow; one stop |
| `dap_framing_loss` | violation | `NothingLost`: header read, body not yet there |
| `adapter_init` | violation | `InitFailsForCause`: no session is ever granted |
| `ai_lock` | violation | `LaunchReturns`: one launch succeeds |
| `ws_close` | violation | `NoPanic`: a connection ends |

The violations are disagreements between the code and what its documents, comments and logs
say; `PROJECT.json` ("findings") quotes them, together with others met while modelling and
not shown by a run of their own: those are named where a property excepts what they do.

Deadlock is checked except where the system may really stop: `sessions` ends when the
manager is destroyed, `event_loop` when the debugger has nothing more to say, the adapters
when their debugger is dead or the bound on commands is reached, `ai_server` when everybody
has left.

### Hypotheses

Where the code fails at once, a run of the code as it is would show nothing else. The models
then carry a constant that is TRUE or FALSE, and the passing runs say which:

* `ManagerRequired` (`TextAdapters`): `md_session_create` refuses the NULL manager all three
  adapters pass. `adapter_init` has it TRUE, as in the code; `text_adapters` assumes the
  session is granted, and so does `LldbAdapter`, which has no such constant.
* `CloseIsOnce` (`AiServer`): that closing a closed channel does nothing. It panics, and
  `ws_close` has it FALSE; with it FALSE every other behaviour ends there.
* `ReadInsideWrite` (`AiServer`): that the goroutine that holds the lock for writing may also
  read. It blocks for ever (`debugger.go:334`), and `ai_lock`, which has it FALSE, shows the first
  launch do so. `CallsEnd` is about the rest: whoever else waits for the lock gets it.
* `GrowWrapped` (`IoBuffer`), `WaitModes` and `Recycle` (`SessionManager`): growth while
  wrapped, waits with timeout 0 and reused process identifiers are left out of the passing
  runs; each is a finding.
* `TuiPanels`: ncurses is compiled in (without it nothing can be added, and with it
  `MD_UNUSED_FUNCTION` is undefined, so today's build has neither), and the program frees a
  panel that is removed or refused.

### Fairness

* `DapClient!FairSpec`: weak fairness of the steps of a call (`CallStep`). The caller's
  thread runs, and a poll returns after at most 10 ms whether or not the debugger says
  anything. Nothing is assumed of the debugger.
* `LldbAdapter!FairSpec`, `TextAdapters!FairSpec`: the same of the steps of an operation.
* `SessionManager!FairSpec`: threads finish what they do between system calls, and the
  kernel ends a process that was sent SIGKILL. A process that was sent SIGTERM only need
  not end; a blocking wait need not return.
* `AiServer!AiSpec`: goroutines run; a request that waits for the lock, and a launch that
  waits for it the second time, gets it if it is free again and again (strong fairness of
  `Locking`: Go's `RWMutex` starves nobody); the registry serves
  `unregister` until the shutdown. Nobody has to connect, ask or leave.

### What is abstracted

Texts, bodies of messages, capabilities and the commands' arguments are left out: commands
differ only in what they do to the client. Time is a number of polls. Memory allocation
does not fail, except that a session may be refused and that a list of frames or variables
may get no memory for its new items. A product that overflows an int keeps its low bits: C
leaves it undefined, and this is what builds for today's machines store. Bash's debugger is
taken to do nothing for an empty line but prompt again. Commands are issued by one thread per
client, as the client has no lock. The bounds of the models, marked `bound:` where they are
declared, are `MaxSeq`, `MaxStream`, `MaxMessages`, `MaxNoise`, `MaxCapacity`, `MaxRequest`,
`MaxId`, `MaxNextId`, `MaxHits`, `MaxListeners`, `MaxRaw`, `MaxStops`, `MaxCmds`,
`MaxSignals`, `MaxDrift`, `MaxWritten`, `MaxEntered`, `MaxItems` and `Leavers`; every other
constant is a parameter of the code.

## Proofs

All theorems are for every value of the constants allowed by the named assumptions of the
modules they are about; the few that assume more say so in their ASSUME and below. In each
module there is one lemma per action (or per group of actions that touch the same state) and
conjunct it can disturb, and a theorem that puts them together with PTL. `PROJECT.json`
("theorems") lists the results: every safety invariant and every action property that a
passing run checks is among them.

**DAP client** (`DapClientProofs`): `TypeOK`, `AnswerCredited`, `ResultSound` and
`InitializedGranted`. None is inductive by itself: that an answer handled now was really
given needs to know of every message on its way, and that it is credited to the right entry
needs numbers to be unique. The invariant `IInv` adds

* `TableNumbered`: entries of the table have different numbers, all below `seq`, and a
  success only once completed;
* `CallOwned`: the call in progress has its entry, and until its request is sent the debugger
  neither holds nor has answered it;
* `DebuggerKnows`: what the debugger holds or has answered is registered in the table, under
  the same command;
* `Returned`: the call that returned last is neither the one in progress nor one to come;
* `MessagesTrue`: every response in the pipe or in the batch repeats an answer the debugger
  gave.

Its last part adds that no number is answered twice nor while still held (`AnsweredOnce`)
and proves that `DapClient` implements `RemoteCall`: under the mapping
`Issued`, `Answered`, `call.seq`, `Outcome`, the initial state maps to the initial state,
`Start` to `Issue`, `StartRefused` to `Refuse`, `Answer` to `Answer`, the ends of a call to
`Finish`, the end of a pump outside a call to `Forget`, and every other step to a stutter.
With `AnsweredOnce`, `CompletedIsFinal` follows too: a second message for a completed entry
would have to repeat the first.

**Buffer and parser** (`DapInputProofs`): the ring implements `ByteQueue`
(`ImplementsByteQueue`) and keeps `IndicesAgree`, under the hypothesis `GrowWrapped = FALSE`
(see findings). `IndicesAgree` says where the write position is only up to a lap, and a
write does not preserve that; `Ring` says which lap it is on, that an emptied ring starts
over and that the unread part of the memory has been written. The arithmetic is about sums of
two positions below twice the capacity, where the remainder is a comparison (`Lap`). For the
parser, `HandledInOrder` needs that what was handled comes before what is in the buffer, and
that before what is unread, whatever was cut off in between (`Ordered`); `CleanIsComplete`
that, while every read has ended well, the whole messages waiting follow those handled
without a gap (`Complete`).

**Session manager** (`SessionManagerProofs`): the invariant is built in layers.
`CountMatchesList` needs who is where in the locked calls (`Books`, `Locked`);
`DestroyedIsKilled` needs whose process is whose (`Owned`). Both hold with reused identifiers
and with waits that do not block. `TerminatedIsDead` needs that whoever is about to record an
end knows of one (`Ended`), which assumes that nobody waits with timeout 0
(`"poll" \notin WaitModes`), and `ExitCodeTrue` where the true status is between the process's
end and the session (`Recorded`), which assumes besides that identifiers are not reused
(`~Recycle`). Without either hypothesis the property is false, as the findings say.

**Event loop** (`SessionManagerProofs`, `DapInputProofs`): `PipeOpenWhileHandled` and
`ActionsRestored` follow from `Placed`, which says for each point of initialising, of undoing
and of shutting down which actions are the program's by then, which ends of the pipe are still
open, and that the original actions are kept.
`DispatchIsRight` relates the live table, which callbacks change, to the copy that poll
filled: they agree from the dispatcher's place on as long as the changes were of one kind
(`Aligned`), and a dispatcher that stops early has answered all that was reported (`Counted`).

**State model** (`StateModelProofs`): `NumbersAreFinal` and `ChangesAreTold` from `Numbered`
(numbers in the list are distinct and below the next one; the copy a caller holds is any
breakpoint at all). `HitsAccounted` is not inductive: a copy a caller kept may give an entry
back hits it had lost, and the sum says nothing of the copy. `Accounted` bounds by what was
counted the sum in which that entry already counts what the copy would give it; a number
being spent for good (`Numbered`) is why a reset needs no exception. `ListenersSeeData` and
`VariablesFound` are about `InspectionSpec`, `ModulesFollow` about `ModuleSpec`: the two halves
of `StateData`, which share nothing but the reset, as the run takes them; they rest on a thread
or scope having one list in its chain (`Inspected`), on nothing being left of what went without a
notice, on remainders (a number that fits into an int is not wrapped) and on the count being the length of a list
without repetitions (`Followed`).

**LLDB adapter** (`LldbAdapterProofs`): `CopiesAgree` needs that nothing is heard of a
program before the adapter is initialized (`Unbegun`). `ShownStopHolds` speaks of
a moment when all is read and so says nothing while messages are on their way; `Followed` says
it then: what the adapter shows, brought up to date with the events unread, is what the
program does, unless a command that lets the program go has been granted and its answer is
still to come. That there is one such answer and that it belongs to the command (`Numbered`,
`AnsweredOnce`) is what a request around the table with the same number would break; the
property excepts it (`disturbed`).

**Text adapters** (`TextAdapterProofs`): `ListedAreSet` and `ShownHolds` speak of moments with
nothing under way. In between, `Kept` says that the list is what the debugger will have once
it has read the deletions on their way, or that a breakpoint is being set and which of the
stages of `Setting` that has reached; `Shown` that the last notice on its way, or what is
shown if there is none, is true of the program, unless a command on its way lets the program
go. Both hold until something is lost that its reader does not look for (`Lost`).

**Terminal interface** (`TuiProofs`): `OwnWindow` with `Slotted` (a slot is that of a listed
panel or of none, a panel is listed once); `KeysKeepFocus` with `Pointed` (the source panel is
one of the panels); `CursorStaysInView`, `SearchIsNearest` and `EnterShowsActive` from the
types and the arithmetic of the view; `KeepsLatest` from `Latest` (the places of the ring hold
the last lines in order, and only a full ring starts elsewhere than at its beginning) and
`HistoryKept` (each kept command has its place in what was entered). `SourceSpec`, `ListSpec`,
`OutputSpec` and `HistorySpec` are the parts of the interface that share no state, as the run
takes them.

**Server** (`AiServerProofs`): `AnswersInOrder` from `InOrder`: the numbers of the requests
rise through what has arrived at the peer and through what is queued for it, the former below
the latter, and all below the request in hand. The theorem needs neither `CloseIsOnce` nor
`ReadInsideWrite`.

Model-checked only: all liveness (`CallReturns`, `MutexReleased`, `OperationsReturn`,
`CommandsReturn`, `CallsEnd`, `GoneIsForgotten`), since fairness and ENABLED are out of the
prover's reach; and what the folds that walk a fixed list of arguments compute (the two
threads of a threads response), of which no proved property needs more than their frame. The
library's induction theorems take an operator and cannot be instantiated here; where a proof
needs an induction over a list (`HitsOf` in `StateModel`, `Answers` in `AiServer`) the
definition is a recursive function, and the proof takes the least counterexample
(`WFMin`). No module uses a RECURSIVE operator.

## Where the code differs from what one would expect

Besides the findings, the models keep what the code does in these places, and the properties
are stated around them:

* Event loop: a callback that removes another's registration, or removes and adds, makes the
  dispatcher call the wrong callback; a closed descriptor is counted by poll and called for by
  nobody. The shutdown callback is only called by `md_signal_request_shutdown`, the child
  callback never, and the reading end of the self-pipe is never emptied. If SIGPIPE could not be
  hooked, shutting down installs a zeroed action for it.
* Adapters: `md_adapter_continue` and the steps write the execution state once more after the
  adapter has; a launch leaves the state model's execution state alone; setting one breakpoint with
  LLDB replaces all of its file; the shell's launch starts a new debugger without the program.
* State model: frames, scopes and the current frame survive a resume; duplicates for one place
  arise from an event and a response; the capacity of threads and modules is tested before
  looking for the entry.
* Terminal: ids are not unique after the sixteenth addition; hiding or removing a panel can
  leave the focus on nothing the user sees; only the source and the status panel get a
  rectangle; `g` can put the cursor past the file, End and PageDown on an empty file before
  it; the execution line stays when another file is loaded; the output panel draws from the
  wrong place once it has wrapped (`BufferKeepsLatest` says so by its condition).
* Server: everything queued for a connection goes out in one frame, separated by newlines; a
  connection registered while the server shuts down stays; the server's own state model is
  never fed by the adapter, so its queries answer with an empty one.

## Not modelled

* cJSON is vendored; a message is atomic in the models, and malformed ones are noise.
* Logger, names of constants, conversions, the AI helper's wording and the Vim plugin keep no
  state that two actors share.
* Drawing, colours and the wording of the terminal; its breakpoint panel, which is always
  empty, and its variables panel, which has a selection and nothing to expand.
* The array of event handlers of the DAP client and callbacks that remove a listener while it
  is told: no caller in the repository does either.
* Scopes and capabilities of the state model, the contents of the queries of the adapters, the
  conversions of the Go binding: data that no property tells apart.
* `md_session_find_debugger`, configuration setters, wrappers of a single system call.

## Plan

Done, in this order: `DapClient` with its abstract specification and proofs; `IoBuffer`;
`DapFraming`; `SessionManager`; `StateModel`; `LldbAdapter` on `DapClient`; `TextAdapters`;
`SignalHandler` and `IoHandler`; the terminal interface; `StateData`; `AiServer`.

The safety properties of the passing runs are all proved. Left for later: the findings' side
conditions as theorems of their own (which of the hypotheses `GrowWrapped`, `WaitModes` and
`Recycle` are necessary is shown by TLC only); the composition of `DapFraming` with
`IoBuffer` and `DapClient`, which is argued in prose above.
