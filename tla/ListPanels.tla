----------------------------- MODULE ListPanels ------------------------------
(***************************************************************************)
(* The call stack and the threads panel of src/src/tui_panel.c, with the    *)
(* source panel the first of them moves.  Entering a frame makes it the     *)
(* adapter's active one and shows it in the source panel; entering a thread *)
(* lists its stack.  An adapter answers with any list it likes.             *)
(*                                                                          *)
(* The breakpoint panel is left out: its update always leaves it empty, so  *)
(* its keys do nothing.  So is the variables panel, which has the selection *)
(* of the others and acts on nothing: no item is ever given children.       *)
(***************************************************************************)
EXTENDS SourcePanel, SequencesExt

CONSTANTS
    Stacks,             \* the stacks an adapter may answer with: sequences of frames
    MaxItems            \* bound: MD_STACK_FRAMES_MAX, MD_THREADS_MAX

ASSUME ListPanelsAssumption ==
    /\ MaxItems \in Nat \ {0}
    /\ \A stack \in Stacks : stack \in Seq([file : Files, line : Nat]) /\ Len(stack) <= MaxItems

VARIABLES
    lists,              \* count and selected_index of each panel
    frames,             \* the array of the call stack panel, what earlier stacks left included
    activeFrame         \* what md_adapter_set_active_frame was last given

listVars == <<lists, frames, activeFrame>>

-----------------------------------------------------------------------------
ListNames == {"callstack", "threads"}
ZeroFrame == [file |-> NoFile, line |-> 0]

ListInit ==
    /\ lists = [l \in ListNames |-> [count |-> 0, selected |-> 0]]
    /\ frames = [k \in 0 .. (MaxItems - 1) |-> ZeroFrame]
    /\ activeFrame = ZeroFrame

\* Up and down, the same in every panel; an update does not move the selection.
Move(l) ==
    /\ \/ lists[l].selected > 0 /\ lists' = [lists EXCEPT ![l].selected = @ - 1]
       \/ lists[l].selected < lists[l].count - 1 /\ lists' = [lists EXCEPT ![l].selected = @ + 1]
    /\ UNCHANGED <<src, frames, activeFrame>>

Counted(l, n) == lists' = [lists EXCEPT ![l].count = n]

\* md_thread_panel_update.
ThreadUpdate(n) ==
    /\ Counted("threads", n)
    /\ UNCHANGED <<src, frames, activeFrame>>

\* The frames of the answer go over the first of the array.
Listed(stack) ==
    /\ Counted("callstack", Len(stack))
    /\ frames' = [k \in DOMAIN frames |-> IF k < Len(stack) THEN stack[k + 1] ELSE frames[k]]

CallstackUpdate(stack) == Listed(stack) /\ UNCHANGED <<src, activeFrame>>

\* md_thread_panel_select_thread: the thread is listed, or was.
ThreadEnter(stack) ==
    /\ lists["threads"].count > 0
    /\ Listed(stack)
    /\ UNCHANGED <<src, activeFrame>>

\* Mutant: the line is marked in the file that was there, and then the frame's is loaded.
ShownThenLoaded(s, frame, readable) ==
    Loaded(Scrolled(WithCurrent(s, frame.line), frame.line, TRUE), frame.file, readable)

ShownFrame(s, frame, readable) ==
    WithCurrent(Scrolled(Loaded(s, frame.file, readable), frame.line, TRUE), frame.line)

\* callstack_panel_handle_key: a selection the stack no longer has is not made active, but
\* what the array holds there is still shown.
CallstackEnter(readable) ==
    LET cs == lists["callstack"]
        frame == frames[cs.selected]
    IN  /\ cs.count > 0
        /\ activeFrame' = IF cs.selected < cs.count THEN frame ELSE activeFrame
        /\ src' = ShownFrame(src, frame, readable /\ frame.file # NoFile)
        /\ UNCHANGED <<lists, frames>>

ListNext ==
    \/ \E l \in ListNames : Move(l)
    \/ \E n \in 0 .. MaxItems : ThreadUpdate(n)
    \/ \E stack \in Stacks : CallstackUpdate(stack) \/ ThreadEnter(stack)
    \/ \E readable \in BOOLEAN : CallstackEnter(readable)

ListSpec ==
    /\ SourceInit /\ ListInit
    /\ [][ListNext \/ (SourceNext /\ UNCHANGED listVars)]_<<src, listVars>>

-----------------------------------------------------------------------------
(* Properties.                                                              *)

\* Entering a listed frame shows the frame that becomes active: its file is loaded, the
\* execution marker is on its line, and if the file could be read and has the line, the line
\* is in view (callstack_panel_handle_key, md_source_panel_load_file, scroll_to_line).
EnterShowsActive ==
    [][\A readable \in BOOLEAN :
          CallstackEnter(readable) /\ lists["callstack"].selected < lists["callstack"].count
          => /\ src'.current = activeFrame'.line
             /\ src'.count > 0 => src'.file = activeFrame'.file
             /\ src'.height > 0 /\ src'.current \in 1 .. src'.count => src'.current \in Drawn(src')
      ]_<<src, listVars>>
=============================================================================
