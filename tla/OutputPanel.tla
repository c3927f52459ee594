---------------------------- MODULE OutputPanel ------------------------------
(***************************************************************************)
(* The output panel of src/src/tui_panel.c, a circular buffer of lines with *)
(* a scroll position, and the command history of src/src/tui.c, an array    *)
(* that shifts.                                                             *)
(*                                                                          *)
(* Lines and commands are numbers.  written and entered are what a reader   *)
(* would have seen: every line since the last clear, every command.         *)
(***************************************************************************)
EXTENDS Integers, SequencesExt

CONSTANTS
    MaxLines,           \* MD_OUTPUT_LINES_MAX
    MaxWritten,         \* bound: the lines written between two clears
    Heights,            \* the inner heights the panel may have
    MaxHistory,         \* MD_TUI_CMD_HISTORY_MAX
    CommandLines,       \* what may be entered
    MaxEntered          \* bound: the commands entered between two clears

ASSUME OutputPanelAssumption ==
    /\ {MaxLines, MaxHistory} \subseteq Nat \ {0}
    /\ {MaxWritten, MaxEntered} \subseteq Nat /\ Heights \subseteq Int

VARIABLES
    lines,              \* data->lines, 0 for an entry never written
    count, startIndex, scrollOffset, autoScroll,
    outputHeight,
    written             \* how many lines since the last clear; the n-th is n

VARIABLES history, entered

outputVars == <<lines, count, startIndex, scrollOffset, autoScroll, outputHeight, written>>
historyVars == <<history, entered>>

-----------------------------------------------------------------------------
(* The buffer.                                                              *)

Slots == 0 .. (MaxLines - 1)

OutputInit ==
    /\ lines = [k \in Slots |-> 0] /\ count = 0 /\ startIndex = 0
    /\ scrollOffset = 0 /\ autoScroll = TRUE /\ outputHeight \in Heights /\ written = 0

\* Mutant: the oldest line is looked for where the next one goes.
AddLineNext ==
    LET idx == IF count < MaxLines THEN count ELSE (startIndex + 1) % MaxLines
    IN  /\ written < MaxWritten
        /\ written' = written + 1
        /\ lines' = [lines EXCEPT ![idx] = written']
        /\ IF count < MaxLines THEN count' = count + 1 /\ UNCHANGED startIndex
           ELSE startIndex' = (startIndex + 1) % MaxLines /\ UNCHANGED count
        /\ UNCHANGED <<scrollOffset, autoScroll, outputHeight>>

\* md_output_panel_add_line: over the oldest line when all are taken.
AddLine ==
    LET idx == IF count < MaxLines THEN count ELSE startIndex
    IN  /\ written < MaxWritten
        /\ written' = written + 1
        /\ lines' = [lines EXCEPT ![idx] = written']
        /\ IF count < MaxLines THEN count' = count + 1 /\ UNCHANGED startIndex
           ELSE startIndex' = (startIndex + 1) % MaxLines /\ UNCHANGED count
        /\ UNCHANGED <<scrollOffset, autoScroll, outputHeight>>

ClearOutput ==
    /\ count' = 0 /\ startIndex' = 0 /\ scrollOffset' = 0 /\ written' = 0
    /\ lines' = [k \in Slots |-> 0]
    /\ UNCHANGED <<autoScroll, outputHeight>>

-----------------------------------------------------------------------------
(* Scrolling.                                                               *)

\* output_panel_handle_key.
OutputKey ==
    \/ /\ scrollOffset' = IF scrollOffset < count - outputHeight THEN scrollOffset + 1 ELSE scrollOffset
       /\ autoScroll' = FALSE                                                       \* up
    \/ scrollOffset > 0 /\ scrollOffset' = scrollOffset - 1 /\ UNCHANGED autoScroll  \* down
    \/ /\ scrollOffset' = IF scrollOffset + outputHeight > count - outputHeight
                          THEN Max({count - outputHeight, 0}) ELSE scrollOffset + outputHeight
       /\ autoScroll' = FALSE                                                       \* page up
    \/ scrollOffset' = Max({scrollOffset - outputHeight, 0}) /\ UNCHANGED autoScroll \* page down
    \/ scrollOffset' = 0 /\ autoScroll' = TRUE                                      \* G

Scroll == OutputKey /\ UNCHANGED <<lines, count, startIndex, outputHeight, written>>

\* output_panel_render: by place in the array, startIndex not looked at.
Rendered ==
    LET start == Max({count - outputHeight - scrollOffset, 0})
        last == Min({start + outputHeight, count}) - 1
    IN  [k \in 1 .. (last - start + 1) |-> lines[start + k - 1]]

OutputNext == AddLine \/ ClearOutput \/ Scroll

OutputSpec == OutputInit /\ [][OutputNext]_outputVars

-----------------------------------------------------------------------------
(* The history.                                                             *)

HistoryInit == history = <<>> /\ entered = <<>>

\* md_tui_add_history: not what was entered last, and over the oldest.
AddHistory(c) ==
    LET room == IF Len(history) >= MaxHistory THEN Tail(history) ELSE history
    IN  /\ Len(entered) < MaxEntered /\ entered' = Append(entered, c)
        /\ history' = IF history # <<>> /\ Last(history) = c THEN history ELSE Append(room, c)

ClearHistory == history' = <<>> /\ entered' = <<>>

HistoryNext == (\E c \in CommandLines : AddHistory(c)) \/ ClearHistory

HistorySpec == HistoryInit /\ [][HistoryNext]_historyVars

-----------------------------------------------------------------------------
(* Properties.                                                              *)

\* Read from startIndex, the buffer is the last lines written, in order and complete, however
\* often it has wrapped around; and until it has, the panel shows consecutive lines, the last
\* ones when it is not scrolled (md_output_panel_add_line, output_panel_render).
BufferKeepsLatest ==
    /\ count = Min({written, MaxLines})
    /\ \A k \in 0 .. (count - 1) : lines[(startIndex + k) % MaxLines] = written - count + 1 + k
    /\ written <= MaxLines /\ outputHeight > 0 /\ Rendered # <<>> =>
          /\ \A k \in 1 .. (Len(Rendered) - 1) : Rendered[k + 1] = Rendered[k] + 1
          /\ scrollOffset = 0 => Last(Rendered) = written

\* The n-th command entered, unless it repeats the one before.
New(n) == n = 1 \/ entered[n] # entered[n - 1]

\* The history is the last commands entered, in order, repetitions left out: an entry is only
\* lost when the array is full, and then all that is kept is newer (md_tui_add_history).
HistoryIsRecent ==
    /\ Len(history) <= MaxHistory
    /\ \E at \in [DOMAIN history -> DOMAIN entered] :
          /\ \A k \in DOMAIN history : history[k] = entered[at[k]] /\ New(at[k])
          /\ \A j, k \in DOMAIN history : j < k => at[j] < at[k]
          /\ \A n \in DOMAIN entered : New(n) =>
                \/ \E k \in DOMAIN history : at[k] = n
                \/ Len(history) = MaxHistory /\ n < at[1]

\* What the panel forgets is the oldest: of the lines and of the commands entered it keeps the
\* latest, complete and in order (md_output_panel_add_line, md_tui_add_history).
KeepsLatest == BufferKeepsLatest /\ HistoryIsRecent
=============================================================================
