------------------------------ MODULE TuiPanels ------------------------------
(***************************************************************************)
(* The terminal interface, src/src/tui.c: its panels and their ncurses      *)
(* windows, which one is shown and which has the focus, and the keys and    *)
(* commands that move the focus.                                            *)
(*                                                                          *)
(* Under the hypothesis that ncurses is there and no allocation fails: the  *)
(* stubs of tui.c's #else give no window and no key, so no panel can be     *)
(* added at all; and that a panel removed or not accepted is freed.  What a *)
(* panel does with a key is its own affair (SourcePanel, ListPanels,        *)
(* OutputPanel), but for the help panel, whose keys change the focus.  Left *)
(* out: rectangles, colours, messages, the command mode, which nothing      *)
(* reads, and the loop, which processes keys until a quit.                  *)
(***************************************************************************)
EXTENDS Integers, SequencesExt

CONSTANTS
    Panels, TypeOf,     \* the panels the program has, and the type of each
    None,
    MaxPanels           \* MD_TUI_MAX_PANELS

PanelTypes == {"source", "breakpoints", "callstack", "variables", "threads", "output",
               "status", "command", "help"}

ASSUME TuiPanelsAssumption ==
    /\ TypeOf \in [Panels -> PanelTypes] /\ None \notin Panels
    /\ MaxPanels \in Nat \ {0}

VARIABLES
    initialized,
    listed,             \* tui->panels
    focusedPanel,
    special,            \* tui->source_panel, status_panel, command_panel
    hidden, flagged,    \* the panels with visibility HIDDEN, and with focused set
    id,                 \* panel->id
    slots,              \* s_panel_data: the panel each entry's window is that of, None if no longer
    deleted,            \* the listed panels whose window was given to delwin
    outgrown            \* a panel is listed that has no slot of its own

focusVars == <<focusedPanel, flagged>>
slotVars == <<id, slots, deleted, outgrown>>
panelVars == <<listed, special, hidden>>
tuiVars == <<initialized, focusVars, slotVars, panelVars>>

-----------------------------------------------------------------------------
SpecialTypes == {"source", "status", "command"}
Shown == {p \in ToSet(listed) : p \notin hidden}

\* The panels are freed, and new ones made in their place: panel->id is 0, help is hidden.
Renewed(set) ==
    /\ id' = [p \in Panels |-> IF p \in set THEN 0 ELSE id[p]]
    /\ hidden' = (hidden \ set) \cup {p \in set : TypeOf[p] = "help"}
    /\ flagged' = flagged \ set

\* The slots whose window no panel of the set has any more.
Abandoned(set) == [k \in DOMAIN slots |-> IF slots[k] \in set THEN None ELSE slots[k]]

TuiStart ==
    /\ initialized = FALSE
    /\ listed = <<>> /\ focusedPanel = None /\ special = [t \in SpecialTypes |-> None]
    /\ hidden = {p \in Panels : TypeOf[p] = "help"} /\ flagged = {}
    /\ id = [p \in Panels |-> 0] /\ slots = <<>> /\ deleted = {} /\ outgrown = FALSE

-----------------------------------------------------------------------------
(* The interface itself.                                                    *)

\* md_tui_init forgets every slot; the panels stay listed.
Initialize ==
    /\ ~initialized /\ initialized' = TRUE
    /\ slots' = <<>> /\ outgrown' = (listed # <<>>)
    /\ UNCHANGED <<focusVars, id, deleted, panelVars>>

Shutdown ==
    /\ initialized /\ initialized' = FALSE
    /\ UNCHANGED <<focusVars, slotVars, panelVars>>

\* The panels go with the interface, not their windows; another one may be created.
Destroy ==
    /\ initialized' = FALSE
    /\ listed' = <<>> /\ focusedPanel' = None /\ special' = [t \in SpecialTypes |-> None]
    /\ Renewed(ToSet(listed)) /\ slots' = Abandoned(ToSet(listed)) /\ deleted' = {}
    /\ UNCHANGED outgrown

-----------------------------------------------------------------------------
(* Focus and visibility.                                                    *)

Focus(p) ==
    /\ flagged' = (flagged \ {focusedPanel}) \cup {p}
    /\ focusedPanel' = p

FocusPanel(p) ==
    IF p = None THEN UNCHANGED focusVars ELSE Focus(p)

\* The first panel of the type, or None.
GetPanel(t) ==
    LET at == {k \in DOMAIN listed : TypeOf[listed[k]] = t}
    IN  IF at = {} THEN None ELSE listed[Min(at)]

\* Mutant: the hidden panels are not skipped.
NeighbourAny(step) ==
    LET n == Len(listed)
        here == {k \in 0 .. (n - 1) : listed[k + 1] = focusedPanel}
        idx == IF here = {} THEN 0 ELSE Min(here)
        other(k) == listed[((idx + step * k + n) % n) + 1]
        shown == {k \in 1 .. (n - 1) : TRUE}
    IN  IF shown = {} THEN None ELSE other(Min(shown))

\* The panel md_tui_focus_next_panel (step 1) or md_tui_focus_prev_panel (step -1) finds.
Neighbour(step) ==
    LET n == Len(listed)
        here == {k \in 0 .. (n - 1) : listed[k + 1] = focusedPanel}
        idx == IF here = {} THEN 0 ELSE Min(here)
        other(k) == listed[((idx + step * k + n) % n) + 1]
        shown == {k \in 1 .. (n - 1) : other(k) \notin hidden}
    IN  IF shown = {} THEN None ELSE other(Min(shown))

SetPanelVisible(t, visible) ==
    hidden' = IF GetPanel(t) = None THEN hidden
              ELSE IF visible THEN hidden \ {GetPanel(t)} ELSE hidden \cup {GetPanel(t)}

-----------------------------------------------------------------------------
(* The list of panels.                                                      *)

\* The slot, when one is left, is taken before the panel's own init, and kept if init fails.
AddPanel(p, initOk) ==
    /\ initialized /\ p \notin ToSet(listed) /\ Len(listed) < MaxPanels
    /\ slots' = IF Len(slots) < MaxPanels THEN Append(slots, IF initOk THEN p ELSE None) ELSE slots
    /\ IF initOk
       THEN /\ listed' = Append(listed, p)
            /\ id' = [id EXCEPT ![p] = IF Len(slots) < MaxPanels THEN Len(slots) ELSE 0]
            /\ special' = [t \in SpecialTypes |-> IF t = TypeOf[p] THEN p ELSE special[t]]
            /\ IF focusedPanel = None THEN Focus(p) ELSE UNCHANGED focusVars
            /\ outgrown' = (outgrown \/ Len(slots) = MaxPanels)
       ELSE UNCHANGED <<listed, id, special, focusVars, outgrown>>
    /\ UNCHANGED <<initialized, deleted, hidden>>

FirstPlace(p) ==
    CHOOSE i \in DOMAIN listed : listed[i] = p /\ \A j \in 1 .. (i - 1) : listed[j] # p

Removed(p) ==
    /\ deleted' = (IF id[p] < Len(slots) THEN deleted \cup {slots[id[p] + 1]} ELSE deleted) \ {p, None}
    /\ listed' = RemoveAt(listed, FirstPlace(p))
    /\ special' = [t \in SpecialTypes |-> IF special[t] = p THEN None ELSE special[t]]
    /\ focusedPanel' = IF focusedPanel # p THEN focusedPanel
                       ELSE IF listed' = <<>> THEN None ELSE listed'[1]
    /\ Renewed({p})
    /\ UNCHANGED <<initialized, outgrown>>

\* Mutant: the number of slots goes down with the number of panels.
RemovePanelCounts(p) ==
    /\ p \in ToSet(listed)
    /\ Removed(p)
    /\ slots' = IF slots = <<>> THEN slots ELSE Front(Abandoned({p}))

\* The slot is not reclaimed; the first panel gets the focus, but not its flag.
RemovePanel(p) ==
    /\ p \in ToSet(listed)
    /\ Removed(p)
    /\ slots' = Abandoned({p})

-----------------------------------------------------------------------------
(* Commands and keys.                                                       *)

Commands == {"none", "move", "next_panel", "prev_panel", "focus_source", "focus_breakpoints",
             "focus_callstack", "focus_variables", "focus_output", "debug", "breakpoint",
             "enable_breakpoint", "command_mode", "help", "quit", "force_quit", "other"}

FocusTarget == [focus_source |-> "source", focus_breakpoints |-> "breakpoints",
                focus_callstack |-> "callstack", focus_variables |-> "variables",
                focus_output |-> "output"]

\* The focused help panel is given a key that closes it: q, ?, or escape.
CloseHelp ==
    /\ SetPanelVisible("help", FALSE) /\ FocusPanel(special["source"])
    /\ UNCHANGED <<initialized, slotVars, listed, special>>

HelpFocused == focusedPanel # None /\ TypeOf[focusedPanel] = "help"

\* md_tui_execute_command.  A command that goes to the panel goes as its number:
\* no panel has a case for those of the movements, and that of enable_breakpoint is '?'.
Execute(c) ==
    \/ /\ c \in {"next_panel", "prev_panel"}
       /\ FocusPanel(Neighbour(IF c = "next_panel" THEN 1 ELSE -1))
       /\ UNCHANGED <<initialized, slotVars, panelVars>>
    \/ /\ c \in DOMAIN FocusTarget
       /\ FocusPanel(GetPanel(FocusTarget[c]))
       /\ UNCHANGED <<initialized, slotVars, panelVars>>
    \/ /\ c = "help"
       /\ SetPanelVisible("help", TRUE) /\ FocusPanel(GetPanel("help"))
       /\ UNCHANGED <<initialized, slotVars, listed, special>>
    \/ c \in {"command_mode", "quit", "force_quit"} /\ UNCHANGED tuiVars
    \/ c = "enable_breakpoint" /\ HelpFocused /\ CloseHelp

\* map_key_to_command, the keys by command.  ctrl_held is never true: no key below 32 has
\* bits above 0x1F.
KeysFor ==
    [move |-> {"h", "j", "k", "l", "Left", "Down", "Up", "Right"},
     next_panel |-> {"L", "t"}, prev_panel |-> {"H", "T"},
     breakpoint |-> {"b", "B", "F9"},
     debug |-> {"c", "n", "s", "f", "r", "F5", "F6", "F7", "F8", "F10"},
     other |-> {"p", "P", "R", "-"}, enable_breakpoint |-> {"+"},
     quit |-> {"q"}, force_quit |-> {"Q"}, command_mode |-> {":"}, help |-> {"?", "F1"},
     none |-> {"Enter", " ", "PageUp", "PageDown", "Home", "End", "Delete", "Escape",
               "g", "G", "d", "e", "N", "/"}]

Keys == UNION {KeysFor[c] : c \in DOMAIN KeysFor}

CommandOf(key) == CHOOSE c \in DOMAIN KeysFor : key \in KeysFor[c]

\* process_input_key; quitting asks first, and any other answer changes nothing.
PressKey ==
    /\ initialized
    /\ \/ \E c \in {CommandOf(k) : k \in Keys} : Execute(c)
       \/ HelpFocused /\ CloseHelp             \* escape, no command

\* A click: only the source and the status panel have a rectangle.
Click(p) ==
    /\ initialized /\ p \in Shown /\ TypeOf[p] \in {"source", "status"}
    /\ Focus(p)
    /\ UNCHANGED <<initialized, slotVars, panelVars>>

TuiNext ==
    \/ Initialize \/ Shutdown \/ Destroy
    \/ \E p \in Panels :
          \/ RemovePanel(p) \/ Click(p)
          \/ \E initOk \in BOOLEAN : AddPanel(p, initOk)
          \/ p \in ToSet(listed) /\ FocusPanel(p) /\ UNCHANGED <<initialized, slotVars, panelVars>>
    \/ \E t \in {TypeOf[p] : p \in Panels}, visible \in BOOLEAN :
          SetPanelVisible(t, visible) /\ UNCHANGED <<initialized, focusVars, slotVars, listed, special>>
    \/ PressKey
    \/ \E c \in Commands : Execute(c)           \* md_tui_execute_command_string, or the program

TuiSpec == TuiStart /\ [][TuiNext]_tuiVars

-----------------------------------------------------------------------------
(* Properties.                                                              *)

\* While there have been slots for the panels added since md_tui_init, the id of a listed
\* panel leads to its own window, and that window is still there: raising, hiding or
\* removing a panel touches no other, whatever was added, failed to initialise or was
\* removed in between (md_tui_add_panel, md_tui_remove_panel, s_panel_data).
OwnWindow ==
    ~outgrown => \A p \in ToSet(listed) :
                    /\ id[p] < Len(slots) /\ slots[id[p] + 1] = p
                    /\ p \notin deleted

\* The focus is where the user sees it: on a shown panel, the only one drawn as focused.
FocusVisible ==
    /\ focusedPanel \in Shown
    /\ flagged \cap ToSet(listed) = {focusedPanel}

\* While the source panel is shown, no key takes the focus out of the user's sight: not
\* past hidden panels, nor into the help panel and back (process_input_key,
\* md_tui_focus_next_panel, help_panel_handle_key).
KeysKeepFocus ==
    [][PressKey /\ FocusVisible /\ special["source"] \in Shown => FocusVisible']_tuiVars
=============================================================================
