----------------------------- MODULE SourcePanel -----------------------------
(***************************************************************************)
(* The source panel, src/src/tui_panel.c: a file, the lines of it that are  *)
(* in view, the cursor, the line execution is at, and the search.           *)
(*                                                                          *)
(* The handlers call one another, so each is an operator from the panel's   *)
(* data to the panel's data, and the actions apply them to src.  A line of  *)
(* text is whether it holds the pattern.  The cursor can be past the last   *)
(* line or below the first, and a find then reads whatever is there.        *)
(***************************************************************************)
EXTENDS Integers, FiniteSetsExt

CONSTANTS
    Files,
    Length, Matches,    \* the lines each file has, and those with the pattern in them
    Screens,            \* the heights the terminal may be resized to
    MaxDrift            \* bound: how far a height below 1 lets the cursor and the view go

ASSUME SourcePanelAssumption ==
    /\ Length \in [Files -> Nat]
    /\ Matches \in [Files -> SUBSET Nat] /\ \A f \in Files : Matches[f] \subseteq 1 .. Length[f]
    /\ Screens \subseteq Nat /\ MaxDrift \in Nat

VARIABLES src           \* md_source_panel_data_t, the panel's inner height, and config.follow_exec

NoFile == "none"

\* source_panel_init; the rectangle of the panel is still all zeroes.
SourceInit ==
    \E follow \in BOOLEAN :
       src = [file |-> NoFile, count |-> 0, top |-> 1, cursor |-> 1, current |-> 0,
              searching |-> FALSE, height |-> -2, follow |-> follow]

-----------------------------------------------------------------------------
(* The view.                                                                *)

\* Division by 2 as C does it, towards zero.
Half(n) == IF n >= 0 THEN n \div 2 ELSE -((-n) \div 2)

\* The last line a view of the height starts at.
LastTop(s) == Max({s.count - s.height + 1, 1})

\* md_source_panel_scroll_to_line: the cursor stays where it is.
Scrolled(s, line, center) ==
    LET top == IF center THEN line - Half(s.height)
               ELSE IF line < s.top THEN line
               ELSE IF line >= s.top + s.height THEN line - s.height + 1
               ELSE s.top
        first == Max({top, 1})
    IN  IF line \notin 1 .. s.count THEN s
        ELSE [s EXCEPT !.top = IF first + s.height > s.count + 1 THEN LastTop(s) ELSE first]

WithCurrent(s, line) ==
    LET marked == [s EXCEPT !.current = line]
    IN  IF s.follow /\ line > 0 THEN Scrolled(marked, line, TRUE) ELSE marked

\* A file that cannot be opened empties the panel and leaves the rest of it as it was.
Loaded(s, f, readable) ==
    IF readable THEN [s EXCEPT !.file = f, !.count = Length[f], !.top = 1, !.cursor = 1]
    ELSE [s EXCEPT !.count = 0]

\* source_panel_on_resize, the cursor kept in view.
Resized(s, height) ==
    [s EXCEPT !.height = height,
              !.top = IF s.cursor < @ THEN s.cursor
                      ELSE IF s.cursor >= @ + height THEN s.cursor - height + 1
                      ELSE @]

\* md_tui_layout_update: a quarter for the bottom panels, the status bar and a line, the border.
InnerHeight(screen) == screen - (screen * 25) \div 100 - 2 - 2

\* source_panel_render: the lines drawn, each at its row.
Drawn(s) == {line \in 1 .. s.count : s.top <= line /\ line < s.top + s.height}

-----------------------------------------------------------------------------
(* The search.                                                              *)

Candidates(s) == Matches[s.file] \ {s.cursor}
Beyond(s) == (s.count + 1) .. (s.cursor - 1)

\* Found below the first line, which ends the search and leads nowhere.
Beneath(s) == IF s.cursor < 0 THEN {0} ELSE {}

\* Mutant: the search that wraps around goes on backwards.
FindWrapsBack(s, backward) ==
    LET after == {m \in Candidates(s) : m > s.cursor}
        before == {m \in Candidates(s) : m < s.cursor}
    IN  IF backward
        THEN Beyond(s) \cup {IF before # {} THEN Max(before) ELSE IF after # {} THEN Max(after) ELSE 0}
        ELSE IF after # {} THEN {Min(after)} \cup Beneath(s)
        ELSE IF before # {} THEN {Max(before)} ELSE {0} \cup Beyond(s)

\* The lines md_source_panel_find may return, 0 for none; the cursor's own is not searched.
Find(s, backward) ==
    LET after == {m \in Candidates(s) : m > s.cursor}
        before == {m \in Candidates(s) : m < s.cursor}
    IN  IF backward
        THEN Beyond(s) \cup {IF before # {} THEN Max(before) ELSE IF after # {} THEN Max(after) ELSE 0}
        ELSE IF after # {} THEN {Min(after)} \cup Beneath(s)
        ELSE IF before # {} THEN {Min(before)} ELSE {0} \cup Beyond(s)

At(s, line) ==
    IF line = 0 THEN s ELSE Scrolled([s EXCEPT !.cursor = line], line, FALSE)

Search(backward) ==
    /\ src.count > 0
    /\ \E line \in Find(src, backward) : src' = At([src EXCEPT !.searching = TRUE], line)

-----------------------------------------------------------------------------
(* The keys.                                                                *)

\* Mutant: a page down past the end leaves the view one page below.
PagedDownUnclamped(s) ==
    [s EXCEPT !.cursor = Min({@ + s.height, s.count}), !.top = @ + s.height]

PagedDown(s) ==
    [s EXCEPT !.cursor = Min({@ + s.height, s.count}),
              !.top = IF @ + 2 * s.height > s.count THEN LastTop(s) ELSE @ + s.height]

\* source_panel_handle_key, but for the keys that search.
OnKey(s, key) ==
    CASE key = "Up" /\ s.cursor > 1 -> [s EXCEPT !.cursor = @ - 1, !.top = Min({@, s.cursor - 1})]
      [] key = "Down" /\ s.cursor < s.count ->
            [s EXCEPT !.cursor = @ + 1,
                      !.top = IF s.cursor + 1 >= @ + s.height THEN s.cursor - s.height + 2 ELSE @]
      [] key = "PageUp" -> [s EXCEPT !.cursor = Max({@ - s.height, 1}), !.top = Max({@ - s.height, 1})]
      [] key = "PageDown" -> PagedDown(s)
      [] key = "Home" -> [s EXCEPT !.cursor = 1, !.top = 1]
      [] key = "End" -> [s EXCEPT !.cursor = s.count, !.top = LastTop(s)]
      [] key = "g" /\ s.current > 0 -> [Scrolled(s, s.current, TRUE) EXCEPT !.cursor = s.current]
      [] OTHER -> s

Bounded(s) == s.cursor \in -MaxDrift .. MaxDrift /\ s.top \in -MaxDrift .. MaxDrift

Press ==
    \/ \E key \in {"Up", "Down", "PageUp", "PageDown", "Home", "End", "g"} :
          src' = OnKey(src, key) /\ Bounded(src')
    \/ \E backward \in BOOLEAN : src.searching /\ Search(backward)     \* n and N

Layout == \E screen \in Screens : src' = Resized(src, InnerHeight(screen)) /\ Bounded(src')

\* The lines the debugger may say execution is at, one past the file included.
Lines == 0 .. (Max({Length[f] : f \in Files}) + 1)

SourceNext ==
    \/ Press \/ Layout
    \/ \E backward \in BOOLEAN : Search(backward)
    \/ \E f \in Files, readable \in BOOLEAN : src' = Loaded(src, f, readable)
    \/ \E line \in Lines : src' = WithCurrent(src, line)
    \/ \E line \in Lines, center \in BOOLEAN : src' = Scrolled(src, line, center)

SourceSpec == SourceInit /\ [][SourceNext]_src

-----------------------------------------------------------------------------
(* Properties.                                                              *)

InView(s) == s.cursor \in Drawn(s)

\* The user never loses the cursor: in a panel that has room for a line and a file that has
\* the current line, a cursor that is drawn is still drawn after every key, every search and
\* every resize (source_panel_handle_key, source_panel_on_resize, md_source_panel_find).
CursorStaysInView ==
    [][(Press \/ Layout \/ \E backward \in BOOLEAN : Search(backward))
       /\ InView(src) /\ src.current <= src.count /\ src'.height > 0 => InView(src')]_src

\* How many lines on, or back, a line is from the cursor, past the end of the file too.
Distance(s, line, backward) ==
    (IF backward THEN s.cursor - line ELSE line - s.cursor) % s.count

\* A search goes to the nearest other line with the pattern in its direction, wrapping
\* around the end of the file (md_source_panel_find).
SearchIsNearest ==
    [][\A backward \in BOOLEAN :
          Search(backward) /\ src.cursor \in 1 .. src.count /\ Candidates(src) # {}
          => /\ src'.cursor \in Candidates(src)
             /\ \A m \in Candidates(src) :
                   Distance(src, src'.cursor, backward) <= Distance(src, m, backward)]_src
=============================================================================
