------------------------------ MODULE Popover ------------------------------
(***************************************************************************)
(* The panels that the wizard lays over the screen: the menu of an option  *)
(* at a right click and the editor of an option below its row              *)
(* (internal/tui/popover.go, shapes/rect.go and their use in model.go).    *)
(*                                                                         *)
(* A panel is laid out once, when it opens; the terminal may then change.  *)
(***************************************************************************)
EXTENDS Integers

CONSTANTS Screens,     \* the sizes of the terminal
          MenuHeight,  \* lines of the menu of an option
          EditorHeights \* lines an editor of an option may have

\* A terminal of one or two columns gets a panel without columns.
ASSUME PopoverAssumption ==
  /\ Screens \subseteq [rows : Nat \ {0}, cols : Nat \ (0 .. 2)]
  /\ MenuHeight \in Nat /\ EditorHeights \subseteq Nat

VARIABLES
  screen, \* width and height of the terminal
  panel,  \* the open panel: its rectangle and the one it is laid out at
  fresh   \* whether the terminal has kept its size since

panelVars == <<screen, panel, fresh>>

Rect == [row : Int, col : Int, rows : Int, cols : Int]

NoRect == [row |-> 0, col |-> 0, rows |-> 0, cols |-> 0]
NoPanel == [kind |-> "none", rect |-> NoRect, anchor |-> NoRect]

Bottom(r) == r.row + r.rows
Right(r)  == r.col + r.cols
Lesser(m, n)  == IF m < n THEN m ELSE n
Greater(m, n) == IF m > n THEN m ELSE n

ClampInt(v, lo, hi) == CASE v < lo -> lo
                         [] v >= lo /\ v > hi -> hi
                         [] OTHER -> v

Contains(r, row, col) == /\ row >= r.row /\ row < Bottom(r)
                         /\ col >= r.col /\ col < Right(r)

Intersect(r, o) ==
  LET row  == Greater(r.row, o.row)
      col  == Greater(r.col, o.col)
      rows == Lesser(Bottom(r), Bottom(o)) - row
      cols == Lesser(Right(r), Right(o)) - col
  IN IF rows <= 0 \/ cols <= 0 THEN NoRect
     ELSE [row |-> row, col |-> col, rows |-> rows, cols |-> cols]

\* Mutant: the rectangle is moved into the viewport and not cut.
XClamp(r, v) == [r EXCEPT !.row = ClampInt(@, v.row, Bottom(v) - 1),
                          !.col = ClampInt(@, v.col, Right(v) - 1)]

Clamp(r, v) ==
  LET row == ClampInt(r.row, v.row, Bottom(v) - 1)
      col == ClampInt(r.col, v.col, Right(v) - 1)
  IN [row |-> row, col |-> col, rows |-> Lesser(r.rows, Bottom(v) - row),
      cols |-> Lesser(r.cols, Right(v) - col)]

\* Below the anchor, or above it if it only fits there; cut at the viewport.
Layout(width, height, anchor, v) ==
  LET rows  == height + 3
      below == Bottom(anchor)
      above == anchor.row - rows
      row   == IF below + rows > Bottom(v) /\ above >= v.row THEN above ELSE below
  IN Clamp([row |-> row, col |-> anchor.col, rows |-> rows,
            cols |-> ClampInt(width, 20, v.cols - 4) + 2], v)

CloseHitTarget(r) == [row |-> r.row + 1, col |-> Right(r) - 5, rows |-> 1, cols |-> 5]

Viewport == [row |-> 0, col |-> 0, rows |-> screen.rows, cols |-> screen.cols]

-----------------------------------------------------------------------------
PanelInit == screen \in Screens /\ panel = NoPanel /\ fresh = TRUE

Lay(kind, anchor, width, height) ==
  /\ panel' = [kind |-> kind, anchor |-> anchor,
               rect |-> Layout(width, height, anchor, Viewport)]
  /\ fresh' = TRUE
  /\ UNCHANGED screen

\* updateRightClick, on the row of an option.
OpenMenu(row, col) ==
  /\ panel = NoPanel
  /\ Lay("menu", [row |-> row, col |-> col, rows |-> 1, cols |-> 1], 28, MenuHeight)

\* openOptionModalAt, below the button of an option or the top of the tab.
OpenEditor(row, col, height) ==
  LET width == ClampInt(screen.cols - col - 2, 46, 74) IN
  /\ panel = NoPanel
  /\ Lay("editor", [row |-> row, col |-> col, rows |-> 1, cols |-> width], width, height)

\* Update on tea.WindowSizeMsg.
ResizeScreen == /\ screen' \in Screens
                /\ fresh' = (fresh /\ screen' = screen)
                /\ UNCHANGED panel

\* A click outside closes either panel, one on [X] the editor.
ClickPanel(row, col) ==
  /\ panel # NoPanel
  /\ \/ ~ Contains(panel.rect, row, col)
     \/ /\ panel.kind = "editor"
        /\ Contains(panel.rect, row, col)
        /\ Contains(CloseHitTarget(panel.rect), row, col)
  /\ panel' = NoPanel /\ fresh' = TRUE
  /\ UNCHANGED screen

PanelNext ==
  \/ ResizeScreen
  \/ \E row \in 0 .. screen.rows - 1, col \in 0 .. screen.cols - 1 :
       \/ OpenMenu(row, col)
       \/ \E height \in EditorHeights : OpenEditor(row, col, height)
       \/ ClickPanel(row, col)

PanelSpec == PanelInit /\ [][PanelNext]_panelVars

-----------------------------------------------------------------------------
(* Properties *)

\* A panel that has just been laid out is not empty and lies on the screen,
\* wherever the click was and however small the terminal is (from three columns).
PanelOnScreen ==
  panel # NoPanel /\ fresh =>
    /\ panel.rect.rows > 0 /\ panel.rect.cols > 0
    /\ Intersect(panel.rect, Viewport) = panel.rect
=============================================================================
