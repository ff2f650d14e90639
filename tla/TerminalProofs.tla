--------------------------- MODULE TerminalProofs ---------------------------
(***************************************************************************)
(* PinnedAtEnd and NoYank for messages and windows of any size, and what   *)
(* scrolling up does to them,                                              *)
(* PanelOnScreen for terminals, menus and editors of any size,             *)
(* IndexAgrees for any runners, commands and clients, and                  *)
(* OverlaysExclusive and NothingLeaks handler by handler.                  *)
(***************************************************************************)
EXTENDS ScrollBox, Popover, TabBar, Focus, SelectionProofs

InBox(b) == /\ b \in Box
            /\ b.offset <= MaxOffset(b)
            /\ b.pinned => b.offset = MaxOffset(b)

BoxInv == InBox(box) /\ content \in Nat /\ window \in Windows

Raw == [lines : Nat, view : Nat, offset : Int, pinned : BOOLEAN]

LEMMA MaxOffsetType ==
  ASSUME NEW b, b.lines \in Nat, b.view \in Nat
  PROVE  MaxOffset(b) \in Nat
BY DEF MaxOffset, Monus

\* It depends on the lines and the height only.
LEMMA SameMaxOffset ==
  ASSUME NEW b, NEW c, b.lines = c.lines, b.view = c.view
  PROVE  MaxOffset(b) = MaxOffset(c)
BY DEF MaxOffset

\* Clamping moves the offset into the lines and changes nothing else.
LEMMA Clamped ==
  ASSUME NEW b \in Raw
  PROVE  /\ ClampOffset(b) \in Box
         /\ ClampOffset(b).lines = b.lines /\ ClampOffset(b).view = b.view
         /\ ClampOffset(b).pinned = b.pinned
         /\ ClampOffset(b).offset <= MaxOffset(b)
<1> DEFINE k == IF b.offset > MaxOffset(b) THEN MaxOffset(b)
                ELSE IF b.offset < 0 THEN 0 ELSE b.offset
<1>1. MaxOffset(b) \in Nat /\ b.offset \in Int
  BY MaxOffsetType DEF Raw
<1>2. k \in Nat /\ k <= MaxOffset(b)
  BY <1>1
<1>3. ClampOffset(b) = [b EXCEPT !.offset = k]
  BY DEF ClampOffset
<1> HIDE DEF k
<1> QED
  BY <1>2, <1>3 DEF Raw, Box

LEMMA ClampInBox ==
  ASSUME NEW b \in Raw, b.pinned = FALSE
  PROVE  InBox(ClampOffset(b))
<1>1. MaxOffset(ClampOffset(b)) = MaxOffset(b)
  BY Clamped, SameMaxOffset
<1> QED
  BY <1>1, Clamped DEF InBox

LEMMA BottomInBox ==
  ASSUME NEW b \in Raw
  PROVE  InBox(ScrollToBottom(b)) /\ ScrollToBottom(b).view = b.view
<1> DEFINE m == MaxOffset(b)
           c == [b EXCEPT !.pinned = TRUE, !.offset = m]
<1>1. m \in Nat
  BY MaxOffsetType DEF Raw
<1>2. ScrollToBottom(b) = c
  BY DEF ScrollToBottom
<1>3. c \in Box /\ c.lines = b.lines /\ c.view = b.view /\ c.offset = m /\ c.pinned = TRUE
  <2> HIDE DEF m
  <2> QED
    BY <1>1 DEF Raw, Box
<1>4. MaxOffset(c) = m
  BY <1>3, SameMaxOffset
<1> HIDE DEF m, c
<1> QED
  BY <1>1, <1>2, <1>3, <1>4 DEF InBox

LEMMA SetLinesInBox ==
  ASSUME NEW b \in Box, NEW n \in Nat
  PROVE  InBox(SetLines(b, n)) /\ SetLines(b, n).view = b.view
<1> DEFINE c == [b EXCEPT !.lines = n]
           d == [c EXCEPT !.offset = MaxOffset(c)]
<1>1. c \in Raw /\ c.view = b.view /\ c.pinned = b.pinned /\ c.lines = n
  BY DEF Raw, Box
<1>2. MaxOffset(c) \in Nat
  BY <1>1, MaxOffsetType DEF Raw
<1> HIDE DEF c
<1>3. /\ d \in Box /\ d.lines = c.lines /\ d.view = c.view /\ d.pinned = c.pinned
      /\ d.offset = MaxOffset(c)
  BY <1>1, <1>2 DEF Raw, Box
<1>4. MaxOffset(d) = MaxOffset(c)
  BY <1>3, SameMaxOffset
<1>5. CASE b.pinned
  <2>1. SetLines(b, n) = d
    BY <1>5 DEF SetLines, c
  <2> HIDE DEF d
  <2> QED
    BY <1>1, <1>2, <1>3, <1>4, <2>1 DEF InBox
<1>6. CASE ~ b.pinned
  <2>1. SetLines(b, n) = ClampOffset(c)
    BY <1>6 DEF SetLines, c
  <2>2. c.pinned = FALSE
    BY <1>1, <1>6 DEF Raw
  <2> QED
    BY <1>1, <2>1, <2>2, ClampInBox, Clamped
<1> QED
  BY <1>5, <1>6

LEMMA InBoxIsRaw == ASSUME NEW b, InBox(b) PROVE b \in Raw
BY DEF InBox, Box, Raw

LEMMA ScrollUpInBox ==
  ASSUME NEW b, InBox(b), NEW n \in Nat
  PROVE  InBox(ScrollUp(b, n))
<1> DEFINE k == b.offset + n
           c == [b EXCEPT !.pinned = FALSE, !.offset = k]
<1>1. c \in Raw /\ c.pinned = FALSE
  <2>1. k \in Int
    BY DEF InBox, Box
  <2> HIDE DEF k
  <2> QED
    BY <2>1 DEF Raw, InBox, Box
<1>2. ScrollUp(b, n) = ClampOffset(c)
  BY DEF ScrollUp
<1> QED
  BY <1>1, <1>2, ClampInBox

LEMMA ScrollDownInBox ==
  ASSUME NEW b, InBox(b), NEW n \in Nat
  PROVE  InBox(ScrollDown(b, n))
<1>1. CASE b.pinned \/ b.offset >= MaxOffset(b)
  BY <1>1, BottomInBox, InBoxIsRaw DEF ScrollDown
<1>2. CASE ~ (b.pinned \/ b.offset >= MaxOffset(b))
  <2> DEFINE a == [b EXCEPT !.offset = b.offset - n]
             c == ClampOffset(a)
             p == c.offset = MaxOffset(c)
             d == [c EXCEPT !.pinned = p]
  <2>1. a \in Raw
    BY DEF Raw, InBox, Box
  <2>2. c \in Box /\ c.offset <= MaxOffset(c)
    BY <2>1, Clamped, SameMaxOffset
  <2>3. ScrollDown(b, n) = d
    BY <1>2 DEF ScrollDown
  <2>4. p \in BOOLEAN
    OBVIOUS
  <2> HIDE DEF c
  <2>5. d \in Box /\ d.offset = c.offset /\ d.lines = c.lines /\ d.view = c.view
    BY <2>2, <2>4 DEF Box
  <2>6. d.pinned = p
    BY <2>2 DEF Box
  <2>7. MaxOffset(d) = MaxOffset(c)
    BY <2>5, SameMaxOffset
  <2> HIDE DEF d
  <2> QED
    BY <2>2, <2>3, <2>5, <2>6, <2>7 DEF InBox
<1> QED
  BY <1>1, <1>2

LEMMA QuotientType == ASSUME NEW m \in Int, NEW n \in Nat \ {0} PROVE m \div n \in Int
OBVIOUS

\* The place on the bar is rounded down to some number of lines.
LEMMA BarInBox ==
  ASSUME NEW b, InBox(b), NEW r \in Nat
  PROVE  InBox(BarClicked(b, r))
<1>1. CASE r = 0
  BY <1>1, ScrollUpInBox DEF BarClicked
<1>2. CASE r # 0 /\ r = b.view - 1
  BY <1>2, ScrollDownInBox DEF BarClicked
<1>3. CASE r # 0 /\ r # b.view - 1
  <2>1. CASE b.lines <= b.view \/ b.view <= 2
    BY <1>3, <2>1 DEF BarClicked
  <2>2. CASE ~ (b.lines <= b.view \/ b.view <= 2)
    <3> DEFINE m == (r - 1) * (b.lines - b.view)
               k == m \div (b.view - 2)
               c == [b EXCEPT !.pinned = FALSE, !.offset = k]
    <3>1. m \in Int /\ b.view - 2 \in Nat \ {0}
      BY <2>2 DEF InBox, Box
    <3>2. k \in Int
      BY <3>1, QuotientType
    <3>3. BarClicked(b, r) = ClampOffset(c)
      BY <1>3, <2>2 DEF BarClicked
    <3> HIDE DEF k
    <3>4. c \in Raw /\ c.pinned = FALSE
      BY <3>2 DEF Raw, InBox, Box
    <3> QED
      BY <3>3, <3>4, ClampInBox
  <2> QED
    BY <2>1, <2>2
<1> QED
  BY <1>1, <1>2, <1>3

\* The box is told the lines and the height.
LEMMA ToldInBox ==
  ASSUME BoxInv, NEW view \in Nat
  PROVE  InBox(SetLines([box EXCEPT !.view = view], content))
<1>1. [box EXCEPT !.view = view] \in Box
  BY DEF BoxInv, InBox, Box
<1> QED
  BY <1>1, SetLinesInBox DEF BoxInv

LEMMA BoxStep == BoxInv /\ [BoxNext]_boxVars => BoxInv'
<1> SUFFICES ASSUME BoxInv, [BoxNext]_boxVars PROVE BoxInv'
  OBVIOUS
<1>1. window.rows \in Nat /\ window.assumed \in Nat /\ box \in Box /\ content \in Nat
  BY ScrollBoxAssumption DEF BoxInv, InBox
<1>2. ASSUME NEW up \in BOOLEAN, Wheel(up) PROVE BoxInv'
  <2> DEFINE b == SetLines([box EXCEPT !.view = window.assumed], content)
  <2>1. InBox(b)
    BY <1>1, ToldInBox
  <2>2. box' = IF up THEN ScrollUp(b, 1) ELSE ScrollDown(b, 1)
    BY <1>2 DEF Wheel
  <2> HIDE DEF b
  <2>3. InBox(box')
    BY <2>1, <2>2, ScrollUpInBox, ScrollDownInBox
  <2> QED
    BY <1>2, <2>3 DEF Wheel, BoxInv
<1>3. ASSUME NEW up \in BOOLEAN, NEW page \in BOOLEAN, ScrollKey(up, page) PROVE BoxInv'
  <2> DEFINE b == SetLines(box, content)
             n == IF page THEN window.assumed ELSE 1
  <2>1. InBox(b) /\ n \in Nat
    BY <1>1, SetLinesInBox
  <2>2. box' = IF up THEN ScrollUp(b, n) ELSE ScrollDown(b, n)
    BY <1>3 DEF ScrollKey
  <2> HIDE DEF b, n
  <2>3. InBox(box')
    BY <2>1, <2>2, ScrollUpInBox, ScrollDownInBox
  <2> QED
    BY <1>3, <2>3 DEF ScrollKey, BoxInv
<1>4. ASSUME NEW w \in Windows, NEW r \in 0 .. w.assumed - 1, BarClick(r) PROVE BoxInv'
  <2> DEFINE b == SetLines([box EXCEPT !.view = window.assumed], content)
  <2>1. InBox(b) /\ r \in Nat
    BY <1>1, ToldInBox
  <2>2. box' = BarClicked(b, r)
    BY <1>4 DEF BarClick
  <2> HIDE DEF b
  <2>3. InBox(box')
    BY <2>1, <2>2, BarInBox
  <2> QED
    BY <1>4, <2>3 DEF BarClick, BoxInv
<1>5. CASE AppendMessage
  BY <1>1, <1>5, SetLinesInBox DEF AppendMessage, BoxInv
<1>6. CASE Fail
  BY <1>1, <1>6 DEF Fail, BoxInv
<1>7. CASE SendPrompt
  <2>1. InBox(SetLines(box, content + 1))
    BY <1>1, SetLinesInBox
  <2>2. InBox(ScrollToBottom(SetLines(box, content + 1)))
    BY <2>1, BottomInBox, InBoxIsRaw
  <2> QED
    BY <1>1, <1>7, <2>2 DEF SendPrompt, BoxInv
<1>8. CASE ClearMessages
  BY <1>8 DEF ClearMessages, BoxInv
<1>9. CASE Resize
  BY <1>9 DEF Resize, BoxInv
<1>10. CASE UNCHANGED boxVars
  BY <1>10 DEF boxVars, BoxInv
<1> QED
  BY <1>2, <1>3, <1>4, <1>5, <1>6, <1>7, <1>8, <1>9, <1>10 DEF BoxNext

\* A pinned box is at its end, and every box inside its lines.
THEOREM BoxFollows == BoxSpec => []PinnedAtEnd
<1>1. BoxInit => BoxInv
  BY DEF BoxInit, BoxInv, InBox, Box, MaxOffset, Monus
<1>2. BoxInv => PinnedAtEnd
  BY MaxOffsetType DEF BoxInv, InBox, Box, PinnedAtEnd
<1> QED
  BY <1>1, <1>2, BoxStep, PTL DEF BoxSpec

\* A box that is not pinned stays where it is when it is told more lines.
LEMMA SetMore ==
  ASSUME NEW b, InBox(b), b.pinned = FALSE, NEW n \in Nat, n >= b.lines
  PROVE  SetLines(b, n) = [b EXCEPT !.lines = n]
<1> DEFINE c == [b EXCEPT !.lines = n]
<1>1. b \in Box /\ b.lines \in Nat /\ b.view \in Nat /\ b.offset \in Nat
  BY DEF InBox, Box
<1>2. /\ c \in Box /\ c.lines = n /\ c.view = b.view /\ c.offset = b.offset
      /\ c = [c EXCEPT !.offset = b.offset]
  BY <1>1 DEF Box
<1>3. b.offset <= MaxOffset(c) /\ MaxOffset(c) \in Nat
  <2> HIDE DEF c
  <2>1. b.offset <= MaxOffset(b)
    BY DEF InBox
  <2> QED BY <1>1, <1>2, <2>1 DEF MaxOffset, Monus
<1>4. ClampOffset(c) = [c EXCEPT !.offset = b.offset]
  <2> HIDE DEF c
  <2> QED BY <1>1, <1>2, <1>3 DEF ClampOffset
<1>5. SetLines(b, n) = ClampOffset(c)
  BY DEF SetLines
<1> QED BY <1>2, <1>4, <1>5

\* NoYank of SetLines, for messages and windows of any size.
THEOREM NeverYanked == BoxSpec => NoYank
<1>1. ASSUME BoxInv, BoxNext, input' = "append", ~ box.pinned,
             box.view = window.rows, box.lines = content
      PROVE  Shown'.offset = Shown.offset
  <2>1. AppendMessage
    BY <1>1 DEF BoxNext, Wheel, ScrollKey, BarClick, Fail, SendPrompt, ClearMessages, Resize,
               boxVars
  <2>2. /\ content' = content + 1 /\ window' = window
        /\ box' = SetLines(box, content + 1)
    BY <2>1 DEF AppendMessage
  <2>3. PICK b, c, n : b = box /\ c = box' /\ n = content + 1
    OBVIOUS
  <2>4. /\ b \in Box /\ b.pinned = FALSE /\ content \in Nat /\ InBox(b)
        /\ b.view = window.rows /\ b.lines = content
    BY <1>1, <2>3 DEF BoxInv, InBox, Box
  <2>5. /\ b = [b EXCEPT !.view = window.rows] /\ b = [b EXCEPT !.lines = content]
        /\ n \in Nat /\ n >= b.lines /\ content >= b.lines
    BY <2>3, <2>4 DEF Box
  <2>6. SetLines(b, content) = b /\ SetLines(b, n) = [b EXCEPT !.lines = n]
    BY <2>4, <2>5, SetMore
  <2>7. Shown = b
    BY <2>3, <2>5, <2>6 DEF Shown
  <2>8. c = [b EXCEPT !.lines = n]
    BY <2>2, <2>3, <2>6
  <2>9. /\ c \in Box /\ c.pinned = FALSE /\ c.offset = b.offset
        /\ c.lines = n /\ c.view = window.rows
    BY <2>4, <2>5, <2>8 DEF Box
  <2>10. /\ c = [c EXCEPT !.view = window.rows] /\ c = [c EXCEPT !.lines = n]
         /\ n >= c.lines
    BY <2>5, <2>9 DEF Box
  <2>11. InBox(c)
    BY <2>2, <2>3, <2>4, <2>5, SetLinesInBox
  <2>12. SetLines(c, n) = c
    BY <2>5, <2>9, <2>10, <2>11, SetMore
  <2>13. Shown' = c
    BY <2>2, <2>3, <2>10, <2>12 DEF Shown
  <2> QED BY <2>7, <2>9, <2>13
<1>2. BoxInv /\ [BoxNext]_boxVars =>
        [input' = "append" /\ ~ box.pinned /\ box.view = window.rows /\ box.lines = content
           => Shown'.offset = Shown.offset]_boxVars
  BY <1>1
<1>3. BoxInit => BoxInv
  BY DEF BoxInit, BoxInv, InBox, Box, MaxOffset, Monus
<1> QED
  BY <1>2, <1>3, BoxStep, PTL DEF BoxSpec, NoYank

\* Telling the box what it knows changes nothing.
LEMMA SetSame ==
  ASSUME NEW b, InBox(b)
  PROVE  SetLines(b, b.lines) = b
<1>1. b \in Box /\ b = [b EXCEPT !.lines = b.lines] /\ b.lines \in Nat
  BY DEF InBox, Box
<1>2. CASE b.pinned = FALSE
  <2>1. b.lines >= b.lines
    BY <1>1
  <2>2. SetLines(b, b.lines) = [b EXCEPT !.lines = b.lines]
    BY <1>1, <1>2, <2>1, SetMore
  <2> QED BY <1>1, <2>2
<1>3. CASE b.pinned = TRUE
  <2>1. b.offset = MaxOffset(b)
    BY <1>3 DEF InBox
  <2>2. b = [b EXCEPT !.offset = b.offset]
    BY <1>1 DEF Box
  <2>3. SetLines(b, b.lines) = [b EXCEPT !.offset = MaxOffset(b)]
    BY <1>1, <1>3 DEF SetLines
  <2> QED BY <2>1, <2>2, <2>3
<1>4. b.pinned \in BOOLEAN
  BY <1>1 DEF Box
<1> QED BY <1>2, <1>3, <1>4

\* Up adds to the offset, which counts from the first line.
LEMMA ScrollUpMoves ==
  ASSUME NEW b, InBox(b), NEW n \in Nat \ {0}
  PROVE  /\ ScrollUp(b, n).lines = b.lines /\ ScrollUp(b, n).view = b.view
         /\ ScrollUp(b, n).offset >= b.offset
         /\ b.offset < MaxOffset(b) => ScrollUp(b, n).offset > b.offset
<1> DEFINE k == b.offset + n
           c == [b EXCEPT !.pinned = FALSE, !.offset = k]
           m == IF k > MaxOffset(b) THEN MaxOffset(b) ELSE IF k < 0 THEN 0 ELSE k
<1>1. b \in Box /\ b.offset \in Nat /\ b.offset <= MaxOffset(b) /\ MaxOffset(b) \in Nat
  BY MaxOffsetType DEF InBox, Box
<1>2. k \in Nat /\ k > b.offset
  BY <1>1
<1>3. m \in Nat /\ m >= b.offset /\ (b.offset < MaxOffset(b) => m > b.offset)
  BY <1>1, <1>2
<1> HIDE DEF k
<1>4. c \in Box /\ c.lines = b.lines /\ c.view = b.view /\ c.offset = k
  BY <1>1, <1>2 DEF Box
<1>5. MaxOffset(c) = MaxOffset(b)
  BY <1>4, SameMaxOffset
<1>6. ClampOffset(c) = [c EXCEPT !.offset = m]
  <2> HIDE DEF c
  <2> QED BY <1>4, <1>5 DEF ClampOffset
<1>7. ScrollUp(b, n) = ClampOffset(c)
  BY DEF ScrollUp, k
<1> HIDE DEF c, m
<1>8. /\ [c EXCEPT !.offset = m].lines = c.lines /\ [c EXCEPT !.offset = m].view = c.view
      /\ [c EXCEPT !.offset = m].offset = m
  BY <1>4 DEF Box
<1> QED BY <1>3, <1>4, <1>6, <1>7, <1>8

\* What updateChatKey and updateMouseWheel do where ScrollUpShowsEarlier
\* expects the opposite, for messages and windows of any size: scrolling up never
\* shows an earlier line, and shows later ones whenever there are any.
THEOREM ScrollUpShowsLater ==
  BoxSpec => [][/\ input' = "up" /\ box.lines = content
                /\ box.view = window.rows /\ box.view = window.assumed
                => /\ Shown'.offset >= Shown.offset
                   /\ Shown.offset < MaxOffset(Shown) => Shown'.offset > Shown.offset]_boxVars
<1>1. ASSUME BoxInv, BoxNext, input' = "up", box.lines = content,
             box.view = window.rows, box.view = window.assumed
      PROVE  /\ Shown'.offset >= Shown.offset
             /\ Shown.offset < MaxOffset(Shown) => Shown'.offset > Shown.offset
  <2>1. PICK b, c, l, v : b = box /\ c = box' /\ l = content /\ v = window.rows
    OBVIOUS
  <2>2. /\ b \in Box /\ InBox(b) /\ b.lines = l /\ b.view = v /\ l \in Nat
        /\ v \in Nat \ {0} /\ window.assumed = v
        /\ b = [b EXCEPT !.view = v]
    BY <1>1, <2>1, ScrollBoxAssumption DEF BoxInv, InBox, Box
  <2>3. SetLines(b, l) = b
    BY <2>2, SetSame
  <2>4. PICK n \in Nat \ {0} : c = ScrollUp(b, n) /\ content' = l /\ window' = window
    <3>1. ASSUME NEW up \in BOOLEAN, Wheel(up)
          PROVE  c = ScrollUp(b, 1) /\ content' = l /\ window' = window
      BY <1>1, <2>1, <2>2, <2>3, <3>1 DEF Wheel
    <3>2. ASSUME NEW up \in BOOLEAN, NEW page \in BOOLEAN, ScrollKey(up, page)
          PROVE  /\ c = ScrollUp(b, IF page THEN v ELSE 1)
                 /\ content' = l /\ window' = window
      BY <1>1, <2>1, <2>2, <2>3, <3>2 DEF ScrollKey
    <3>3. (\E up \in BOOLEAN : Wheel(up))
          \/ (\E up \in BOOLEAN, page \in BOOLEAN : ScrollKey(up, page))
      BY <1>1 DEF BoxNext, BarClick, AppendMessage, Fail, SendPrompt, ClearMessages, Resize
    <3>4. 1 \in Nat \ {0} /\ \A page : (IF page THEN v ELSE 1) \in Nat \ {0}
      BY <2>2
    <3> QED BY <3>1, <3>2, <3>3, <3>4
  <2>5. /\ InBox(c) /\ c.lines = l /\ c.view = v /\ c.offset >= b.offset
        /\ b.offset < MaxOffset(b) => c.offset > b.offset
    BY <2>2, <2>4, ScrollUpInBox, ScrollUpMoves
  <2>6. c = [c EXCEPT !.view = v]
    BY <2>5 DEF InBox, Box
  <2>7. SetLines(c, l) = c
    BY <2>5, SetSame
  <2>8. Shown = b
    BY <2>1, <2>2, <2>3 DEF Shown
  <2>9. Shown' = c
    BY <2>1, <2>4, <2>6, <2>7 DEF Shown
  <2> QED BY <2>5, <2>8, <2>9
<1>2. BoxInv /\ [BoxNext]_boxVars =>
        [/\ input' = "up" /\ box.lines = content
         /\ box.view = window.rows /\ box.view = window.assumed
         => /\ Shown'.offset >= Shown.offset
            /\ Shown.offset < MaxOffset(Shown) => Shown'.offset > Shown.offset]_boxVars
  BY <1>1
<1>3. BoxInit => BoxInv
  BY DEF BoxInit, BoxInv, InBox, Box, MaxOffset, Monus
<1> QED
  BY <1>2, <1>3, BoxStep, PTL DEF BoxSpec

-----------------------------------------------------------------------------
\* A rectangle that is cut at a viewport lies in it, if it has an area.
LEMMA ClampInside ==
  ASSUME NEW r \in Rect, NEW v \in Rect,
         v.rows > 0, v.cols > 0, r.rows > 0, r.cols > 0
  PROVE  /\ Clamp(r, v) \in Rect
         /\ Clamp(r, v).rows > 0 /\ Clamp(r, v).cols > 0
         /\ Intersect(Clamp(r, v), v) = Clamp(r, v)
<1> DEFINE row  == ClampInt(r.row, v.row, Bottom(v) - 1)
           col  == ClampInt(r.col, v.col, Right(v) - 1)
           rows == Lesser(r.rows, Bottom(v) - row)
           cols == Lesser(r.cols, Right(v) - col)
<1>1. row \in Int /\ row >= v.row /\ row < Bottom(v) /\ Bottom(v) \in Int
  BY DEF ClampInt, Bottom, Rect
<1>2. col \in Int /\ col >= v.col /\ col < Right(v) /\ Right(v) \in Int
  BY DEF ClampInt, Right, Rect
<1>3. rows \in Int /\ rows > 0 /\ row + rows <= Bottom(v)
  BY <1>1 DEF Lesser, Rect
<1>4. cols \in Int /\ cols > 0 /\ col + cols <= Right(v)
  BY <1>2 DEF Lesser, Rect
<1>5. Clamp(r, v) = [row |-> row, col |-> col, rows |-> rows, cols |-> cols]
  BY DEF Clamp
<1> HIDE DEF row, col, rows, cols
<1>6. Clamp(r, v) \in Rect
  BY <1>1, <1>2, <1>3, <1>4, <1>5 DEF Rect
<1>7. v.row \in Int /\ v.col \in Int
  BY DEF Rect
<1>8. /\ Bottom(Clamp(r, v)) = row + rows /\ Right(Clamp(r, v)) = col + cols
      /\ Greater(row, v.row) = row /\ Greater(col, v.col) = col
      /\ Lesser(row + rows, Bottom(v)) = row + rows
      /\ Lesser(col + cols, Right(v)) = col + cols
  BY <1>1, <1>2, <1>3, <1>4, <1>5, <1>7 DEF Bottom, Right, Greater, Lesser
<1>9. (row + rows) - row = rows /\ (col + cols) - col = cols
  BY <1>1, <1>2, <1>3, <1>4
<1>10. Intersect(Clamp(r, v), v) = Clamp(r, v)
  BY <1>3, <1>4, <1>5, <1>8, <1>9 DEF Intersect
<1> QED
  BY <1>3, <1>4, <1>5, <1>6, <1>10

PanelInv == screen \in Screens /\ PanelOnScreen

\* Where a panel is laid out it is inside the viewport.
LEMMA LayoutInside ==
  ASSUME NEW width \in Int, NEW height \in Nat, NEW anchor \in Rect, NEW v \in Rect,
         v.rows > 0, v.cols > 2, width > 0
  PROVE  /\ Layout(width, height, anchor, v).rows > 0
         /\ Layout(width, height, anchor, v).cols > 0
         /\ Intersect(Layout(width, height, anchor, v), v) = Layout(width, height, anchor, v)
<1> DEFINE rows  == height + 3
           below == Bottom(anchor)
           above == anchor.row - rows
           row   == IF below + rows > Bottom(v) /\ above >= v.row THEN above ELSE below
           cols  == ClampInt(width, 20, v.cols - 4) + 2
           r     == [row |-> row, col |-> anchor.col, rows |-> rows, cols |-> cols]
<1>1. rows \in Int /\ rows > 0 /\ row \in Int /\ anchor.col \in Int
  BY DEF Bottom, Rect
<1>2. cols \in Int /\ cols > 0
  BY DEF ClampInt, Rect
<1>3. Layout(width, height, anchor, v) = Clamp(r, v)
  BY DEF Layout
<1>4. r \in Rect /\ r.rows > 0 /\ r.cols > 0
  <2> HIDE DEF rows, row, cols
  <2> QED
    BY <1>1, <1>2 DEF Rect
<1>5. v.cols > 0
  BY DEF Rect
<1> HIDE DEF r
<1> QED
  BY <1>3, <1>4, <1>5, ClampInside

LEMMA ViewportType ==
  ASSUME screen \in Screens
  PROVE  Viewport \in Rect /\ Viewport.rows > 0 /\ Viewport.cols > 2
BY PopoverAssumption DEF Viewport, Rect

LEMMA LayKeeps ==
  ASSUME PanelInv, NEW kind, NEW anchor \in Rect, NEW width \in Int, NEW height \in Nat,
         width > 0, Lay(kind, anchor, width, height)
  PROVE  PanelInv'
<1>1. Viewport' = Viewport /\ screen' = screen
  BY DEF Lay, Viewport
<1>2. panel'.rect = Layout(width, height, anchor, Viewport)
  BY DEF Lay
<1>3. /\ panel'.rect.rows > 0 /\ panel'.rect.cols > 0
      /\ Intersect(panel'.rect, Viewport) = panel'.rect
  BY <1>2, ViewportType, LayoutInside DEF PanelInv
<1> QED
  BY <1>1, <1>3 DEF PanelInv, PanelOnScreen

LEMMA PanelStep == PanelInv /\ [PanelNext]_panelVars => PanelInv'
<1> SUFFICES ASSUME PanelInv, [PanelNext]_panelVars PROVE PanelInv'
  OBVIOUS
<1>1. CASE ResizeScreen
  BY <1>1 DEF ResizeScreen, PanelInv, PanelOnScreen, Viewport
<1>2. ASSUME NEW row \in Int, NEW col \in Int, OpenMenu(row, col) PROVE PanelInv'
  <2>1. [row |-> row, col |-> col, rows |-> 1, cols |-> 1] \in Rect
    BY DEF Rect
  <2> QED
    BY <1>2, <2>1, LayKeeps, PopoverAssumption DEF OpenMenu
<1>3. ASSUME NEW row \in Int, NEW col \in Int, NEW height \in EditorHeights,
             OpenEditor(row, col, height)
      PROVE  PanelInv'
  <2> DEFINE width == ClampInt(screen.cols - col - 2, 46, 74)
             anchor == [row |-> row, col |-> col, rows |-> 1, cols |-> width]
  <2>1. width \in Int /\ width > 0
    BY PopoverAssumption DEF ClampInt, PanelInv
  <2>2. Lay("editor", anchor, width, height)
    BY <1>3 DEF OpenEditor
  <2>3. anchor \in Rect
    <3> HIDE DEF width
    <3> QED
      BY <2>1 DEF Rect
  <2> HIDE DEF width, anchor
  <2> QED
    BY <2>1, <2>2, <2>3, LayKeeps, PopoverAssumption
<1>4. ASSUME NEW row, NEW col, ClickPanel(row, col) PROVE PanelInv'
  BY <1>4 DEF ClickPanel, PanelInv, PanelOnScreen
<1>5. CASE UNCHANGED panelVars
  BY <1>5 DEF panelVars, PanelInv, PanelOnScreen, Viewport
<1>6. 0 .. screen.rows - 1 \subseteq Int /\ 0 .. screen.cols - 1 \subseteq Int
  BY PopoverAssumption DEF PanelInv
<1> QED
  BY <1>1, <1>2, <1>3, <1>4, <1>5, <1>6 DEF PanelNext

\* A panel lies on the screen it was laid out for.
THEOREM PanelsVisible == PanelSpec => []PanelOnScreen
<1>1. PanelInit => PanelInv
  BY DEF PanelInit, PanelInv, PanelOnScreen
<1>2. PanelInv => PanelOnScreen
  BY DEF PanelInv
<1> QED
  BY <1>1, <1>2, PanelStep, PTL DEF PanelSpec
-----------------------------------------------------------------------------
(* TabBar *)

StoreTabs == Ids \cup {"dashboard", "wizard", "setup", "chat"}

LEMMA RemainderType == ASSUME NEW m \in Int, NEW n \in Nat \ {0} PROVE m % n \in 0 .. n - 1
OBVIOUS

LEMMA StartsAlike ==
  ASSUME NEW S, NEW a \in Seq(S), NEW b \in Seq(S), Len(a) \in Nat \ {0}
  PROVE  /\ a \o b \in Seq(S) /\ Len(a \o b) \in Nat \ {0} /\ (a \o b)[1] = a[1]
<1>1. Len(b) \in Nat
  OBVIOUS
<1>2. /\ a \o b \in Seq(S) /\ Len(a \o b) = Len(a) + Len(b)
      /\ \A i \in 1 .. Len(a) + Len(b) :
           (a \o b)[i] = IF i <= Len(a) THEN a[i] ELSE b[i - Len(a)]
  BY ConcatProperties
<1>3. 1 \in 1 .. Len(a) + Len(b) /\ 1 <= Len(a)
  BY <1>1
<1> QED BY <1>1, <1>2, <1>3

LEMMA TabsType ==
  ASSUME NEW rs
  PROVE  /\ Tabs(rs) \in Seq(StoreTabs) /\ Len(Tabs(rs)) \in Nat \ {0}
         /\ Tabs(rs)[1] = "dashboard"
<1>1. \A i \in 1 .. Len(Order) : Order[i] \in Ids
  BY DEF Ids
<1>2. Order \in Seq(Ids)
  <2>1. Order \in Seq(STRING)
    BY TabAssumption
  <2> QED BY <1>1, <2>1
<1>3. PICK k : k = Kept(Order, rs)
  OBVIOUS
<1>4. k \in Seq(StoreTabs)
  <2>1. Ids \cap rs \subseteq StoreTabs
    BY DEF StoreTabs
  <2> QED BY <1>2, <1>3, <2>1, KeptType
<1>5. PICK c : c = IF rs = {} THEN <<>> ELSE <<"chat">>
  OBVIOUS
<1>6. c \in Seq(StoreTabs)
  <2>1. "chat" \in StoreTabs
    BY DEF StoreTabs
  <2>2. <<>> \in Seq(StoreTabs) /\ <<"chat">> \in Seq(StoreTabs)
    BY <2>1
  <2> QED BY <1>5, <2>2
<1>7. PICK b : b = Base
  OBVIOUS
<1>8. b \in Seq(StoreTabs) /\ Len(b) = 3 /\ b[1] = "dashboard"
  BY <1>7 DEF Base, StoreTabs
<1>9. Tabs(rs) = (b \o k) \o c
  BY <1>3, <1>5, <1>7 DEF Tabs
<1> HIDE DEF StoreTabs
<1>10. PICK d : d = b \o k
  OBVIOUS
<1>11. d \in Seq(StoreTabs) /\ Len(d) \in Nat \ {0} /\ d[1] = "dashboard"
  <2>1. Len(b) \in Nat \ {0}
    BY <1>8
  <2> QED BY <1>4, <1>8, <1>10, <2>1, StartsAlike
<1> QED BY <1>6, <1>9, <1>10, <1>11, StartsAlike

LEMMA NamesKnown ==
  /\ "" \notin StoreTabs /\ "nowhere" \notin StoreTabs
  /\ "" \notin Ids /\ "dashboard" \in StoreTabs
BY TabAssumption DEF StoreTabs

LEMMA TabSetNames == \A rs : TabSet(rs) \subseteq StoreTabs /\ "" \notin TabSet(rs)
<1> SUFFICES ASSUME NEW rs PROVE TabSet(rs) \subseteq StoreTabs
  BY NamesKnown
<1>1. PICK t : t = Tabs(rs)
  OBVIOUS
<1>2. t \in Seq(StoreTabs)
  BY <1>1, TabsType
<1>3. \A i \in 1 .. Len(t) : t[i] \in StoreTabs
  BY <1>2
<1> QED BY <1>1, <1>3 DEF TabSet

\* The index of a tab that exists is in range and names it.
LEMMA IndexNames ==
  ASSUME NEW rs, NEW tab \in TabSet(rs)
  PROVE  /\ IndexOf(tab, rs) \in Nat /\ IndexOf(tab, rs) < Len(Tabs(rs))
         /\ Tabs(rs)[IndexOf(tab, rs) + 1] = tab
<1>1. PICK t, n : t = Tabs(rs) /\ n = Len(t)
  OBVIOUS
<1>2. n \in Nat
  BY <1>1, TabsType
<1>3. PICK j \in 1 .. n : t[j] = tab
  BY <1>1 DEF TabSet
<1>4. j - 1 \in 0 .. n - 1 /\ t[j - 1 + 1] = tab
  BY <1>2, <1>3
<1>5. IndexOf(tab, rs) = CHOOSE i \in 0 .. n - 1 : t[i + 1] = tab
  BY <1>1 DEF IndexOf
<1>6. IndexOf(tab, rs) \in 0 .. n - 1 /\ t[IndexOf(tab, rs) + 1] = tab
  BY <1>4, <1>5
<1> QED BY <1>1, <1>2, <1>6

\* The index is in range, and names the tab of the store if that exists and no
\* API client has selected it.
Agrees(s, a, rs, other) ==
  /\ a < Len(Tabs(rs))
  /\ ~ other /\ s \in TabSet(rs) => Tabs(rs)[a + 1] = s

TabInv ==
  /\ active \in Nat /\ stored \in StoreTabs \cup {"", "nowhere"}
  /\ edit \in Ids \cup {""} /\ calls \subseteq Call /\ answers \subseteq Answer
  /\ message \in Message /\ step \in {"idle", "store", "reset", "finish"}
  /\ stored = "" => active = 0
  /\ step \in {"idle", "finish"} => Agrees(stored, active, snapshot, foreign)

LEMMA SetAgrees ==
  ASSUME TabInv, step \in {"idle", "finish"}, NEW tab \in StoreTabs, setActiveTab(tab),
         snapshot' = snapshot
  PROVE  /\ active' \in Nat /\ stored' = tab /\ stored' # ""
         /\ Agrees(stored', active', snapshot', foreign')
<1>1. stored' = tab /\ foreign' = FALSE /\ tab # ""
  BY NamesKnown DEF setActiveTab
<1>2. CASE tab \in TabSet(snapshot)
  <2>1. PICK i : i = IndexOf(tab, snapshot)
    OBVIOUS
  <2>2. active' = i
    BY <1>2, <2>1 DEF setActiveTab
  <2> QED BY <1>1, <1>2, <2>1, <2>2, IndexNames DEF Agrees
<1>3. CASE tab \notin TabSet(snapshot)
  <2>1. active' = active
    BY <1>3 DEF setActiveTab
  <2> QED BY <1>1, <1>3, <2>1 DEF TabInv, Agrees
<1> QED BY <1>2, <1>3

LEMMA TabInitInv == TabInit => TabInv
<1> SUFFICES ASSUME TabInit PROVE TabInv
  OBVIOUS
<1>1. stored \notin TabSet(snapshot)
  BY TabSetNames DEF TabInit
<1>2. Len(Tabs(snapshot)) \in Nat \ {0}
  BY TabsType
<1>3. Agrees(stored, active, snapshot, foreign)
  <2>1. active = 0
    BY DEF TabInit
  <2> QED BY <1>1, <1>2, <2>1 DEF Agrees
<1> QED BY <1>3 DEF TabInit, TabInv, Message

\* What does not touch the tabs.
LEMMA TabsStay ==
  ASSUME TabInv, UNCHANGED <<snapshot, stored, active, step, foreign>>,
         message' \in Message, edit' \in Ids \cup {""}, calls' \subseteq Call,
         answers' \subseteq Answer
  PROVE  TabInv'
BY DEF TabInv, Agrees

LEMMA TabStep == TabInv /\ [TabNext]_tabVars => TabInv'
<1> SUFFICES ASSUME TabInv, [TabNext]_tabVars PROVE TabInv'
  OBVIOUS
<1>0. /\ message \in Message /\ edit \in Ids \cup {""} /\ calls \subseteq Call
      /\ answers \subseteq Answer
  BY DEF TabInv
<1>1. ASSUME NEW delta \in {-1, 1}, CycleTab(delta) PROVE TabInv'
  <2>1. PICK t, n : t = Tabs(snapshot) /\ n = Len(t)
    OBVIOUS
  <2>2. t \in Seq(StoreTabs) /\ n \in Nat \ {0}
    BY <2>1, TabsType
  <2>3. active + delta \in Int
    <3>1. active \in Nat
      BY DEF TabInv
    <3>2. delta = -1 \/ delta = 1
      OBVIOUS
    <3> QED BY <3>1, <3>2
  <2>4. PICK i : i = (active + delta) % n
    OBVIOUS
  <2>5. i \in 0 .. n - 1
    BY <2>2, <2>3, <2>4, RemainderType
  <2>6. PICK tab : tab = t[i + 1]
    OBVIOUS
  <2>7. tab \in StoreTabs
    BY <2>1, <2>2, <2>5, <2>6
  <2>8. setActiveTab(tab) /\ snapshot' = snapshot /\ step = "idle"
    BY <1>1, <2>1, <2>4, <2>6 DEF CycleTab
  <2>9. /\ active' \in Nat /\ stored' = tab /\ stored' # ""
        /\ Agrees(stored', active', snapshot', foreign')
    BY <2>7, <2>8, SetAgrees
  <2> QED BY <1>1, <2>7, <2>9 DEF CycleTab, TabInv, Agrees
<1>2. ASSUME NEW i \in 1 .. Len(Order) + 4, PickTab(i) PROVE TabInv'
  <2>1. PICK t, n : t = Tabs(snapshot) /\ n = Len(t)
    OBVIOUS
  <2>2. t \in Seq(StoreTabs) /\ n \in Nat \ {0}
    BY <2>1, TabsType
  <2>3. PICK tab : tab = t[i]
    OBVIOUS
  <2>4. i \in 1 .. n
    BY <1>2, <2>1, <2>2 DEF PickTab
  <2>5. tab \in StoreTabs
    BY <2>1, <2>2, <2>3, <2>4
  <2>6. setActiveTab(tab) /\ snapshot' = snapshot /\ step = "idle"
    BY <1>2, <2>1, <2>3 DEF PickTab
  <2>7. /\ active' \in Nat /\ stored' = tab /\ stored' # ""
        /\ Agrees(stored', active', snapshot', foreign')
    BY <2>5, <2>6, SetAgrees
  <2> QED BY <1>2, <2>5, <2>7 DEF PickTab, TabInv, Agrees
<1>3. ASSUME NEW op \in Ops, NEW id \in Ids, Command(op, id) PROVE TabInv'
  <2>1. [op |-> op, id |-> id] \in Call /\ calls' = calls \cup {[op |-> op, id |-> id]}
    BY <1>3 DEF Command, Call
  <2> QED BY <1>0, <1>3, <2>1, TabsStay DEF Command, uiVars
<1>4. ASSUME NEW id \in Ids, Edit(id) PROVE TabInv'
  BY <1>0, <1>4, TabsStay DEF Edit
<1>5. ASSUME NEW saved \in BOOLEAN, EndEdit(saved) PROVE TabInv'
  <2>1. calls' \subseteq Call
    <3>1. edit \in Ids
      BY <1>0, <1>5 DEF EndEdit
    <3>2. [op |-> "update", id |-> edit] \in Call
      BY <3>1 DEF Call, Ops
    <3> QED BY <1>0, <1>5, <3>2 DEF EndEdit
  <2> QED BY <1>0, <1>5, <2>1, TabsStay DEF EndEdit
<1>6. ASSUME NEW c \in calls, Execute(c) PROVE TabInv'
  <2>1. answers' \subseteq Answer
    <3>1. c.op \in Ops /\ c.id \in Ids
      BY <1>0 DEF Call
    <3>2. PICK op \in AnswerOps(c) : answers' = answers \cup {[op |-> op, id |-> c.id]}
      BY <1>6 DEF Execute
    <3>3. op \in Ops \cup {"failed"}
      BY <3>1, <3>2 DEF AnswerOps, Ops
    <3>4. [op |-> op, id |-> c.id] \in Answer
      BY <3>1, <3>3 DEF Answer
    <3> QED BY <1>0, <1>6, <3>2, <3>4 DEF Execute
  <2> QED BY <1>0, <1>6, <2>1, TabsStay DEF Execute, uiVars
<1>7. ASSUME NEW tab \in TabSet(Ids) \cup {"nowhere"}, ApiSelect(tab) PROVE TabInv'
  <2>1. tab \in StoreTabs \cup {"nowhere"} /\ tab # ""
    BY TabSetNames, NamesKnown
  <2>2. stored' = tab /\ foreign' = TRUE /\ UNCHANGED <<snapshot, active, edit, calls, answers, step, message>>
    BY <1>7 DEF ApiSelect
  <2> QED BY <2>1, <2>2 DEF TabInv, Agrees
<1>8. ASSUME NEW id \in Ids, ApiChange(id) PROVE TabInv'
  BY <1>0, <1>8, TabsStay DEF ApiChange, uiVars
<1>9. ASSUME NEW m \in answers \cup {Tick}, Begin(m) PROVE TabInv'
  BY <1>0, <1>9 DEF Begin, TabInv, Message
<1>10. CASE ReadStore
  <2>1. CASE stored \in TabSet(snapshot)
    <3>1. PICK i : i = IndexOf(stored, snapshot)
      OBVIOUS
    <3>2. active' = i /\ stored # ""
      BY <1>10, <2>1, <3>1, TabSetNames DEF ReadStore
    <3>3. i \in Nat /\ Agrees(stored, i, snapshot, FALSE)
      BY <2>1, <3>1, IndexNames DEF Agrees
    <3> QED BY <1>10, <2>1, <3>2, <3>3 DEF ReadStore, TabInv, Agrees
  <2>2. CASE stored \notin TabSet(snapshot) /\ stored # ""
    BY <1>10, <2>2 DEF ReadStore, TabInv
  <2>3. CASE stored \notin TabSet(snapshot) /\ stored = ""
    <3>0. active = 0
      BY <2>3 DEF TabInv
    <3>1. Agrees(stored, active, snapshot, FALSE)
      <4>1. 0 < Len(Tabs(snapshot))
        <5>1. Len(Tabs(snapshot)) \in Nat \ {0}
          BY TabsType
        <5> QED BY <5>1
      <4> QED BY <2>3, <3>0, <4>1 DEF Agrees
    <3> QED BY <1>10, <2>3, <3>1 DEF ReadStore, TabInv, Agrees
  <2> QED BY <2>1, <2>2, <2>3
<1>11. CASE Reset
  <2>1. Agrees("dashboard", 0, snapshot, FALSE)
    BY TabsType DEF Agrees
  <2> QED BY <1>11, <2>1, NamesKnown DEF Reset, TabInv, Agrees
<1>12. CASE Finish
  <2>1. PICK tab : tab = CASE message.op \in {"create", "update"} -> message.id
                           [] message.op = "route" -> "dashboard"
                           [] OTHER -> ""
    OBVIOUS
  <2>2. CASE tab = ""
    <3>1. UNCHANGED <<stored, foreign>>
          /\ active' = IF active >= Len(Tabs(snapshot)) THEN 0 ELSE active
      BY <1>12, <2>1, <2>2 DEF Finish
    <3>2. active' = active
      <4>1. active < Len(Tabs(snapshot)) /\ active \in Nat /\ Len(Tabs(snapshot)) \in Nat
        BY <1>12, TabsType DEF Finish, TabInv, Agrees
      <4> QED BY <3>1, <4>1
    <3> QED BY <1>12, <3>1, <3>2 DEF Finish, TabInv, Agrees
  <2>3. CASE tab # ""
    <3>1. tab \in StoreTabs
      <4>1. message.op \in {"create", "update"} => message.id \in Ids
        <5>1. CASE message = Tick
          BY <5>1 DEF Tick
        <5>2. CASE message \in Answer
          BY <5>2 DEF Answer
        <5> QED BY <1>0, <5>1, <5>2 DEF Message
      <4> QED BY <2>1, <2>3, <4>1, NamesKnown DEF StoreTabs
    <3>2. setActiveTab(tab) /\ snapshot' = snapshot /\ step = "finish"
      BY <1>12, <2>1, <2>3 DEF Finish
    <3>3. /\ active' \in Nat /\ stored' = tab /\ stored' # ""
          /\ Agrees(stored', active', snapshot', foreign')
      BY <3>1, <3>2, SetAgrees
    <3> QED BY <1>12, <3>1, <3>3 DEF Finish, TabInv, Agrees
  <2> QED BY <2>2, <2>3
<1>13. CASE UNCHANGED tabVars
  BY <1>0, <1>13, TabsStay DEF tabVars
<1> QED
  BY <1>1, <1>2, <1>3, <1>4, <1>5, <1>6, <1>7, <1>8, <1>9, <1>10, <1>11, <1>12, <1>13
  DEF TabNext, User, Refresh

\* The next and the previous tab are counted from the tab that is shown: the
\* index agrees with the store, unless an API client has selected a tab since
\* the last refresh; setActiveTab, cycleTab, refresh and the answers of Update.
THEOREM TabsAgree == TabSpec => []IndexAgrees
<1>1. TabInv => IndexAgrees
  <2> SUFFICES ASSUME TabInv, step = "idle", ~ foreign
               PROVE  active < Len(Tabs(snapshot)) /\ Tabs(snapshot)[active + 1] = activeTabID
    BY DEF IndexAgrees
  <2>1. Agrees(stored, active, snapshot, foreign)
    BY DEF TabInv
  <2>2. stored \in TabSet(snapshot) \/ (stored \notin TabSet(snapshot) /\ active < Len(Tabs(snapshot)))
    BY <2>1 DEF Agrees
  <2> QED BY <2>1, <2>2 DEF Agrees, activeTabID
<1> QED BY <1>1, TabInitInv, TabStep, PTL DEF TabSpec

-----------------------------------------------------------------------------
(* The focus *)

\* What a handler must have of a model, to tell which of the three is open.
HasOverlays(u) == /\ {"ctx", "modal", "command", "draft", "did", "tab"} \subseteq DOMAIN u
                  /\ u.tab \in TabNames
                  /\ u.ctx \in BOOLEAN /\ u.modal \in BOOLEAN /\ u.command \in BOOLEAN
Closed(u)    == HasOverlays(u) /\ ~ u.ctx /\ ~ u.modal /\ ~ u.command
OneOpen(u)   == /\ HasOverlays(u)
                /\ ~ (u.ctx /\ u.modal) /\ ~ (u.ctx /\ u.command) /\ ~ (u.modal /\ u.command)

Same(u, v) == /\ DOMAIN v = DOMAIN u /\ v.tab \in TabNames
              /\ v.ctx = u.ctx /\ v.modal = u.modal /\ v.command = u.command

\* Handlers that open and close none of the three.
LEMMA SmallHandlers ==
  ASSUME NEW u, HasOverlays(u)
  PROVE  /\ \A v \in Quit(u) : Same(u, v)
         /\ \A what : \A v \in Did(u, what) : Same(u, v)
         /\ Same(u, CloseMenu(u))
         /\ \A v \in ToggleMenu(u) : Same(u, v)
         /\ \A v \in cycleTab(u) : Same(u, v)
         /\ \A v \in submitChatPrompt(u) : Same(u, v)
         /\ \A v \in ChatOutside(u) : Same(u, v)
         /\ \A v \in applyChatDropdownOption(u) : Same(u, v)
         /\ \A s, n \in BOOLEAN : \A v \in openChatSetting(u, s, n) : Same(u, v)
         /\ \A v \in Deleted(u) : Same(u, v)
         /\ \A key : Same(u, Typed(u, key))
BY DEF HasOverlays, Same, Quit, Did, CloseMenu, ToggleMenu, cycleTab, submitChatPrompt,
  ChatOutside, applyChatDropdownOption, openChatSetting, Deleted, Typed

LEMMA CommandHandlers ==
  ASSUME NEW u, HasOverlays(u), NEW c \in ChatCommands
  PROVE  \A v \in runChatCommand(u, c) : Same(u, v)
BY DEF HasOverlays, Same, runChatCommand, ChatCommands, Did

LEMMA ChatKeys ==
  ASSUME NEW u, HasOverlays(u), NEW key \in Keys
  PROVE  \A v \in updateChatKey(u, key) : Same(u, v)
<1>1. \A v \in updateCustomKey(u, key) : Same(u, v)
  BY DEF HasOverlays, Same, updateCustomKey
<1>2. \A v \in updateSystemKey(u, key) : Same(u, v)
  BY DEF HasOverlays, Same, updateSystemKey
<1>3. \A v \in ChatEnter(u) : Same(u, v)
  <2>1. \A v \in runChatCommand(u, "/clear") : Same(u, v)
    BY CommandHandlers DEF ChatCommands
  <2>2. \A v \in UNION {runChatCommand(u, c) : c \in ChatCommands} : Same(u, v)
    BY CommandHandlers
  <2>3. \A v \in submitChatPrompt(u) : Same(u, v)
    BY SmallHandlers
  <2>4. Same(u, u)
    BY DEF Same, HasOverlays
  <2>5. CASE u.popup /\ u.draft = "slash"
    BY <2>2, <2>4, <2>5 DEF ChatEnter
  <2>6. CASE u.popup /\ u.draft = ""
    BY <2>1, <2>6 DEF ChatEnter
  <2>7. CASE u.popup /\ u.draft = "text"
    BY <2>4, <2>7 DEF ChatEnter
  <2>8. CASE ~ (u.popup /\ u.draft \in {"", "text", "slash"})
    BY <2>3, <2>8 DEF ChatEnter
  <2> QED BY <2>5, <2>6, <2>7, <2>8
<1>4. \A v \in updateComposerKey(u, key) : Same(u, v)
  <2>1. Same(u, u) /\ Same(u, Typed(u, "text")) /\ Same(u, Typed(u, "slash"))
    BY SmallHandlers DEF Same, HasOverlays
  <2>2. /\ Same(u, [u EXCEPT !.popup = FALSE, !.dropdown = ""])
        /\ Same(u, [u EXCEPT !.draft = IF @ = "" THEN "text" ELSE @])
    BY DEF Same, HasOverlays
  <2>3. \A v \in {[w EXCEPT !.popup = (w.draft = "slash")] : w \in Deleted(u)} : Same(u, v)
    <3>1. \A w \in Deleted(u) : Same(u, w)
      BY SmallHandlers
    <3> QED BY <3>1 DEF Same, HasOverlays
  <2>4. (\A v \in Deleted(u) : Same(u, v)) /\ (\A v \in Quit(u) : Same(u, v))
    BY SmallHandlers
  <2> QED BY <2>1, <2>2, <2>3, <2>4, <1>3 DEF updateComposerKey
<1> QED BY <1>1, <1>2, <1>4, SmallHandlers DEF updateChatKey

LEMMA ChatHitsQuiet ==
  ASSUME NEW u, HasOverlays(u), NEW hit \in ChatHits
  PROVE  \A v \in handleChatHit(u, hit) : Same(u, v)
BY SmallHandlers, CommandHandlers DEF ChatHits, ChatCommands, handleChatHit

LEMMA TabKeys ==
  ASSUME NEW u, Closed(u), NEW key \in Keys
  PROVE  \A v \in updateKey(u, key) : OneOpen(v)
<1>1. HasOverlays(u)
  BY DEF Closed
<1>2. \A v \in TextKey(u) : OneOpen(v)
  BY DEF TextKey, OneOpen, Closed, HasOverlays
<1>4. \A v : Same(u, v) => OneOpen(v)
  BY DEF OneOpen, Closed, HasOverlays, Same
<1>3. \A v \in DigitKey(u) : OneOpen(v)
  <2>1. /\ Same(u, u) /\ Same(u, [u EXCEPT !.routes = FALSE, !.did = "route"])
        /\ \A v \in cycleTab(u) : Same(u, v)
    BY <1>1, SmallHandlers DEF Same, HasOverlays
  <2> QED BY <2>1, <1>4 DEF DigitKey
<1>5. \A v \in updateTabKey(u, key) : OneOpen(v)
  <2>1. OneOpen(u) /\ OneOpen(CloseMenu(u))
    BY <1>1, <1>4, SmallHandlers DEF Same, HasOverlays
  <2>2. \A v \in Quit(u) \cup ToggleMenu(u) \cup cycleTab(u) \cup Did(u, "create") : OneOpen(v)
    BY <1>1, <1>4, SmallHandlers
  <2> QED BY <1>2, <1>3, <2>1, <2>2 DEF updateTabKey
<1> QED BY <1>1, <1>4, <1>5, SmallHandlers, ChatKeys DEF updateKey

\* An editor changes nothing of what lies under it.
LEMMA EditorKeys ==
  ASSUME NEW u, NEW w, OneOpen(u), OneOpen(w), NEW key \in Keys
  PROVE  \A v \in updateEditorKey(u, key, w) : OneOpen(v)
<1>1. (\A v \in Quit(u) : OneOpen(v)) /\ (\A v \in Did(w, "set") : OneOpen(v))
  BY DEF Quit, Did, OneOpen, HasOverlays
<1> QED BY <1>1 DEF updateEditorKey

LEMMA Keypresses ==
  ASSUME NEW u, OneOpen(u), NEW key \in Keys
  PROVE  \A v \in Press(u, key) : OneOpen(v)
<1>1. HasOverlays(u)
  BY DEF OneOpen
<1>2. \A v : Same(u, v) => OneOpen(v)
  BY DEF OneOpen, HasOverlays, Same
<1>3. CASE u.ctx
  BY <1>3 DEF Press, OneOpen, HasOverlays
<1>4. CASE ~ u.ctx /\ u.modal
  <2>1. OneOpen([u EXCEPT !.modal = FALSE])
    BY DEF OneOpen, HasOverlays
  <2> QED BY <1>4, <2>1, EditorKeys DEF Press
<1>5. CASE ~ u.ctx /\ ~ u.modal /\ u.command
  <2>1. OneOpen([u EXCEPT !.command = FALSE])
    BY DEF OneOpen, HasOverlays
  <2> QED BY <1>5, <2>1, EditorKeys DEF Press
<1>6. CASE ~ u.ctx /\ ~ u.modal /\ ~ u.command
  <2>1. \A v \in updateEditKey(u, key) : Same(u, v)
    BY <1>1 DEF updateEditKey, HasOverlays, Same, Quit
  <2> QED BY <1>1, <1>2, <1>6, <2>1, TabKeys DEF Press, Closed
<1> QED BY <1>3, <1>4, <1>5, <1>6

\* A click on a button, as far as the button is there.
LEMMA ButtonHits ==
  ASSUME NEW u, OneOpen(u), NEW hit \in buttonHitRegistry(u)
  PROVE  \A v \in handleButtonHit(u, hit) : OneOpen(v)
<1>1. HasOverlays(u)
  BY DEF OneOpen
<1>2. \A v : Same(u, v) => OneOpen(v)
  BY DEF OneOpen, HasOverlays, Same
<1>3. CASE hit \in ChatHits
  <2>1. handleButtonHit(u, hit) = handleChatHit(u, hit)
    BY <1>3 DEF handleButtonHit, ChatHits, WizardHits
  <2> QED BY <1>1, <1>2, <1>3, <2>1, ChatHitsQuiet
<1>4. CASE hit \in WizardHits
  <2>1. \A v \in handleWizardHit(u, hit) : OneOpen(v)
    <3>1. CASE hit \in {"wizard-option", "wizard-command-edit"}
      <4>1. Closed(u)
        BY <1>1, <3>1 DEF buttonHitRegistry, bottomActionSegments, GlobalMenuHits, Closed
      <4> QED BY <3>1, <4>1 DEF handleWizardHit, Closed, OneOpen, HasOverlays
    <3>2. CASE hit \in WizardHits \ {"wizard-option", "wizard-command-edit"}
      BY <3>2 DEF handleWizardHit, WizardHits, OneOpen, HasOverlays, Did
    <3> QED BY <1>4, <3>1, <3>2
  <2>2. hit \notin ChatHits
    BY <1>4 DEF WizardHits, ChatHits
  <2>3. handleButtonHit(u, hit) = handleWizardHit(u, hit)
    BY <1>4, <2>2 DEF handleButtonHit, ChatHits, WizardHits
  <2> QED BY <2>1, <2>3
<1>5. CASE hit \notin ChatHits \cup WizardHits
  <2>1. Same(u, CloseMenu(u)) /\ HasOverlays(CloseMenu(u))
    BY <1>1, SmallHandlers DEF Same, HasOverlays
  <2>2. \A v \in cycleTab(CloseMenu(u)) : Same(u, v)
    BY <2>1, SmallHandlers DEF Same
  <2>3. /\ Same(u, [u EXCEPT !.palette = TRUE]) /\ Same(u, [u EXCEPT !.edit = TRUE])
        /\ Same(u, [u EXCEPT !.routes = FALSE, !.did = "route"])
    BY <1>1 DEF Same, HasOverlays
  <2>4. \A v \in ToggleMenu(u) \cup cycleTab(u) \cup Quit(u) \cup Did(u, "action") : Same(u, v)
    BY <1>1, SmallHandlers
  <2>5. hit \in {"menu", "next", "previous", "quit", "global-quit", "global-tab",
                 "global-palette", "global-palette-select", "runner-action",
                 "runner-edit-command", "dashboard-route-runner"}
    BY <1>5 DEF buttonHitRegistry, bottomActionSegments, GlobalMenuHits, TabHits, ChatHits, WizardHits
  <2>6. \A v \in handleButtonHit(u, hit) : Same(u, v)
    BY <1>5, <2>1, <2>2, <2>3, <2>4, <2>5 DEF handleButtonHit
  <2> QED BY <1>2, <2>6
<1> QED BY <1>3, <1>4, <1>5

\* A click that meets no button, while none of the three is open.
LEMMA BodyClicks ==
  ASSUME NEW u, Closed(u)
  PROVE  \A v \in ElsewhereClick(u) : OneOpen(v)
<1>1. HasOverlays(u)
  BY DEF Closed
<1>2. \A v : Same(u, v) => OneOpen(v)
  BY DEF OneOpen, Closed, HasOverlays, Same
<1>3. \A v \in BodyClick(u) : OneOpen(v)
  <2>1. /\ Same(u, u) /\ Same(u, [u EXCEPT !.routes = TRUE])
        /\ Same(u, [u EXCEPT !.edit = TRUE])
        /\ Same(u, [u EXCEPT !.did = "set"]) /\ Same(u, [u EXCEPT !.did = "create"])
    BY <1>1 DEF Same, HasOverlays
  <2>2. OneOpen([u EXCEPT !.modal = TRUE])
    BY DEF Closed, OneOpen, HasOverlays
  <2>3. /\ \A v \in Did(u, "toggle") \cup Did(u, "action") : Same(u, v)
        /\ \A v \in ChatOutside(u) : Same(u, v)
    BY <1>1, SmallHandlers
  <2> QED BY <1>2, <2>1, <2>2, <2>3 DEF BodyClick, Closed, HasOverlays, TabNames
<1>4. Same(u, CloseMenu(u)) /\ HasOverlays(CloseMenu(u))
  BY <1>1, SmallHandlers DEF Same, HasOverlays
<1>5. \A v \in cycleTab(CloseMenu(u)) \cup cycleTab(u) : Same(u, v)
  BY <1>1, <1>4, SmallHandlers DEF Same
<1>6. /\ Same(u, [u EXCEPT !.palette = TRUE])
      /\ \A v \in Quit([u EXCEPT !.palette = FALSE]) : Same(u, v)
  BY <1>1 DEF Same, HasOverlays, Quit
<1> QED BY <1>2, <1>3, <1>4, <1>5, <1>6 DEF ElsewhereClick

LEMMA Clicks ==
  ASSUME NEW u, OneOpen(u)
  PROVE  \A v \in LeftClick(u) \cup RightClick(u) : OneOpen(v)
<1>1. HasOverlays(u)
  BY DEF OneOpen
<1> DEFINE hits == UNION {handleButtonHit(u, hit) : hit \in buttonHitRegistry(u)}
<1>2. \A v \in hits : OneOpen(v)
  BY ButtonHits
<1>3. OneOpen([u EXCEPT !.ctx = FALSE]) /\ OneOpen([u EXCEPT !.modal = FALSE])
  BY DEF OneOpen, HasOverlays
<1>4. ~ u.ctx /\ ~ u.modal /\ ~ u.command => \A v \in ElsewhereClick(u) : OneOpen(v)
  BY <1>1, BodyClicks DEF Closed
<1>5. \A v \in LeftClick(u) : OneOpen(v)
  <2> HIDE DEF hits
  <2>1. LeftClick(u) \subseteq
          hits \cup {u, [u EXCEPT !.ctx = FALSE], [u EXCEPT !.modal = FALSE]}
            \cup (IF ~ u.ctx /\ ~ u.modal /\ ~ u.command THEN ElsewhereClick(u) ELSE {})
    BY DEF LeftClick, hits
  <2> QED BY <1>2, <1>3, <1>4, <2>1
<1>6. \A v \in RightClick(u) : OneOpen(v)
  BY DEF RightClick, rightClick, OneOpen, HasOverlays
<1> QED BY <1>5, <1>6

FocusInv == OneOpen(focus)

LEMMA FocusKeeps == FocusInv /\ [FocusNext]_focusVars => FocusInv'
<1> SUFFICES ASSUME FocusInv, [FocusNext]_focusVars PROVE OneOpen(focus')
  BY DEF FocusInv
<1> DEFINE u == [focus EXCEPT !.did = ""]
<1>1. OneOpen(u)
  BY DEF FocusInv, OneOpen, HasOverlays
<1> HIDE DEF u
<1>2. CASE Click
  BY <1>1, <1>2, Clicks DEF Click, u
<1>3. CASE Selected
  BY <1>3 DEF Selected, FocusInv, OneOpen, HasOverlays
<1>4. ASSUME NEW key \in Keys, Key(key) PROVE OneOpen(focus')
  BY <1>1, <1>4, Keypresses DEF Key, u
<1>5. CASE UNCHANGED focusVars
  BY <1>5 DEF focusVars, FocusInv
<1> QED BY <1>2, <1>3, <1>4, <1>5 DEF FocusNext

LEMMA FocusInitInv == FocusInit => FocusInv
<1>1. {"ctx", "modal", "command", "draft", "did", "tab"} \subseteq DOMAIN NewModel
  BY DEF NewModel
<1>2. /\ NewModel.tab = "dashboard" /\ NewModel.ctx = FALSE /\ NewModel.modal = FALSE
      /\ NewModel.command = FALSE
  BY DEF NewModel
<1> QED BY <1>1, <1>2 DEF FocusInit, FocusInv, OneOpen, HasOverlays, TabNames

\* OverlaysExclusive: whatever is pressed, clicked and selected, at most one of
\* the menu and the editor of an option and the editor of the line is open.
THEOREM OneOverlay == FocusSpec => []OverlaysExclusive
<1>1. FocusInv => OverlaysExclusive
  BY DEF FocusInv, OneOpen, OverlaysExclusive
<1> QED BY <1>1, FocusInitInv, FocusKeeps, PTL DEF FocusSpec

\* A key that an editor of the chat, or one that lies over it, has taken.
LEMMA TakenKeys ==
  ASSUME NEW u, HasOverlays(u), NEW key \in Keys, u.did = "", u.tab = "chat",
         u.custom \/ u.system \/ u.ctx \/ u.modal \/ u.command \/ u.edit
  PROVE  \A v \in Press(u, key) : v.draft = u.draft /\ v.did \in {"", "set", "update"}
<1> DEFINE Harmless(v) == v.draft = u.draft /\ v.did \in {"", "set", "update"}
<1>1. \A v \in Quit(u) : Harmless(v)
  BY DEF Quit, HasOverlays
<1>2. ASSUME NEW w, HasOverlays(w), Harmless(w)
      PROVE  \A v \in updateEditorKey(u, key, w) : Harmless(v)
  <2>1. \A v \in Did(w, "set") : Harmless(v)
    BY <1>2 DEF Did, HasOverlays
  <2> QED BY <1>1, <1>2, <2>1 DEF updateEditorKey
<1>3. /\ Harmless([u EXCEPT !.modal = FALSE]) /\ HasOverlays([u EXCEPT !.modal = FALSE])
      /\ Harmless([u EXCEPT !.command = FALSE]) /\ HasOverlays([u EXCEPT !.command = FALSE])
      /\ Harmless([u EXCEPT !.ctx = (key # "esc")])
  BY DEF HasOverlays
<1>4. \A v \in updateEditKey(u, key) : Harmless(v)
  BY <1>1 DEF updateEditKey, HasOverlays
<1>5. \A v \in updateCustomKey(u, key) \cup updateSystemKey(u, key) : Harmless(v)
  BY DEF updateCustomKey, updateSystemKey, HasOverlays
<1>6. u.custom \/ u.system => \A v \in updateKey(u, key) : Harmless(v)
  BY <1>1, <1>5 DEF updateKey, updateChatKey
<1>7. \A v \in Press(u, key) : Harmless(v)
  <2> HIDE DEF Harmless
  <2>1. CASE u.ctx
    BY <1>3, <2>1 DEF Press
  <2>2. CASE ~ u.ctx /\ u.modal
    BY <1>2, <1>3, <2>2 DEF Press
  <2>3. CASE ~ u.ctx /\ ~ u.modal /\ u.command
    BY <1>2, <1>3, <2>3 DEF Press
  <2>4. CASE ~ u.ctx /\ ~ u.modal /\ ~ u.command
    BY <1>4, <1>6, <2>4 DEF Press
  <2> QED BY <2>1, <2>2, <2>3, <2>4
<1> QED BY <1>7

\* NothingLeaks: what the user types into an editor never changes the draft of
\* the composer, and never sends it.
THEOREM KeysStay == FocusSpec => NothingLeaks
<1> DEFINE Taken == event' \in Keys /\ focus.tab = "chat"
                     /\ (focus.custom \/ focus.system \/ focus.ctx \/ focus.modal
                          \/ focus.command \/ focus.edit)
           Stays == focus'.draft = focus.draft
                     /\ focus'.did \notin {"submit", "clear", "new", "stop"}
<1>1. ASSUME FocusInv, FocusNext, Taken PROVE Stays
  <2>1. \A key \in Keys : key \notin {"click", "select"}
    BY DEF Keys
  <2>2. PICK key \in Keys : Key(key)
    BY <1>1, <2>1 DEF FocusNext, Click, Selected
  <2> DEFINE u == [focus EXCEPT !.did = ""]
  <2>3. HasOverlays(u) /\ u.did = "" /\ u.draft = focus.draft
    BY <1>1 DEF FocusInv, OneOpen, HasOverlays
  <2>4. u.tab = "chat" /\ (u.custom \/ u.system \/ u.ctx \/ u.modal \/ u.command \/ u.edit)
    BY <1>1
  <2>5. focus' \in Press(u, key)
    BY <2>2 DEF Key
  <2> HIDE DEF u
  <2> QED BY <2>3, <2>4, <2>5, TakenKeys
<1>2. FocusInv /\ [FocusNext]_focusVars => [Taken => Stays]_focusVars
  BY <1>1
<1> QED BY <1>2, FocusInitInv, FocusKeeps, PTL DEF FocusSpec, NothingLeaks
=============================================================================
