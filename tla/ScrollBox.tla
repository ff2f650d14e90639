----------------------------- MODULE ScrollBox -----------------------------
(***************************************************************************)
(* The scrolled window on the messages of the chat: the ScrollBox of       *)
(* internal/tui/scrollbox.go and what internal/tui/model.go does with it.  *)
(*                                                                         *)
(* Only numbers of lines matter.  The box remembers the lines and the      *)
(* height that it was last told; the messages and the terminal may have    *)
(* changed since.  What is drawn is a copy of the box that has been told.  *)
(***************************************************************************)
EXTENDS Integers

CONSTANTS MaxLines, \* bound on the lines of the messages
          Windows   \* the windows: rows drawn, and rows that handlers assume

ASSUME ScrollBoxAssumption ==
  /\ MaxLines \in Nat
  /\ Windows \subseteq [rows : Nat \ {0}, assumed : Nat \ {0}]

VARIABLES
  box,     \* chatScrollBox
  content, \* number of lines of chatMessageLines
  window,  \* the size of the terminal
  input    \* the last event

boxVars == <<box, content, window, input>>

Box == [lines : Nat, view : Nat, offset : Nat, pinned : BOOLEAN]
Inputs == {"start", "up", "down", "bar", "append", "fail", "submit", "clear", "resize"}

\* A difference that is not below zero, as maxInt(0, m - n).
Monus(m, n) == IF m > n THEN m - n ELSE 0

MaxOffset(b) == Monus(b.lines, b.view)

ClampOffset(b) ==
  [b EXCEPT !.offset = IF @ > MaxOffset(b) THEN MaxOffset(b) ELSE IF @ < 0 THEN 0 ELSE @]

ScrollToBottom(b) == [b EXCEPT !.pinned = TRUE, !.offset = MaxOffset(b)]

\* Mutant: a pinned box does not follow the new lines.
XSetLines(b, n) == ClampOffset([b EXCEPT !.lines = n])

\* Mutant: the box follows new lines wherever it is.
AlwaysFollow(b, n) == LET c == [b EXCEPT !.lines = n] IN [c EXCEPT !.offset = MaxOffset(c)]

SetLines(b, n) ==
  LET c == [b EXCEPT !.lines = n]
  IN IF b.pinned THEN [c EXCEPT !.offset = MaxOffset(c)] ELSE ClampOffset(c)

ScrollUp(b, n) == ClampOffset([b EXCEPT !.pinned = FALSE, !.offset = @ + n])

ScrollDown(b, n) ==
  IF b.pinned \/ b.offset >= MaxOffset(b) THEN ScrollToBottom(b)
  ELSE LET c == ClampOffset([b EXCEPT !.offset = @ - n])
       IN [c EXCEPT !.pinned = (c.offset = MaxOffset(c))]

\* A click on row r of the bar: arrows on the first and the last row, and the
\* place in proportion on the rows between them.
BarClicked(b, r) ==
  CASE r = 0 -> ScrollUp(b, 1)
    [] r # 0 /\ r = b.view - 1 -> ScrollDown(b, 1)
    [] OTHER -> IF b.lines <= b.view \/ b.view <= 2 THEN b
                ELSE ClampOffset([b EXCEPT !.pinned = FALSE,
                       !.offset = ((r - 1) * (b.lines - b.view)) \div (b.view - 2)])

\* What is drawn: the box as it is after it has been told.
Shown == SetLines([box EXCEPT !.view = window.rows], content)

-----------------------------------------------------------------------------
BoxInit == /\ box = [lines |-> 0, view |-> 0, offset |-> 0, pinned |-> TRUE]
           /\ content = 0
           /\ window \in Windows
           /\ input = "start"

\* The wheel tells the box its height; the keys do not.
Wheel(up) ==
  LET b == SetLines([box EXCEPT !.view = window.assumed], content) IN
  /\ box' = IF up THEN ScrollUp(b, 1) ELSE ScrollDown(b, 1)
  /\ input' = IF up THEN "up" ELSE "down"
  /\ UNCHANGED <<content, window>>

ScrollKey(up, page) ==
  LET b == SetLines(box, content)
      n == IF page THEN window.assumed ELSE 1
  IN /\ box' = IF up THEN ScrollUp(b, n) ELSE ScrollDown(b, n)
     /\ input' = IF up THEN "up" ELSE "down"
     /\ UNCHANGED <<content, window>>

BarClick(r) ==
  /\ r < window.assumed
  /\ box' = BarClicked(SetLines([box EXCEPT !.view = window.assumed], content), r)
  /\ input' = "bar"
  /\ UNCHANGED <<content, window>>

\* A chunk or an answer arrives.
AppendMessage == /\ content < MaxLines
                 /\ content' = content + 1
                 /\ box' = SetLines(box, content + 1)
                 /\ input' = "append"
                 /\ UNCHANGED window

\* The error of a stream is a message that the box is not told.
Fail == /\ content < MaxLines
        /\ content' = content + 1
        /\ input' = "fail"
        /\ UNCHANGED <<box, window>>

SendPrompt == /\ content < MaxLines
              /\ content' = content + 1
              /\ box' = ScrollToBottom(SetLines(box, content + 1))
              /\ input' = "submit"
              /\ UNCHANGED window

ClearMessages == content' = 0 /\ input' = "clear" /\ UNCHANGED <<box, window>>

Resize == window' \in Windows /\ input' = "resize" /\ UNCHANGED <<box, content>>

BoxNext == \/ \E up \in BOOLEAN : Wheel(up) \/ \E page \in BOOLEAN : ScrollKey(up, page)
           \/ \E w \in Windows : \E r \in 0 .. w.assumed - 1 : BarClick(r)
           \/ AppendMessage \/ Fail \/ SendPrompt \/ ClearMessages \/ Resize

BoxSpec == BoxInit /\ [][BoxNext]_boxVars

-----------------------------------------------------------------------------
(* Properties *)

BoxTypeOK == /\ box \in Box /\ content \in 0 .. MaxLines
             /\ window \in Windows /\ input \in Inputs

\* After any mix of chunks, keys, clicks and new windows the offset lies in the
\* box, and a pinned box (one that follows new messages) is at its end.
PinnedAtEnd == /\ box.offset \in 0 .. MaxOffset(box)
               /\ box.pinned => box.offset = MaxOffset(box)

\* The window does not move under a user who has left the end, when messages
\* arrive that the box is told (the box knows the window and the messages).
NoYank ==
  [][input' = "append" /\ ~ box.pinned /\ box.view = window.rows /\ box.lines = content
     => Shown'.offset = Shown.offset]_boxVars

\* Scrolling up shows earlier messages, if there are any.
ScrollUpShowsEarlier ==
  [][input' = "up" /\ box.view = window.rows /\ box.lines = content /\ Shown.offset > 0
     => Shown'.offset < Shown.offset]_boxVars
=============================================================================
