----------------------------- MODULE MCTerminal -----------------------------
(* The scrolled chat, the panels, the tabs and the focus of the terminal UI, *)
(* which share no state that they change: a run explores each by itself.     *)
EXTENDS ScrollBox, Popover, TabBar, Focus

VARIABLE part \* the part that a behaviour is about

terminalVars == <<boxVars, panelVars, tabVars, focusVars, part>>

IDs == <<"a", "b">>
WindowsDef == { [rows |-> 2, assumed |-> 2], [rows |-> 3, assumed |-> 3],
                [rows |-> 3, assumed |-> 4] }
ScreensDef == { [rows |-> 14, cols |-> 50], [rows |-> 5, cols |-> 22] }

Init == /\ part \in {"box", "panel", "tabs", "focus"}
        /\ BoxInit /\ PanelInit /\ TabInit /\ FocusInit
        \* The parts that do not move start in one state.
        /\ part # "box"   => window.rows = 2
        /\ part # "panel" => screen.rows = 5
        /\ part # "tabs"  => runners = {}

Next ==
  /\ UNCHANGED part
  /\ \/ part = "box"   /\ BoxNext   /\ UNCHANGED <<panelVars, tabVars, focusVars>>
     \/ part = "panel" /\ PanelNext /\ UNCHANGED <<boxVars, tabVars, focusVars>>
     \/ part = "tabs"  /\ TabNext   /\ UNCHANGED <<boxVars, panelVars, focusVars>>
     \/ part = "focus" /\ FocusNext /\ UNCHANGED <<boxVars, panelVars, tabVars>>

Spec == Init /\ [][Next]_terminalVars /\ TabFairness
=============================================================================
