------------------------------- MODULE Focus -------------------------------
(***************************************************************************)
(* Which part of the terminal UI receives a key or a click                 *)
(* (internal/tui/model.go): the editors and menus that lie over the tabs,  *)
(* the global menu, the menus of a tab and the composer of the chat.       *)
(*                                                                         *)
(* As in the code, Update maps a model and an event to the next model: a   *)
(* handler is an operator from a model to the set of models it may return. *)
(* Texts, positions and what an editor holds are left out; `did' is the    *)
(* effect that the last event had outside of the focus.                    *)
(***************************************************************************)
EXTENDS Naturals

VARIABLES
  focus,   \* the fields of Model that decide where events go
  event \* the last event

focusVars == <<focus, event>>

TabNames == {"dashboard", "wizard", "setup", "runner", "chat"}
Keys == {"esc", "ctrl+c", "enter", "shift+enter", "text", "slash", "digit",
         "backspace", "ctrl+h", "f1", "tab", "arrow"}
Effects == {"", "toggle", "create", "action", "update", "route", "submit", "clear",
            "stop", "new", "set"}

\* chatSettingsDropdown is "number" for the settings with a custom value.
Model == [tab : TabNames, ctx : BOOLEAN, modal : BOOLEAN, command : BOOLEAN,
          edit : BOOLEAN, menu : BOOLEAN, palette : BOOLEAN, routes : BOOLEAN,
          dropdown : {"", "number", "choice"}, custom : BOOLEAN,
          system : BOOLEAN, popup : BOOLEAN, draft : {"", "text", "slash"},
          quit : BOOLEAN, did : Effects]

NewModel ==
  [tab |-> "dashboard", ctx |-> FALSE, modal |-> FALSE, command |-> FALSE,
   edit |-> FALSE, menu |-> FALSE, palette |-> FALSE, routes |-> FALSE,
   dropdown |-> "", custom |-> FALSE, system |-> FALSE, popup |-> FALSE,
   draft |-> "", quit |-> FALSE, did |-> ""]

FocusInit == focus = NewModel /\ event = "start"

Quit(u)       == {[u EXCEPT !.quit = TRUE]}
Did(u, what)  == {[u EXCEPT !.did = what]}
CloseMenu(u)  == [u EXCEPT !.menu = FALSE, !.palette = FALSE]
ToggleMenu(u) == {[u EXCEPT !.menu = ~ @, !.palette = FALSE]}

\* The neighbour of the tab that Model.active denotes, which need not be the
\* tab that is shown.
cycleTab(u) == {[u EXCEPT !.tab = t] : t \in TabNames}

-----------------------------------------------------------------------------
(* The chat *)

runChatCommand(u, command) ==
  LET v == [u EXCEPT !.popup = FALSE] IN
  CASE command = "/clear"    -> Did(v, "clear")
    [] command = "/stop"     -> Did(v, "stop")
    [] command = "/new"      -> {[v EXCEPT !.draft = "", !.did = "new"]}
    [] command = "/settings" -> {[v EXCEPT !.dropdown = "choice"]}

ChatCommands == {"/clear", "/stop", "/new", "/settings"}

\* An empty draft, a busy composer or a missing runner leaves the draft alone.
submitChatPrompt(u) ==
  {u} \cup (IF u.draft = "" THEN {}
            ELSE {[u EXCEPT !.draft = "", !.popup = FALSE, !.did = "submit"]})

\* The draft begins with "/" as long as something of a command is left.
Typed(u, key) ==
  LET draft == IF u.draft # "" THEN u.draft ELSE key
  IN [u EXCEPT !.draft = draft, !.popup = (draft = "slash")]

Deleted(u) == IF u.draft = "" THEN {u} ELSE {u, [u EXCEPT !.draft = ""]}

updateCustomKey(u, key) ==
  CASE key = "esc"   -> {[u EXCEPT !.custom = FALSE, !.dropdown = ""]}
    [] key = "enter" -> {u, [u EXCEPT !.custom = FALSE, !.dropdown = "", !.did = "set"]}
    [] OTHER         -> {u}

updateSystemKey(u, key) ==
  CASE key = "esc"   -> {[u EXCEPT !.system = FALSE]}
    [] key = "enter" -> {[u EXCEPT !.system = FALSE, !.dropdown = ""]}
    [] OTHER         -> {u}

\* The command that the popup selects is the first that begins with the draft.
ChatEnter(u) ==
  CASE u.popup /\ u.draft = ""      -> runChatCommand(u, "/clear")
    [] u.popup /\ u.draft = "slash" ->
         {u} \cup UNION {runChatCommand(u, c) : c \in ChatCommands}
    [] u.popup /\ u.draft = "text"  -> {u}
    [] OTHER                        -> submitChatPrompt(u)

updateComposerKey(u, key) ==
  CASE key = "esc" ->
         IF u.popup \/ u.dropdown # ""
         THEN {[u EXCEPT !.popup = FALSE, !.dropdown = ""]} ELSE Quit(u)
    [] key = "ctrl+h" -> Deleted(u)
    [] key = "backspace" ->
         {[v EXCEPT !.popup = (v.draft = "slash")] : v \in Deleted(u)}
    [] key = "shift+enter" -> {[u EXCEPT !.draft = IF @ = "" THEN "text" ELSE @]}
    [] key = "enter" -> ChatEnter(u)
    [] key \in {"text", "digit"} ->
         IF u.dropdown # "" THEN {u} ELSE {Typed(u, "text")}
    [] key = "slash" -> IF u.dropdown # "" THEN {u} ELSE {Typed(u, "slash")}
    [] OTHER -> {u}

\* Mutant: the text of a custom value goes to the composer.
XupdateChatKey(u, key) ==
  CASE key = "ctrl+c" -> Quit(u)
    [] key \in {"esc", "enter"} /\ u.custom -> updateCustomKey(u, key)
    [] u.system -> updateSystemKey(u, key)
    [] OTHER    -> updateComposerKey(u, key)

updateChatKey(u, key) ==
  CASE key = "ctrl+c" -> Quit(u)
    [] key # "ctrl+c" /\ u.custom -> updateCustomKey(u, key)
    [] key # "ctrl+c" /\ ~ u.custom /\ u.system -> updateSystemKey(u, key)
    [] OTHER -> updateComposerKey(u, key)

\* The system prompt opens its editor, any other setting its dropdown.
openChatSetting(u, system, numeric) ==
  LET v == [u EXCEPT !.popup = FALSE, !.custom = FALSE] IN
  IF system THEN {[v EXCEPT !.system = TRUE, !.dropdown = ""]}
  ELSE {[v EXCEPT !.system = FALSE, !.dropdown = IF numeric THEN "number" ELSE "choice"]}

\* An option is found by its label in any row below the setting, so one may be
\* hit while the popup shows a custom value, which then stays open.
applyChatDropdownOption(u) ==
  {[u EXCEPT !.dropdown = "", !.did = "set"]}
    \cup (IF u.dropdown = "number" THEN {[u EXCEPT !.custom = TRUE]} ELSE {})

\* A click on nothing closes what is open, except the system prompt.
ChatOutside(u) == {[u EXCEPT !.dropdown = "", !.popup = FALSE, !.custom = FALSE]}

-----------------------------------------------------------------------------
(* The other tabs *)

\* A digit picks a runner while the routes of a role are open, and a tab otherwise.
DigitKey(u) ==
  IF u.tab = "dashboard" /\ u.routes
  THEN {u, [u EXCEPT !.routes = FALSE, !.did = "route"]}
  ELSE {u} \cup cycleTab(u)

TextKey(u) ==
  {u} \cup
  CASE u.tab = "dashboard" -> IF u.routes THEN {} ELSE {[u EXCEPT !.routes = TRUE]}
    [] u.tab = "wizard" ->
         {[u EXCEPT !.modal = TRUE], [u EXCEPT !.command = TRUE], [u EXCEPT !.did = "set"]}
    [] u.tab = "runner" ->
         {[u EXCEPT !.edit = TRUE], [u EXCEPT !.did = "action"], [u EXCEPT !.did = "update"]}
    [] OTHER -> {}

\* Keys of a tab other than the chat.
updateTabKey(u, key) ==
  CASE key = "ctrl+c" -> Quit(u)
    [] u.menu /\ key # "ctrl+c" -> {IF key \in {"esc", "f1"} THEN CloseMenu(u) ELSE u}
    [] ~ u.menu /\ key = "esc" -> Quit(u)
    [] ~ u.menu /\ key = "f1" -> ToggleMenu(u)
    [] ~ u.menu /\ key = "tab" -> cycleTab(u)
    [] ~ u.menu /\ key = "arrow" -> {u} \cup cycleTab(u)
    [] ~ u.menu /\ key = "enter" -> IF u.tab = "wizard" THEN Did(u, "create") ELSE {u}
    [] ~ u.menu /\ key = "digit" -> DigitKey(u)
    [] ~ u.menu /\ key = "text" -> TextKey(u)
    [] OTHER -> {u}

\* The keys of the setup tab come before the global menu.
updateKey(u, key) ==
  CASE u.tab = "chat" -> updateChatKey(u, key)
    [] u.tab = "setup" /\ key = "enter" -> Did(u, "toggle")
    [] u.tab = "setup" /\ key = "text" -> Did(u, "toggle") \cup updateTabKey(u, key)
    [] OTHER -> updateTabKey(u, key)

\* updateOptionModalKey and updateWizardCommandEditKey.
updateEditorKey(u, key, closed) ==
  CASE key = "ctrl+c" -> Quit(u)
    [] key = "esc"    -> {closed}
    [] key = "enter"  -> Did(closed, "set")
    [] OTHER          -> {u}

updateEditKey(u, key) ==
  CASE key = "ctrl+c" -> Quit(u)
    [] key = "esc"    -> {[u EXCEPT !.edit = FALSE]}
    [] key = "enter"  -> {[u EXCEPT !.edit = FALSE, !.did = "update"]}
    [] OTHER          -> {u}

\* Update on tea.KeyPressMsg.
Press(u, key) ==
  CASE u.ctx     -> {[u EXCEPT !.ctx = (key # "esc")]}
    [] ~ u.ctx /\ u.modal -> updateEditorKey(u, key, [u EXCEPT !.modal = FALSE])
    [] ~ u.ctx /\ ~ u.modal /\ u.command ->
         updateEditorKey(u, key, [u EXCEPT !.command = FALSE])
    [] ~ u.ctx /\ ~ u.modal /\ ~ u.command /\ u.edit -> updateEditKey(u, key)
    [] OTHER -> updateKey(u, key)

-----------------------------------------------------------------------------
(* Clicks *)

bottomActionSegments(u) ==
  {"menu", "next", "previous", "quit"}
    \cup (IF u.tab = "runner" THEN {"runner-action", "runner-edit-command"} ELSE {})
    \cup (IF u.tab = "chat" THEN {"chat-clear", "chat-new"} ELSE {})

GlobalMenuHits(u) ==
  (IF u.menu THEN {"global-tab", "global-palette", "global-quit"} ELSE {})
    \cup (IF u.menu /\ u.palette THEN {"global-palette-select"} ELSE {})

TabHits(u) ==
  CASE u.tab = "wizard" -> {"wizard-choice", "wizard-option", "wizard-command-edit",
                            "wizard-start"}
    [] u.tab = "dashboard" -> IF u.routes THEN {"dashboard-route-runner"} ELSE {}
    [] u.tab = "chat" -> {"chat-setting", "chat-send", "chat-command"}
         \cup (IF u.dropdown # "" THEN {"chat-dropdown-option"} ELSE {})
    [] OTHER -> {}

\* Mutant: the buttons of a tab stay under an editor of the command line.
XbuttonHitRegistry(u) ==
  bottomActionSegments(u) \cup GlobalMenuHits(u) \cup
  CASE u.ctx -> {"ctx-reset-option", "ctx-inspect-argv", "ctx-close"}
    [] ~ u.ctx /\ u.modal -> {"modal-save", "modal-clear", "modal-close"}
    [] OTHER -> TabHits(u) \cup IF u.command
                                THEN {"wizard-command-save", "wizard-command-close"} ELSE {}

buttonHitRegistry(u) ==
  bottomActionSegments(u) \cup GlobalMenuHits(u) \cup
  CASE u.ctx -> {"ctx-reset-option", "ctx-inspect-argv", "ctx-close"}
    [] ~ u.ctx /\ u.modal -> {"modal-save", "modal-clear", "modal-close"}
    [] ~ u.ctx /\ ~ u.modal /\ u.command -> {"wizard-command-save", "wizard-command-close"}
    [] OTHER -> TabHits(u)

handleChatHit(u, hit) ==
  CASE hit = "chat-clear"   -> runChatCommand(u, "/clear")
    [] hit = "chat-new"     -> runChatCommand(u, "/new")
    [] hit = "chat-send"    -> submitChatPrompt(u)
    [] hit = "chat-command" -> UNION {runChatCommand(u, c) : c \in ChatCommands}
    [] hit = "chat-setting" -> UNION {openChatSetting(u, s, n) : s, n \in BOOLEAN}
    [] hit = "chat-dropdown-option" -> applyChatDropdownOption(u)

handleWizardHit(u, hit) ==
  CASE hit = "wizard-choice"        -> Did(u, "set")
    [] hit = "wizard-option"        -> {[u EXCEPT !.modal = TRUE]}
    [] hit = "wizard-command-edit"  -> {[u EXCEPT !.command = TRUE]}
    [] hit = "wizard-start"         -> Did(u, "create")
    [] hit = "wizard-command-save"  -> {[u EXCEPT !.command = FALSE, !.did = "set"]}
    [] hit = "wizard-command-close" -> {[u EXCEPT !.command = FALSE]}
    [] hit = "ctx-reset-option"     -> {[u EXCEPT !.ctx = FALSE, !.did = "set"]}
    [] hit \in {"ctx-inspect-argv", "ctx-close"} -> {[u EXCEPT !.ctx = FALSE]}
    [] hit \in {"modal-save", "modal-clear"} -> {[u EXCEPT !.modal = FALSE, !.did = "set"]}
    [] hit = "modal-close"          -> {[u EXCEPT !.modal = FALSE]}

ChatHits   == {"chat-clear", "chat-new", "chat-send", "chat-command", "chat-setting",
               "chat-dropdown-option"}
WizardHits == {"wizard-choice", "wizard-option", "wizard-command-edit", "wizard-start",
               "wizard-command-save", "wizard-command-close", "ctx-reset-option",
               "ctx-inspect-argv", "ctx-close", "modal-save", "modal-clear", "modal-close"}

\* handleButtonHit and handleBottomBarOrRunnerHit.
handleButtonHit(u, hit) ==
  CASE hit \in ChatHits   -> handleChatHit(u, hit)
    [] hit \in WizardHits -> handleWizardHit(u, hit)
    [] hit = "menu"       -> ToggleMenu(u)
    [] hit \in {"next", "previous"}      -> cycleTab(u)
    [] hit \in {"quit", "global-quit"}   -> Quit(u)
    [] hit = "global-tab"                -> cycleTab(CloseMenu(u))
    [] hit = "global-palette"            -> {[u EXCEPT !.palette = TRUE]}
    [] hit = "global-palette-select"     -> {CloseMenu(u)}
    [] hit = "runner-action"             -> Did(u, "action")
    [] hit = "runner-edit-command"       -> {[u EXCEPT !.edit = TRUE]}
    [] hit = "dashboard-route-runner"    -> {[u EXCEPT !.routes = FALSE, !.did = "route"]}

\* A click on the body of a tab, where no button is.
BodyClick(u) ==
  CASE u.tab = "dashboard" -> {u, [u EXCEPT !.routes = TRUE]}
    [] u.tab = "wizard"    -> {[u EXCEPT !.modal = TRUE], [u EXCEPT !.did = "set"],
                               [u EXCEPT !.did = "create"]}
    [] u.tab = "setup"     -> {u} \cup Did(u, "toggle")
    [] u.tab = "chat"      -> {u} \cup ChatOutside(u)
    [] u.tab = "runner"    -> {u, [u EXCEPT !.edit = TRUE]} \cup Did(u, "action")

\* handleGlobalMenuClick, handleTabClick and the mouse handlers of the tabs.
ElsewhereClick(u) ==
  IF u.menu THEN {CloseMenu(u)} \cup cycleTab(CloseMenu(u)) \cup Quit([u EXCEPT !.palette = FALSE])
                   \cup {[u EXCEPT !.palette = TRUE]} \cup BodyClick(u)
  ELSE cycleTab(u) \cup BodyClick(u)

rightClick(u) == IF u.tab = "wizard" THEN {u, [u EXCEPT !.ctx = TRUE]} ELSE {u}

\* Update on tea.MouseClickMsg.
LeftClick(u) ==
  LET hits == UNION {handleButtonHit(u, hit) : hit \in buttonHitRegistry(u)} IN
  CASE u.ctx -> hits \cup {u, [u EXCEPT !.ctx = FALSE]}
    [] ~ u.ctx /\ u.modal -> hits \cup {u, [u EXCEPT !.modal = FALSE]}
    [] ~ u.ctx /\ ~ u.modal /\ u.command -> hits \cup {u}
    [] OTHER -> hits \cup ElsewhereClick(u)

\* The editors of the wizard take no right click.
RightClick(u) == IF ~ u.ctx /\ (u.modal \/ u.command) THEN {u} ELSE rightClick(u)

-----------------------------------------------------------------------------
Key(key) == /\ ~ focus.quit
            /\ event' = key
            /\ focus' \in Press([focus EXCEPT !.did = ""], key)

Click == /\ ~ focus.quit
         /\ event' = "click"
         /\ focus' \in LeftClick([focus EXCEPT !.did = ""]) \cup RightClick([focus EXCEPT !.did = ""])

\* The answer of a command or an API client selects a tab; that of a route
\* closes the routes of its role.
Selected == /\ ~ focus.quit
            /\ event' = "select"
            /\ \E t \in TabNames, routes \in {focus.routes, FALSE} :
                 focus' = [focus EXCEPT !.tab = t, !.routes = routes, !.did = ""]

FocusNext == Click \/ Selected \/ \E key \in Keys : Key(key)

FocusSpec == FocusInit /\ [][FocusNext]_focusVars

-----------------------------------------------------------------------------
(* Properties *)

\* At most one of the menu of an option, the editor of an option and the
\* editor of the command line is open: Update gives events to one of them.
OverlaysExclusive == /\ ~ (focus.ctx /\ focus.modal)
                     /\ ~ (focus.ctx /\ focus.command)
                     /\ ~ (focus.modal /\ focus.command)

\* What the user types into a custom value or the system prompt of the chat,
\* or into an editor that lies over it, never changes the composer's draft
\* and never sends it.
NothingLeaks ==
  [][event' \in Keys /\ (focus.custom \/ focus.system \/ focus.ctx \/ focus.modal \/ focus.command \/ focus.edit)
     /\ focus.tab = "chat"
     => focus'.draft = focus.draft /\ focus'.did \notin {"submit", "clear", "new", "stop"}]_focusVars
=============================================================================
