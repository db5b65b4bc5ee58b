------------------------------- MODULE Keyboard -------------------------------
(****************************************************************************)
(* Who gets a key: App.Update of src/internal/tui/app.go, the panes it      *)
(* routes keys to, and the events that open, close or change a pane under   *)
(* the user's hands.                                                        *)
(*                                                                          *)
(* Keys are told apart only as far as the routing does.  Of the chat input  *)
(* the model keeps whether it is empty, holds a message or a command; of a  *)
(* form of the agent whether it is live, in the pane, and asks for a        *)
(* confirmation.  What panes do with the keys they get is in ChatTurn,      *)
(* SurfacePane and RpcConsole, but for the form of the console, which is    *)
(* here: its params and presets, not methods typed by hand.  Scrolling,     *)
(* deleting from the chat input, the A2A-Version toggle and the focus       *)
(* between the console's fields are left out.                               *)
(****************************************************************************)
EXTENDS Naturals, Sequences, FiniteSets, Functions

CONSTANTS
    V1, V03,       \* the wire dialects
    None,          \* no session, no method, no call
    Presets,       \* the console's method presets of each dialect
    NoParams,      \* methods whose default params are empty
    HistorySize,   \* exchanges a console retains
    MaxTurns       \* turns in flight (bound)

ASSUME KeyboardAssumption ==
    /\ None \notin {V1, V03}
    /\ \A w \in {V1, V03} :
         /\ Presets[w] \in Seq(Range(Presets[w])) /\ Len(Presets[w]) > 0
         /\ None \notin Range(Presets[w])
    /\ HistorySize \in Nat \ {0} /\ MaxTurns \in Nat

VARIABLES
    pane, help,    \* App.pane, App.helpOpen
    chosen,        \* the user's own key showed the pane (history variable)
    draft,         \* App.input: "", "text" or "command"
    session,       \* the dialect of the session in use, or None
    connecting,    \* App.connecting
    forms,         \* whether the session's engine has a live surface
    widget, prompt,\* SurfacePane.widget # nil, SurfacePane.prompt # nil
    fetch, detail, \* a task call is out; TasksPane.detailID # ""
    pending,       \* App.pending # nil
    inflight,      \* App.inflight
    canceling,     \* cancelActive has cancelled what is in flight
    cons           \* the console: form, preset, history, call

connVars == <<session, connecting, forms, fetch>>
surfaceVars == <<widget, prompt>>
turnVars == <<pending, inflight, canceling>>
vars == <<pane, help, chosen, draft, connVars, surfaceVars, detail, turnVars, cons>>

Panes == {"transcript", "card", "surface", "tasks", "wire", "console"}
\* Letters, of which j scrolls and q leaves the card; and the chords of panes.
Letters == {"j", "q", "a"}
Chords == {"^t", "^g", "^f", "^k", "^w", "^e"}
Keys == Letters \union Chords \union {"esc", "enter", "f1"}

Visible(p, h) == ~h /\ p \in {"transcript", "wire"}
InputVisible == Visible(pane, help)

(* ------------------------------ help overlay ---------------------------- *)

\* The keys the overlay takes; any other closes it and is routed on.
HelpKeys == {"j", "esc", "f1"}
InHelp(k) ==
    /\ help /\ k \in HelpKeys
    /\ help' = (k = "j")
    /\ UNCHANGED <<pane, chosen, draft, connVars, surfaceVars, detail, turnVars, cons>>

Routed(k) == ~(help /\ k \in HelpKeys)

\* The user shows pane p.
Show(p) == pane' = p /\ chosen' = TRUE

(* ------------------------------ pane switches --------------------------- *)

\* q and esc leave the card before anything else could take them.
LeaveCardCanceling(k) ==                                           \* (variant)
    /\ Routed(k) /\ pane = "card" /\ k \in {"esc", "q"}
    /\ Show("transcript") /\ help' = FALSE
    /\ canceling' = (canceling \/ (k = "esc" /\ inflight > 0))
    /\ UNCHANGED <<draft, connVars, surfaceVars, detail, pending, inflight, cons>>
LeaveCard(k) ==
    /\ Routed(k) /\ pane = "card" /\ k \in {"esc", "q"}
    /\ Show("transcript") /\ help' = FALSE
    /\ UNCHANGED <<draft, connVars, surfaceVars, detail, turnVars, cons>>

\* cancelActive: what is cancelled ends on its own.
CancelActive ==
    /\ canceling' = (canceling \/ inflight > 0)
    /\ UNCHANGED <<pending, inflight>>

LeaveWire ==
    /\ Routed("esc") /\ pane = "wire"
    /\ Show("transcript") /\ help' = FALSE
    /\ CancelActive
    /\ UNCHANGED <<draft, connVars, surfaceVars, detail, cons>>

\* openSurface: a live surface is opened afresh, without a prompt.
OpenSurface(byUser) ==
    IF session # None /\ forms
      THEN pane' = "surface" /\ chosen' = byUser /\ widget' = TRUE /\ prompt' = FALSE
      ELSE UNCHANGED <<pane, chosen, surfaceVars>>

PaneOf == [c \in Chords |-> CASE c = "^t" -> "transcript" [] c = "^g" -> "card"
             [] c = "^k" -> "tasks" [] c = "^w" -> "wire" [] c = "^e" -> "console"
             [] c = "^f" -> "surface"]
PaneChord(k) ==
    /\ k \in Chords
    /\ help' = FALSE
    /\ IF k = "^f" THEN OpenSurface(TRUE) ELSE Show(PaneOf[k]) /\ UNCHANGED surfaceVars
    /\ UNCHANGED <<draft, connVars, detail, turnVars, cons>>

(* ----------------------- panes that own the keyboard -------------------- *)

\* SurfacePane.Update: a prompt takes the key and is gone, unless its widget
\* is gone before; then nothing takes any key.
InSurface(k) ==
    /\ Routed(k) /\ pane = "surface" /\ k \notin Chords
    /\ help' = FALSE
    /\ IF k = "esc" /\ ~prompt THEN Show("transcript") ELSE UNCHANGED <<pane, chosen>>
    /\ prompt' = (prompt /\ ~widget)
    /\ UNCHANGED <<draft, connVars, widget, detail, turnVars, cons>>

\* A button of the form asks to open a URL.
AskOpenUrl ==
    /\ ~help /\ pane = "surface" /\ widget /\ ~prompt
    /\ prompt' = TRUE
    /\ UNCHANGED <<pane, help, chosen, draft, connVars, widget, detail, turnVars, cons>>

\* A button of the form sends an action, and the view goes back to the chat.
SendAction ==
    /\ ~help /\ pane = "surface" /\ widget /\ ~prompt /\ session # None
    /\ inflight < MaxTurns
    /\ inflight' = inflight + 1
    /\ Show("transcript")
    /\ UNCHANGED <<help, draft, connVars, surfaceVars, detail, pending, canceling, cons>>

\* esc closes the detail, or else the pane; enter asks for a detail.
InTasks(k) ==
    /\ Routed(k) /\ pane = "tasks" /\ k \notin Chords
    /\ help' = FALSE
    /\ IF k = "esc" /\ ~detail THEN Show("transcript") ELSE UNCHANGED <<pane, chosen>>
    /\ detail' = (detail /\ k # "esc")
    /\ fetch' = (fetch \/ (k = "enter" /\ ~detail /\ session # None))
    /\ UNCHANGED <<draft, session, connecting, forms, surfaceVars, turnVars, cons>>

(* ------------------------------ the console ----------------------------- *)

Blank == [method |-> None, params |-> ""]
Console0 == [form |-> Blank, preset |-> 1, hidx |-> 0,
             history |-> <<>>, out |-> Blank]

\* setDefaultsFor, cyclePreset: the params are filled only when empty.
Filled(f, m) ==
    [method |-> m,
     params |-> IF f.params # "" THEN f.params ELSE IF m \in NoParams THEN "" ELSE "json"]

\* SetTarget: reset, then the first preset.
SetTarget(w) == [Console0 EXCEPT !.form = Filled(Blank, Presets[w][1])]

InConsole ==
    /\ ~help /\ pane = "console"
    /\ UNCHANGED <<pane, help, chosen, draft, connVars, surfaceVars, detail, turnVars>>

\* The dialect whose presets are cycled: without a session the newer one.
Wire == IF session = V03 THEN V03 ELSE V1
CyclePreset(delta) ==
    LET list == Presets[Wire]
        n == Len(list)
        i == ((cons.preset - 1 + delta + n) % n) + 1
    IN cons' = [cons EXCEPT !.preset = i, !.form = Filled(@, list[i]), !.hidx = 0]

\* cycleHistory: the next older or newer exchange; past the newest the form is
\* blank.  An exchange without params leaves the params field as it is.
CycleHistory(delta) ==
    LET h == cons.history
        i == IF cons.hidx = 0 THEN Len(h)
             ELSE IF delta < 0 /\ cons.hidx = 1 THEN 1 ELSE cons.hidx + delta
    IN /\ session # None /\ h # <<>>
       /\ cons.hidx = 0 => delta < 0
       /\ cons' =
            IF i > Len(h) THEN [cons EXCEPT !.hidx = 0, !.form = Blank]
            ELSE [cons EXCEPT !.hidx = i,
                    !.form.method = h[i].method,
                    !.form.params = IF h[i].params = "" THEN @ ELSE h[i].params,
                    !.preset = CHOOSE j \in DOMAIN Presets[Wire] : Presets[Wire][j] = h[i].method]

\* Params that are typed, or deleted.
EditParams(p) == cons' = [cons EXCEPT !.form.params = p]

\* consoleSend and its early returns; params that are no JSON are left out.
ConsoleSend ==
    /\ session # None /\ cons.out = Blank
    /\ cons.form.method # None
    /\ cons' = [cons EXCEPT !.out = cons.form]

ConsoleKey ==
    /\ InConsole
    /\ \/ \E d \in {1, -1} : CyclePreset(d) \/ CycleHistory(d)
       \/ \E p \in {"", "json"} : EditParams(p)
       \/ ConsoleSend

EscConsole ==
    /\ Routed("esc") /\ pane = "console"
    /\ Show("transcript") /\ help' = FALSE
    /\ UNCHANGED <<draft, connVars, surfaceVars, detail, turnVars, cons>>

\* The call of the console in use returns: into its history, and shown.
ConsoleResult ==
    /\ cons.out # Blank
    /\ cons' = [cons EXCEPT !.out = Blank,
                  !.history = IF Len(@) < HistorySize THEN Append(@, cons.out)
                              ELSE Append(Tail(@), cons.out)]
    /\ UNCHANGED <<pane, help, chosen, draft, connVars, surfaceVars, detail, turnVars>>

(* ----------------------------- the chat input --------------------------- *)

\* esc with the transcript in view.
EscChat ==
    /\ Routed("esc") /\ pane = "transcript"
    /\ help' = FALSE
    /\ CancelActive
    /\ UNCHANGED <<pane, chosen, draft, connVars, surfaceVars, detail, cons>>

\* f1 reaches the overlay from the panes that do not own the keyboard.
OpenHelp ==
    /\ ~help /\ pane \in {"transcript", "card", "wire"}
    /\ help' = TRUE
    /\ UNCHANGED <<pane, chosen, draft, connVars, surfaceVars, detail, turnVars, cons>>

\* A letter reaches the input if it is visible; a card scrolls or drops it.
TypeHidden(k, d) ==                                                \* (variant)
    /\ Routed(k) /\ k \in Letters /\ pane \in {"transcript", "card", "wire"}
    /\ ~(pane = "card" /\ k = "q")
    /\ help' = FALSE
    /\ draft' = IF draft = "" THEN d ELSE draft
    /\ UNCHANGED <<pane, chosen, connVars, surfaceVars, detail, turnVars, cons>>
Type(k, d) ==
    /\ Routed(k) /\ k \in Letters /\ pane \in {"transcript", "card", "wire"}
    /\ ~(pane = "card" /\ k = "q")
    /\ help' = FALSE
    /\ draft' = IF Visible(pane, FALSE) /\ draft = "" THEN d ELSE draft
    /\ UNCHANGED <<pane, chosen, connVars, surfaceVars, detail, turnVars, cons>>

\* enter: submit, which does not ask whether the input is visible.
EnterReaches == Routed("enter") /\ pane \in {"transcript", "card", "wire"}

SubmitEmpty ==
    /\ EnterReaches /\ draft = ""
    /\ help' = FALSE
    /\ UNCHANGED <<pane, chosen, draft, connVars, surfaceVars, detail, turnVars, cons>>

\* sendText, or without a session the message stays.
SubmitText ==
    /\ EnterReaches /\ draft = "text"
    /\ help' = FALSE
    /\ IF session = None THEN UNCHANGED <<draft, pending, inflight>>
       ELSE /\ inflight < MaxTurns
            /\ draft' = "" /\ pending' = FALSE /\ inflight' = inflight + 1
    /\ UNCHANGED <<pane, chosen, connVars, surfaceVars, detail, canceling, cons>>

\* /disconnect
DisconnectKeepingForm ==                                           \* (variant)
    /\ session' = None /\ forms' = FALSE
    /\ UNCHANGED <<widget, prompt>>
    /\ detail' = FALSE
    /\ pending' = FALSE /\ inflight' = 0 /\ canceling' = FALSE
    /\ cons' = Console0
    /\ pane' = IF pane \in {"surface", "tasks", "console"} THEN "transcript" ELSE pane
    /\ help' = FALSE
    /\ UNCHANGED <<chosen, connecting, fetch>>
Disconnect ==
    /\ session' = None /\ forms' = FALSE
    /\ widget' = FALSE /\ prompt' = FALSE
    /\ detail' = FALSE
    /\ pending' = FALSE /\ inflight' = 0 /\ canceling' = FALSE
    /\ cons' = Console0
    /\ pane' = IF pane \in {"surface", "tasks", "console"} THEN "transcript" ELSE pane
    /\ help' = FALSE
    /\ UNCHANGED <<chosen, connecting, fetch>>

\* Commands that show a pane; /wire and /chat as the chords do, /surface too.
CommandShows(p) ==
    /\ IF p = "surface" THEN OpenSurface(TRUE) ELSE Show(p) /\ UNCHANGED surfaceVars
    /\ help' = FALSE
    /\ UNCHANGED <<connVars, detail, turnVars, cons>>

\* /connect, unless an attempt is on its way.
CommandConnects ==
    /\ connecting' = TRUE /\ help' = FALSE
    /\ UNCHANGED <<pane, chosen, session, forms, fetch, surfaceVars, detail, turnVars, cons>>

\* /task, /history, /cancel
CommandAsks ==
    /\ fetch' = (fetch \/ session # None) /\ help' = FALSE
    /\ UNCHANGED <<pane, chosen, session, connecting, forms, surfaceVars, detail, turnVars, cons>>

SubmitCommand ==
    /\ EnterReaches /\ draft = "command"
    /\ draft' = ""
    /\ \/ \E p \in Panes : CommandShows(p)
       \/ /\ help' = TRUE                       \* /help
          /\ UNCHANGED <<pane, chosen, connVars, surfaceVars, detail, turnVars, cons>>
       \/ CommandConnects
       \/ CommandAsks
       \/ Disconnect

(* -------------------------------- events -------------------------------- *)

EventOnly == UNCHANGED <<help, draft>>

\* maybeAutoFocusSurface: a new form opens by itself only when the user does
\* nothing else.
IdleWhileTyping == ~pending /\ pane = "transcript"                 \* (variant)
Idle == ~pending /\ pane = "transcript" /\ draft = ""
FormArrives ==
    /\ session # None /\ ~forms
    /\ forms' = TRUE
    /\ IF Idle
         THEN pane' = "surface" /\ chosen' = FALSE /\ widget' = TRUE /\ prompt' = FALSE
         ELSE UNCHANGED <<pane, chosen, surfaceVars>>
    /\ EventOnly
    /\ UNCHANGED <<session, connecting, fetch, detail, turnVars, cons>>

\* The agent deletes the form: Sync drops the widget, and only the widget.
FormDeleted ==
    /\ forms
    /\ forms' = FALSE /\ widget' = FALSE
    /\ EventOnly
    /\ UNCHANGED <<pane, chosen, prompt, session, connecting, fetch, detail, turnVars, cons>>

\* A task asks for input, or reaches its end.
Question(b) ==
    /\ session # None /\ pending # b
    /\ pending' = b
    /\ EventOnly
    /\ UNCHANGED <<pane, chosen, connVars, surfaceVars, detail, inflight, canceling, cons>>

TurnEnds ==
    /\ inflight > 0
    /\ inflight' = inflight - 1
    /\ canceling' = (canceling /\ inflight > 1)
    /\ EventOnly
    /\ UNCHANGED <<pane, chosen, connVars, surfaceVars, detail, pending, cons>>

\* The result of a task call opens the detail view of the tasks pane.
DetailArrives ==
    /\ fetch
    /\ fetch' = FALSE /\ detail' = TRUE
    /\ EventOnly
    /\ UNCHANGED <<pane, chosen, session, connecting, forms, surfaceVars, turnVars, cons>>

\* handleConnectResult
Connected(w) ==
    /\ connecting
    /\ connecting' = FALSE
    /\ session' = w /\ forms' = FALSE
    /\ widget' = FALSE /\ prompt' = FALSE
    /\ detail' = FALSE
    /\ pending' = FALSE
    /\ pane' = IF pane \in {"surface", "tasks"} THEN "transcript" ELSE pane
    /\ cons' = SetTarget(w)
    /\ EventOnly
    /\ UNCHANGED <<chosen, fetch, inflight, canceling>>

ConnectFailed ==
    /\ connecting
    /\ connecting' = FALSE
    /\ EventOnly
    /\ UNCHANGED <<pane, chosen, session, forms, fetch, surfaceVars, detail, turnVars, cons>>

(* ------------------------------------------------------------------------ *)

Init ==
    /\ pane = "transcript" /\ help = FALSE /\ chosen = TRUE /\ draft = ""
    /\ session = None /\ connecting = FALSE /\ forms = FALSE /\ fetch = FALSE
    /\ widget = FALSE /\ prompt = FALSE /\ detail = FALSE
    /\ pending = FALSE /\ inflight = 0 /\ canceling = FALSE
    /\ cons = Console0

Esc ==
    \/ InHelp("esc") \/ LeaveCard("esc") \/ LeaveWire \/ InSurface("esc")
    \/ InTasks("esc") \/ EscConsole \/ EscChat

Key ==
    \/ Esc
    \/ \E k \in Keys \ {"esc"} :
         InHelp(k) \/ LeaveCard(k) \/ PaneChord(k) \/ InSurface(k) \/ InTasks(k)
    \/ OpenHelp
    \/ \E k \in Letters, d \in {"text", "command"} : Type(k, d)
    \/ SubmitEmpty \/ SubmitText \/ SubmitCommand
    \/ AskOpenUrl \/ SendAction
    \/ ConsoleKey

Event ==
    \/ FormArrives \/ FormDeleted
    \/ \E b \in BOOLEAN : Question(b)
    \/ TurnEnds \/ DetailArrives \/ ConsoleResult
    \/ \E w \in {V1, V03} : Connected(w)
    \/ ConnectFailed

Next == Key \/ Event
Spec == Init /\ [][Next]_vars

(* ------------------------------ properties ------------------------------ *)

\* Every variable has its type.
TypeOK ==
    /\ pane \in Panes /\ draft \in {"", "text", "command"}
    /\ session \in {None, V1, V03}
    /\ {help, chosen, connecting, forms, widget, prompt, fetch, detail, pending, canceling}
         \subseteq BOOLEAN
    /\ inflight \in 0..MaxTurns
    /\ cons.hidx \in 0..Len(cons.history) /\ Len(cons.history) <= HistorySize
    /\ cons.preset \in DOMAIN Presets[Wire]

\* Esc never cancels a turn from behind a pane: only with the chat input in
\* view does it stop what is in flight.
CancelsInView == [][~canceling /\ canceling' => InputVisible]_vars

\* A message that was typed leaves the input only as a turn that is sent,
\* whatever panes, connections and answers came in between; and the input is
\* not touched while it is hidden, but for enter on the card or beneath the help,
\* which sends it.
DraftKept ==
    [][/\ draft = "text" /\ draft' # "text" => inflight' = inflight + 1
       /\ draft' # draft =>
            InputVisible \/ InputVisible' \/ ((pane = "card" \/ help) /\ draft' = "")]_vars

\* A form that opened by itself never sits over a message being written: the
\* keys go where they went before.
FocusDefers == pane = "surface" /\ ~chosen => draft = ""

\* Nothing of a session that is over is left on the screen, and what the
\* console offers to send, or has sent, is a method of the session's dialect.
NothingOfTheDead ==
    /\ TypeOK
    /\ session = None => pane # "surface" /\ ~widget /\ ~prompt /\ ~pending
    /\ session # None =>
         \A f \in {cons.form, cons.out} \union Range(cons.history) :
           f.method \in Range(Presets[session]) \union {None}
=============================================================================
