----------------------------- MODULE SurfacePane ----------------------------
(***************************************************************************)
(* A2UI forms in the app: messages of the agent that carry envelopes, the  *)
(* engine they are applied to, and the pane in which the user fills in one *)
(* surface while the agent keeps changing it.                              *)
(*                                                                         *)
(* All of it runs on the update loop; every action is one message of that  *)
(* loop.  What interleaves is the user, the agent, and answers to          *)
(* tasks/get, which bring the messages of a task once more.                *)
(*                                                                         *)
(* A component is a record:                                                *)
(*   kind "column"   children, a sequence of component names               *)
(*   kind "list"     of, the component shown once per row                  *)
(*   kind "text"     a text field, which writes every text through         *)
(*   kind "number"   a text field that writes what parses                  *)
(*   kind "date"     an editor of its own that does so                     *)
(*   kind "choice"   an input without a text of its own (check box,        *)
(*                   picker, slider)                                       *)
(*   kind "button"   act "event" or "openUrl"                              *)
(*   kind "static"   no input                                              *)
(* Inputs have a path: a field, or Relative, to the row they are shown for.*)
(***************************************************************************)
EXTENDS A2UIEngine

CONSTANTS
  Texts,           \* what an editor may show
  Empty,           \* the text of an empty editor
  Bad,             \* a text that is neither a number nor a date
  Relative,        \* a path within the row
  Messages,        \* messages of the agent: records of the envelopes they carry, and
                   \* whether they belong to the task the user looks at
  MaxHistory,      \* bound: messages of that task
  MaxFocusables    \* maxFocusables

Value == Texts \cup {NoValue}
Cell == Value \cup {Blocked}

\* What the agent may put into its envelopes.
IsSequence(s) == s \in Seq(Range(s))
IsComponents(cs) ==
  /\ IsFiniteSet(DOMAIN cs)
  /\ \A c \in DOMAIN cs :
       cs[c].kind \in {"text", "number", "date", "choice"} => cs[c].path \in Fields \cup {Relative}
  /\ Root \in DOMAIN cs => cs[Root].kind = "column" /\ IsSequence(cs[Root].children)
IsData(d) ==
  d = [field |-> d.field, rows |-> d.rows] /\ d.field \in [Fields -> Cell] /\ d.rows \in Seq(Value)
IsEnvelope(env) ==
  /\ env.id \in SurfaceIDs
  /\ \/ env.op = "createSurface" /\ IsComponents(env.components) /\ IsData(env.data)
     \/ env.op = "updateComponents" /\ IsComponents(env.components)
     \/ env.op = "replaceDataModel" /\ IsData(env.data)
     \/ env.op = "updateDataModel" /\ env.path \in Fields \cup Nat /\ env.value \in Value
     \/ env.op = "deleteSurface"

ASSUME PaneAssumption ==
  /\ {Empty, Bad} \subseteq Texts /\ Empty # Bad
  /\ {NoValue, Blocked} \cap Texts = {}
  /\ Relative \notin Fields
  /\ {MaxHistory, MaxFocusables} \subseteq Nat
ASSUME MessagesAssumption ==
  \A m \in Messages : /\ m.ofTask \in BOOLEAN
                       /\ IsSequence(m.envelopes)
                       /\ \A i \in DOMAIN m.envelopes : IsEnvelope(m.envelopes[i])

VARIABLES
  connected,   \* there is a session
  eng,         \* its engine
  widget,      \* the form in the pane, with its editors
  prompt,      \* the openUrl prompt is up
  pane,        \* "surface", or "transcript" for every other pane
  counted,     \* lastSurfaceCount
  history      \* the envelopes of the task's messages in this session, in their order

paneVars == <<connected, eng, widget, prompt, pane, counted, history>>

NoWidget == [id |-> 0, obj |-> 0, editors |-> <<>>, focused |-> 1, dirty |-> FALSE]
Active(w) == w.obj # 0

-----------------------------------------------------------------------------
(* The widget: editors over what its surface shows.                        *)

Strict == {"number", "date"}
HasText(kind) == kind \in {"text"} \cup Strict

\* A text field that becomes one for numbers is still a text field.
Type(kind) == IF kind = "number" THEN "text" ELSE kind
Show(v) == IF v = NoValue THEN Empty ELSE v

\* The inputs one child of the root stands for; what is unknown is a placeholder.
Instances(surface, name) ==
  LET comp(c) == surface.components[c]
      known(c) == c \in DOMAIN surface.components
      at(c, row) == [key |-> <<c, row>>, comp |-> comp(c)]
  IN  CASE ~known(name) -> <<>>
        [] known(name) /\ comp(name).kind # "list" -> <<at(name, 0)>>
        [] known(name) /\ comp(name).kind = "list" ->
             IF known(comp(name).of)
               THEN [i \in DOMAIN surface.data.rows |-> at(comp(name).of, i)]
               ELSE <<>>

\* An input needs a path to write to; buttons need none.
Focusable(x) ==
  \/ x.comp.kind = "button"
  \/ /\ HasText(x.comp.kind) \/ x.comp.kind = "choice"
     /\ x.comp.path = Relative => x.key[2] # 0

\* stray is no part of the program: it marks an editor whose text or dirty mark is not
\* that of an edit which reached the data model.
newFocusable(surface, x) ==
  LET button == x.comp.kind = "button"
      path == CASE button -> NoValue
                [] ~button /\ x.comp.path = Relative -> x.key[2]
                [] OTHER -> x.comp.path
  IN  [key   |-> x.key,
       kind  |-> x.comp.kind,
       path  |-> path,
       text  |-> IF HasText(x.comp.kind) THEN Show(Get(surface.data, path)) ELSE Empty,
       dirty |-> FALSE,
       last  |-> NoValue,
       stray |-> FALSE]

\* What the root shows, in display order.
Displayed(surface) ==
  LET children == surface.components[Root].children
  IN  FlattenSeq([i \in DOMAIN children |-> Instances(surface, children[i])])

\* The inputs among xs: the first occurrence of every key, up to the limit.
Inputs(xs) ==
  LET upTo[n \in 0..Len(xs)] ==
        IF n = 0 THEN <<>>
        ELSE IF \/ ~Focusable(xs[n])
                \/ Len(upTo[n - 1]) >= MaxFocusables
                \/ \E y \in Range(upTo[n - 1]) : y.key = xs[n].key
             THEN upTo[n - 1]
             ELSE Append(upTo[n - 1], xs[n])
  IN  upTo[Len(xs)]

collect(surface) ==
  LET xs == Inputs(Displayed(surface)) IN [i \in DOMAIN xs |-> newFocusable(surface, xs[i])]

\* Editor f takes over from its predecessor.  (variant): whatever the agent wrote
adoptAlways(f, old, data) ==
  IF f.kind = old.kind /\ HasText(f.kind) /\ old.dirty
    THEN [f EXCEPT !.text = old.text, !.dirty = TRUE, !.last = old.last] ELSE f

\* A text the user has typed stays as long as the model holds what it wrote.  An input of
\* another type starts afresh, but for the mark.
adopt(f, old, data) ==
  LET same == Type(f.kind) = Type(old.kind)
      holds == Get(data, f.path) = old.last
      carried == [f EXCEPT !.dirty = old.dirty, !.last = old.last]
  IN  CASE ~same -> [carried EXCEPT !.stray = old.dirty /\ ~holds]
        [] same /\ f.kind = "choice" -> carried
        [] same /\ HasText(f.kind) /\ old.dirty /\ holds ->
             [carried EXCEPT !.text = old.text, !.stray = old.stray]
        [] OTHER -> f

\* previous is the sequence of editors to take over from.
rebuild(w, surface, previous) ==
  LET fresh == collect(surface)
      kept(f) == LET olds == {o \in Range(previous) : o.key = f.key}
                 IN  IF olds = {} THEN f
                     ELSE adopt(f, CHOOSE o \in olds : TRUE, surface.data)
      es == [i \in DOMAIN fresh |-> kept(fresh[i])]
  IN  [id      |-> w.id,
       obj     |-> w.obj,
       editors |-> es,
       focused |-> IF es # <<>> /\ w.focused > Len(es) THEN Len(es) ELSE w.focused,
       dirty   |-> \E i \in DOMAIN es : es[i].dirty]

HasRoot(surface) == Root \in DOMAIN surface.components

\* (variant) the focus stays at its place in the list
RefreshByIndex(w, surface) ==
  IF HasRoot(surface) THEN rebuild(w, surface, w.editors) ELSE w

\* Focus follows the key it was on, if that is still shown.
RefreshWidget(w, surface) ==
  LET r == rebuild(w, surface, w.editors)
      same == {i \in DOMAIN r.editors : /\ w.focused \in DOMAIN w.editors
                                        /\ r.editors[i].key = w.editors[w.focused].key}
  IN  CASE ~HasRoot(surface) -> w
        [] HasRoot(surface) /\ same = {} -> r
        [] OTHER -> [r EXCEPT !.focused = CHOOSE i \in same : TRUE]

-----------------------------------------------------------------------------
(* The pane.                                                               *)

\* The pane has recorded the UpdatedAt of object n.
Recorded(e, n) == [live |-> e.live, heap |-> e.heap, recent |-> e.recent, synced |-> n]

\* The time stamp is that of the surface under the identifier; what is refreshed
\* is the widget over the object it was opened on.
Sync(e, w) ==
  LET n == e.live[w.id]
  IN  CASE ~Active(w) -> [eng |-> e, widget |-> w]
        [] Active(w) /\ n = 0 -> [eng |-> Freed(e, w.obj), widget |-> NoWidget]
        [] Active(w) /\ n # 0 /\ n = e.synced -> [eng |-> e, widget |-> w]
        [] Active(w) /\ n # 0 /\ n # e.synced ->
             [eng |-> Recorded(e, n), widget |-> RefreshWidget(w, e.heap[w.obj])]

CanOpen(e, s) == s \in LiveIDs(e) /\ HasRoot(e.heap[e.live[s]])

\* The widget over the surface that is live under s, with nothing carried over.
Opened(e, s) ==
  rebuild([id |-> s, obj |-> e.live[s], editors |-> <<>>, focused |-> 1, dirty |-> FALSE],
          e.heap[e.live[s]], <<>>)

\* Open on the engine e: without a root the pane stays as it is.
OpenPane(e, s) ==
  /\ eng' = Recorded(Freed(e, widget.obj), e.live[s])
  /\ widget' = Opened(e, s)
  /\ prompt' = FALSE

ClosePane ==
  /\ widget' = NoWidget
  /\ prompt' = FALSE

mostRecentSurface(e) == Last(e.recent)

-----------------------------------------------------------------------------
(* Messages of the agent.                                                  *)

\* There are more surfaces than before.
mayAutoFocus(e) == Cardinality(LiveIDs(e)) > counted /\ pane = "transcript"

\* An agent message: its envelopes, then the pane, then perhaps the new form.  A draft,
\* a parked question or one of the other panes keeps the keyboard where it is.
handleAgentEvent(m) ==
  /\ connected
  /\ m.ofTask => Len(history) < MaxHistory
  /\ LET s == Sync(Apply(eng, m.envelopes, widget.obj), widget)
         recent == mostRecentSurface(s.eng)
     IN  /\ counted' = Cardinality(LiveIDs(s.eng))
         /\ \/ /\ mayAutoFocus(s.eng)
               /\ CanOpen(s.eng, recent)
               /\ OpenPane(s.eng, recent)
               /\ pane' = "surface"
            \/ /\ eng' = s.eng
               /\ widget' = s.widget
               /\ UNCHANGED <<prompt, pane>>
  /\ history' = IF m.ofTask THEN Append(history, m.envelopes) ELSE history
  /\ UNCHANGED connected

\* The answer to /task, /history, the tasks pane, or a stream that was compacted: the
\* messages the task had when the agent answered.  They go through the engine, for the
\* transcript and once more for the detail view.
handleTaskResult ==
  /\ connected
  /\ \E k \in DOMAIN history :
       LET envelopes == FlattenSeq(SubSeq(history, 1, k) \o SubSeq(history, 1, k))
           s == Sync(Apply(eng, envelopes, widget.obj), widget)
       IN  eng' = s.eng /\ widget' = s.widget
  /\ UNCHANGED <<connected, prompt, pane, counted, history>>

\* A session of its own takes the place of what was there.
handleConnectResult ==
  /\ connected' = TRUE
  /\ eng' = NoEngine
  /\ ClosePane
  /\ pane' = "transcript"
  /\ counted' = 0
  /\ history' = <<>>

disconnect ==
  /\ pane # "surface"
  /\ connected' = FALSE
  /\ eng' = NoEngine
  /\ ClosePane
  /\ history' = <<>>
  /\ UNCHANGED <<pane, counted>>

-----------------------------------------------------------------------------
(* The user.                                                               *)

\* ctrl+f, or /surface with an identifier.
openSurface(s) ==
  /\ connected
  /\ CanOpen(eng, s)
  /\ OpenPane(eng, s)
  /\ pane' = "surface"
  /\ UNCHANGED <<connected, counted, history>>

\* Keys that show another pane, and esc, unless the prompt is up.
leavePane ==
  /\ pane = "surface"
  /\ pane' = "transcript"
  /\ UNCHANGED <<connected, eng, widget, prompt, counted, history>>

esc ==
  /\ ~prompt
  /\ leavePane

\* Any key answers the prompt, if there is a widget to take it.
answerPrompt ==
  /\ pane = "surface"
  /\ prompt
  /\ Active(widget)
  /\ prompt' = FALSE
  /\ UNCHANGED <<connected, eng, widget, pane, counted, history>>

\* A key goes to the form.
ToWidget == pane = "surface" /\ ~prompt /\ Active(widget)
Current == widget.editors[widget.focused]
HasFocus(kinds) == /\ widget.focused \in DOMAIN widget.editors
                   /\ Current.kind \in kinds

\* "[" and "]": the next live surface, in the order of the identifiers.
switchSurface(delta) ==
  LET ids == SetToSortSeq(LiveIDs(eng), <)
      next == CHOOSE k \in DOMAIN ids : \E j \in DOMAIN ids :
                ids[j] = widget.id /\ k = ((j - 1 + delta) % Len(ids)) + 1
  IN  /\ ToWidget
      /\ Len(ids) >= 2
      /\ CanOpen(eng, ids[next])
      /\ OpenPane(eng, ids[next])
      /\ UNCHANGED <<connected, pane, counted, history>>

\* Tab, shift+tab, arrows, and enter in an editor.
focusNext(delta) ==
  /\ ToWidget
  /\ widget.editors # <<>>
  /\ widget' = [widget EXCEPT !.focused = ((@ - 1 + delta) % Len(widget.editors)) + 1]
  /\ UNCHANGED <<connected, eng, prompt, pane, counted, history>>

\* The focused editor shows t.
WithText(w, t) == [w EXCEPT !.editors[w.focused].text = t]

\* The focused editor writes v; a write that fails leaves the model and the marks alone, and
\* what the editor shows is not in the model.
setValue(w, v) ==
  LET surface == eng.heap[w.obj]
      p == w.editors[w.focused].path
  IN  IF CanSet(surface.data, p)
        THEN /\ eng' = Write(eng, w.obj, [surface EXCEPT !.data = Set(@, p, v)], w.id)
             /\ widget' = [w EXCEPT !.editors[w.focused].dirty = TRUE,
                                    !.editors[w.focused].last = v,
                                    !.editors[w.focused].stray = FALSE,
                                    !.dirty = TRUE]
        ELSE eng' = eng /\ widget' = [w EXCEPT !.editors[w.focused].stray = TRUE]

\* A key in an editor; the text may be the same as before.  To such an editor Bad is a
\* text like any other.
updateTextField(t) ==
  /\ ToWidget
  /\ HasFocus({"text"})
  /\ setValue(WithText(widget, t), t)
  /\ UNCHANGED <<connected, prompt, pane, counted, history>>

\* Numbers and dates: what does not parse stays in the editor.
updateStrict(t) ==
  /\ ToWidget
  /\ HasFocus(Strict)
  /\ CASE t = Bad   -> eng' = eng /\ widget' = WithText(widget, t)
       [] t = Empty -> setValue(WithText(widget, t), NoValue)
       [] OTHER     -> setValue(WithText(widget, t), t)
  /\ UNCHANGED <<connected, prompt, pane, counted, history>>

\* Space or an arrow on an input that has no text of its own.
updateChoice(v) ==
  /\ ToWidget
  /\ HasFocus({"choice"})
  /\ setValue(widget, v)
  /\ UNCHANGED <<connected, prompt, pane, counted, history>>

\* A button whose checks pass fires an event: the edits are on their way.
fireEvent ==
  /\ ToWidget
  /\ HasFocus({"button"})
  /\ eng.heap[widget.obj].components[Current.key[1]].act = "event"
  /\ widget' = [widget EXCEPT !.dirty = FALSE,
                              !.editors = [i \in DOMAIN @ |-> [@[i] EXCEPT !.dirty = FALSE]]]
  /\ pane' = "transcript"
  /\ UNCHANGED <<connected, eng, prompt, counted, history>>

\* A button with an openUrl call asks first.
dispatch ==
  /\ ToWidget
  /\ HasFocus({"button"})
  /\ eng.heap[widget.obj].components[Current.key[1]].act = "openUrl"
  /\ prompt' = TRUE
  /\ UNCHANGED <<connected, eng, widget, pane, counted, history>>

-----------------------------------------------------------------------------
PaneInit ==
  /\ connected = FALSE
  /\ eng = NoEngine
  /\ widget = NoWidget
  /\ prompt = FALSE
  /\ pane = "transcript"
  /\ counted = 0
  /\ history = <<>>

Agent == (\E m \in Messages : handleAgentEvent(m)) \/ handleTaskResult

User ==
  \/ handleConnectResult \/ disconnect
  \/ \E s \in SurfaceIDs : openSurface(s)
  \/ leavePane \/ esc \/ answerPrompt
  \/ \E d \in {1, Len(widget.editors) - 1} : focusNext(d)
  \/ \E d \in {1, Cardinality(LiveIDs(eng)) - 1} : switchSurface(d)
  \/ \E t \in Texts \ {Bad} : updateTextField(t)
  \/ \E t \in Texts : updateStrict(t)
  \/ \E v \in Texts \ {Empty, Bad} : updateChoice(v)
  \/ fireEvent \/ dispatch

PaneNext == Agent \/ User
PaneSpec == PaneInit /\ [][PaneNext]_paneVars

-----------------------------------------------------------------------------
(* Properties.                                                             *)

Surface == eng.heap[widget.obj]
Identity(f) == <<f.key, f.kind, f.path>>
Identities(es) == [i \in DOMAIN es |-> Identity(es[i])]

\* No other editor of the form is bound to the same path.
Sole(es, i) == \A j \in DOMAIN es : es[j].path = es[i].path => j = i

\* Every variable has its type; the objects in use are apart, and the identifiers that
\* are live are those in the order of UpdatedAt.
PaneTypeOK ==
  /\ {connected, prompt} \subseteq BOOLEAN
  /\ pane \in {"transcript", "surface"}
  /\ eng.live \in [SurfaceIDs -> Objects \cup {0}]
  /\ \A s, u \in SurfaceIDs : s # u /\ eng.live[s] # 0 => eng.live[s] # eng.live[u]
  /\ Range(eng.recent) = LiveIDs(eng) /\ Len(eng.recent) = Cardinality(LiveIDs(eng))
  /\ \A n \in Objects : /\ Cardinality(DOMAIN eng.heap[n].components) <= MaxComponents
                        /\ \A f \in Fields : eng.heap[n].data.field[f] \in Cell
                        /\ Range(eng.heap[n].data.rows) \subseteq Value
  /\ \A i \in DOMAIN widget.editors : widget.editors[i].text \in Texts
  /\ Len(widget.editors) <= MaxFocusables
  /\ widget.editors # <<>> => widget.focused \in DOMAIN widget.editors
  /\ counted \in 0 .. Cardinality(SurfaceIDs)

\* The form in the pane is never older than its surface: it has exactly the inputs the
\* surface shows now, with their kinds and bindings, after every change by the agent
\* and every row that came or went.
ShowsItsSurface ==
  Active(widget) => Identities(widget.editors) = Identities(collect(Surface))

\* What an editor shows is what the agent will get: the text is the value in the data
\* model, unless it does not parse, its write failed, or the input has changed its type
\* under an edit (adopt).  Editors that share a path with another are left out: they catch up
\* with the next event only.
EditorsTrue ==
  \A i \in DOMAIN widget.editors :
    LET f == widget.editors[i]
    IN  HasText(f.kind) /\ Sole(widget.editors, i) =>
          \/ f.text = Show(Get(Surface.data, f.path))
          \/ f.text = Bad
          \/ f.stray

\* The pane shows no form whose surface the agent has deleted, and none of a session
\* that is over.
ClosedWithSurface ==
  Active(widget) => connected /\ eng.live[widget.id] # 0

\* "model edited" is shown exactly while some editor still on screen has an edit that no
\* action has carried out and no value of the agent has replaced.
DirtyIsSomeones ==
  widget.dirty <=> \E i \in DOMAIN widget.editors : widget.editors[i].dirty

\* A step in which the form stays where it is.
FormStays == Active(widget) /\ widget'.obj = widget.obj /\ pane' = pane

\* An editor with unsent edits loses its text, although the value under it is the same.
TypedOver ==
  \E i \in DOMAIN widget.editors, j \in DOMAIN widget'.editors :
    LET f == widget.editors[i]
        g == widget'.editors[j]
    IN  /\ HasText(f.kind) /\ f.dirty /\ ~f.stray /\ Sole(widget.editors, i)
        /\ Identity(g) = Identity(f)
        /\ Get(Surface'.data, f.path) = Get(Surface.data, f.path)
        /\ g.text # f.text

\* The editor that had the focus is still shown, and has it no more.
FocusMoves ==
  /\ widget.focused \in DOMAIN widget.editors
  /\ \E j \in DOMAIN widget'.editors : widget'.editors[j].key = Current.key
  /\ widget'.editors[widget'.focused].key # Current.key

\* The agent does not type over the user: an editor with unsent edits keeps its text, be
\* it unfinished, unless the agent has changed the value under it.
UserTextSurvives == [][FormStays /\ TypedOver => ~Agent]_paneVars

\* Nor does it move the cursor to another field: what had the focus keeps it as long as it
\* is shown, wherever it is now.
FocusStays == [][FormStays /\ FocusMoves => ~Agent]_paneVars

\* The form tells the truth: its inputs are those of its surface, their texts what the
\* agent will get, and its mark what was edited.
FormTrue == PaneTypeOK /\ ShowsItsSurface /\ EditorsTrue /\ DirtyIsSomeones

\* The agent takes neither the text nor the cursor out of the user's hands.
UserUndisturbed == UserTextSurvives /\ FocusStays
=============================================================================
