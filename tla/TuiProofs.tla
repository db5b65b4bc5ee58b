------------------------------ MODULE TuiProofs ------------------------------
(* Proofs about what the user looks at and types into: Keyboard, for any      *)
(* presets and turns.                                                         *)
EXTENDS Keyboard, SequenceTheorems, TLAPS

------------------------------------------------------------------------------
(* Keyboard.                                                                  *)

\* What the console may hold of the presets of a dialect.
Asked(w)    == [method : Range(Presets[w]), params : {"", "json"}]
Fillable(w) == [method : Range(Presets[w]) \union {None}, params : {"", "json"}]
Consoles(w) ==
    [form : Fillable(w), preset : DOMAIN Presets[w], hidx : Nat,
     history : Seq(Asked(w)), out : Asked(w) \union {Blank}]

\* What the console holds is of the session's dialect; without a session it has sent
\* nothing and has no past.
OfTheDialect ==
    /\ cons \in Consoles(Wire)
    /\ cons.hidx <= Len(cons.history) /\ Len(cons.history) <= HistorySize
    /\ session = None => cons.history = <<>> /\ cons.out = Blank

Flags ==
    /\ pane \in Panes /\ draft \in {"", "text", "command"} /\ session \in {None, V1, V03}
    /\ help \in BOOLEAN /\ chosen \in BOOLEAN /\ connecting \in BOOLEAN /\ forms \in BOOLEAN
    /\ widget \in BOOLEAN /\ prompt \in BOOLEAN /\ fetch \in BOOLEAN /\ detail \in BOOLEAN
    /\ pending \in BOOLEAN /\ canceling \in BOOLEAN
    /\ inflight \in 0..MaxTurns

\* No form, prompt or question without a session.
Left == session = None => pane # "surface" /\ ~widget /\ ~prompt /\ ~pending

Inv == Flags /\ Left /\ FocusDefers /\ OfTheDialect

LEMMA Dialects ==
    ASSUME NEW w \in {V1, V03}
    PROVE  /\ Presets[w] \in Seq(Range(Presets[w])) /\ Len(Presets[w]) \in Nat \ {0}
           /\ DOMAIN Presets[w] = 1..Len(Presets[w])
           /\ None \notin Range(Presets[w]) /\ w # None
           /\ \A i \in DOMAIN Presets[w] : Presets[w][i] \in Range(Presets[w])
<1>1. Presets[w] \in Seq(Range(Presets[w])) /\ Len(Presets[w]) > 0 /\ None \notin Range(Presets[w])
    BY KeyboardAssumption
<1>2. Len(Presets[w]) \in Nat /\ DOMAIN Presets[w] = 1..Len(Presets[w])
    BY <1>1, LenProperties
<1>3. \A i \in DOMAIN Presets[w] : Presets[w][i] \in Range(Presets[w])
    BY DEF Range
<1> QED
    BY <1>1, <1>2, <1>3, KeyboardAssumption

LEMMA WireIsADialect == Wire \in {V1, V03}
BY DEF Wire

LEMMA BlankIsFillable == \A w : Blank \in Fillable(w)
BY DEF Blank, Fillable

\* SetTarget, and a pane without a target.
LEMMA NewConsole ==
    ASSUME NEW w \in {V1, V03}
    PROVE  /\ Console0 \in Consoles(w) /\ SetTarget(w) \in Consoles(w)
           /\ Console0.hidx = 0 /\ Console0.history = <<>> /\ Console0.out = Blank
           /\ SetTarget(w).hidx = 0 /\ SetTarget(w).history = <<>> /\ SetTarget(w).out = Blank
<1>1. 1 \in DOMAIN Presets[w] /\ Presets[w][1] \in Range(Presets[w])
    BY Dialects
<1>2. <<>> \in Seq(Asked(w))
    OBVIOUS
<1>3. Console0 \in Consoles(w)
    BY <1>1, <1>2, BlankIsFillable DEF Console0, Consoles
<1>4. Filled(Blank, Presets[w][1]) \in Fillable(w)
    <2>1. Blank.params \in {"", "json"}
        BY DEF Blank
    <2> QED
        BY <2>1, <1>1 DEF Filled, Fillable
<1>5. SetTarget(w) = [Console0 EXCEPT !.form = Filled(Blank, Presets[w][1])]
    BY DEF SetTarget
<1>6. SetTarget(w) \in Consoles(w)
    BY <1>3, <1>4, <1>5 DEF Consoles
<1> QED
    BY <1>3, <1>5, <1>6 DEF Console0

\* cyclePreset goes round the presets.
LEMMA CyclesRound ==
    ASSUME OfTheDialect, NEW d \in {1, -1}, CyclePreset(d)
    PROVE  /\ cons' \in Consoles(Wire) /\ cons'.hidx = 0
           /\ cons'.history = cons.history /\ cons'.out = cons.out
<1> DEFINE w == Wire
           n == Len(Presets[w])
           i == ((cons.preset - 1 + d + n) % n) + 1
<1>1. w \in {V1, V03} /\ cons \in Consoles(w)
    BY WireIsADialect DEF OfTheDialect
<1>2. cons' = [cons EXCEPT !.preset = i, !.form = Filled(@, Presets[w][i]), !.hidx = 0]
    BY DEF CyclePreset
<1>3. n \in Nat \ {0} /\ cons.preset \in Int /\ DOMAIN Presets[w] = 1..n
    BY <1>1, Dialects DEF Consoles
<1>4. \A a \in Int : \A m \in Nat \ {0} : (a % m) + 1 \in 1..m
    OBVIOUS
<1>5. i \in DOMAIN Presets[w]
    <2>1. cons.preset - 1 + d + n \in Int
        BY <1>3
    <2> HIDE DEF n
    <2> QED
        BY <2>1, <1>3, <1>4
<1>6. Presets[w][i] \in Range(Presets[w])
    BY <1>1, <1>5, Dialects
<1> HIDE DEF i, w
<1>7. cons.form.params \in {"", "json"}
    BY <1>1 DEF Consoles, Fillable
<1>8. Filled(cons.form, Presets[w][i]) \in Fillable(w)
    BY <1>6, <1>7 DEF Filled, Fillable
<1>9. cons' \in Consoles(w)
    BY <1>1, <1>2, <1>5, <1>8 DEF Consoles
<1>10. cons'.hidx = 0 /\ cons'.history = cons.history /\ cons'.out = cons.out
    BY <1>1, <1>2 DEF Consoles
<1> QED
    BY <1>9, <1>10 DEF w

\* cycleHistory: what was sent before can be sent again.
LEMMA HistoryRecalled ==
    ASSUME OfTheDialect, NEW d \in {1, -1}, CycleHistory(d)
    PROVE  /\ cons' \in Consoles(Wire) /\ cons'.hidx <= Len(cons.history)
           /\ cons'.history = cons.history /\ cons'.out = cons.out
<1> DEFINE w == Wire
           h == cons.history
           i == IF cons.hidx = 0 THEN Len(h)
                ELSE IF d < 0 /\ cons.hidx = 1 THEN 1 ELSE cons.hidx + d
<1>1. w \in {V1, V03} /\ cons \in Consoles(w)
    BY WireIsADialect DEF OfTheDialect
<1>2. h \in Seq(Asked(w)) /\ Len(h) \in Nat /\ cons.hidx \in Nat /\ cons.hidx <= Len(h) /\ h # <<>>
    BY <1>1 DEF Consoles, OfTheDialect, CycleHistory
<1>3. i \in Nat \ {0}
    BY <1>2, EmptySeq
<1>4. CASE i > Len(h)
    <2>1. cons' = [cons EXCEPT !.hidx = 0, !.form = Blank]
        BY <1>4 DEF CycleHistory
    <2>2. cons' \in Consoles(w)
        BY <2>1, <1>1, BlankIsFillable DEF Consoles
    <2>3. cons'.hidx = 0 /\ cons'.history = cons.history /\ cons'.out = cons.out
        BY <2>1, <1>1 DEF Consoles
    <2> QED
        BY <2>2, <2>3, <1>2
<1>5. CASE i <= Len(h)
    <2> DEFINE p == IF h[i].params = "" THEN cons.form.params ELSE h[i].params
               j == CHOOSE j \in DOMAIN Presets[w] : Presets[w][j] = h[i].method
    <2>1. cons' = [cons EXCEPT !.hidx = i, !.form.method = h[i].method, !.form.params = p,
                               !.preset = j]
        BY <1>5, <1>3 DEF CycleHistory
    <2>2. h[i] \in Asked(w)
        BY <1>2, <1>3, <1>5, ElementOfSeq
    <2>3. j \in DOMAIN Presets[w]
        <3>1. h[i].method \in Range(Presets[w])
            BY <2>2 DEF Asked
        <3>2. \E k \in DOMAIN Presets[w] : Presets[w][k] = h[i].method
            BY <3>1 DEF Range
        <3> QED
            BY <3>2
    <2>4. cons.form \in Fillable(w)
        BY <1>1 DEF Consoles
    <2>5. [[cons.form EXCEPT !.method = h[i].method] EXCEPT !.params = p] \in Fillable(w)
        BY <2>2, <2>4 DEF Fillable, Asked
    <2> HIDE DEF i, j, p, h
    <2>6. cons' = [cons EXCEPT !.hidx = i, !.preset = j,
                     !.form = [[cons.form EXCEPT !.method = h[i].method] EXCEPT !.params = p]]
        BY <2>1, <2>4, <1>1 DEF Consoles, Fillable
    <2>7. cons' \in Consoles(w)
        BY <2>6, <2>5, <2>3, <1>1, <1>3 DEF Consoles
    <2>8. cons'.hidx = i /\ cons'.history = cons.history /\ cons'.out = cons.out
        BY <2>6, <1>1 DEF Consoles
    <2> QED
        BY <2>7, <2>8, <1>5 DEF h
<1> QED
    BY <1>2, <1>3, <1>4, <1>5

\* A key in the console leaves it in the session's dialect.
LEMMA KeyInConsole ==
    ASSUME Flags, OfTheDialect, ConsoleKey
    PROVE  OfTheDialect'
<1>0. session' = session /\ Wire' = Wire
    BY DEF ConsoleKey, InConsole, connVars, Wire
<1>1. /\ cons \in Consoles(Wire) /\ cons.hidx <= Len(cons.history)
      /\ Len(cons.history) <= HistorySize /\ Len(cons.history) \in Nat
      /\ session = None => cons.history = <<>> /\ cons.out = Blank
    BY DEF OfTheDialect, Consoles
<1> SUFFICES /\ cons' \in Consoles(Wire) /\ cons'.hidx <= Len(cons'.history)
             /\ cons'.history = cons.history
             /\ session = None => cons'.out = Blank
    BY <1>0, <1>1 DEF OfTheDialect
<1>2. CASE \E d \in {1, -1} : CyclePreset(d)
    BY <1>1, <1>2, CyclesRound
<1>3. CASE \E d \in {1, -1} : CycleHistory(d)
    BY <1>1, <1>3, HistoryRecalled
<1>4. ASSUME NEW p \in {"", "json"}, EditParams(p)
      PROVE  cons' \in Consoles(Wire) /\ cons'.hidx = cons.hidx
             /\ cons'.history = cons.history /\ cons'.out = cons.out
    BY <1>1, <1>4 DEF EditParams, Consoles, Fillable
<1>5. CASE ConsoleSend
    <2>1. cons.form \in Asked(Wire)
        BY <1>1, <1>5 DEF ConsoleSend, Consoles, Fillable, Asked
    <2> QED
        BY <2>1, <1>1, <1>5 DEF ConsoleSend, Consoles
<1> QED
    BY <1>1, <1>2, <1>3, <1>4, <1>5 DEF ConsoleKey

\* ConsoleResult: the call goes into the history, and the oldest out of a full one.
LEMMA ResultInHistory ==
    ASSUME Flags, OfTheDialect, ConsoleResult
    PROVE  OfTheDialect'
<1> DEFINE h == cons.history
           w == Wire
<1>0. session' = session /\ Wire' = Wire
    BY DEF ConsoleResult, connVars, Wire
<1>1. /\ cons \in Consoles(w) /\ cons.hidx \in Nat /\ cons.hidx <= Len(h)
      /\ Len(h) <= HistorySize /\ Len(h) \in Nat /\ h \in Seq(Asked(w))
      /\ cons.out \in Asked(w) /\ session # None
    BY DEF OfTheDialect, Consoles, ConsoleResult
<1> DEFINE g == IF Len(h) < HistorySize THEN Append(h, cons.out) ELSE Append(Tail(h), cons.out)
<1>2. cons' = [cons EXCEPT !.out = Blank, !.history = g]
    BY DEF ConsoleResult
<1>3. HistorySize \in Nat \ {0}
    BY KeyboardAssumption
<1> HIDE DEF h
<1>4. g \in Seq(Asked(w)) /\ Len(g) <= HistorySize /\ Len(h) <= Len(g)
    <2>1. CASE Len(h) < HistorySize
        <3>1. Append(h, cons.out) \in Seq(Asked(w)) /\ Len(Append(h, cons.out)) = Len(h) + 1
            BY <1>1, AppendProperties
        <3> QED
            BY <2>1, <3>1, <1>1, <1>3
    <2>2. CASE ~(Len(h) < HistorySize)
        <3>1. Len(h) = HistorySize /\ h # <<>>
            BY <2>2, <1>1, <1>3, EmptySeq
        <3>2. Tail(h) \in Seq(Asked(w)) /\ Len(Tail(h)) = Len(h) - 1
            BY <3>1, <1>1, HeadTailProperties
        <3>3. Append(Tail(h), cons.out) \in Seq(Asked(w))
              /\ Len(Append(Tail(h), cons.out)) = Len(h) - 1 + 1
            BY <3>2, <1>1, AppendProperties
        <3> QED
            BY <2>2, <3>1, <3>3, <1>1, <1>3
    <2> QED
        BY <2>1, <2>2
<1> HIDE DEF g, w
<1>5. cons' \in Consoles(w)
    BY <1>1, <1>2, <1>4 DEF Consoles
<1>6. cons'.hidx = cons.hidx /\ cons'.history = g
    BY <1>1, <1>2 DEF Consoles
<1>7. Len(g) \in Nat
    BY <1>4
<1> QED
    BY <1>0, <1>1, <1>4, <1>5, <1>6, <1>7 DEF OfTheDialect, w

\* A connection or its end gives the console a new target, or none.
LEMMA NewTarget ==
    ASSUME \/ \E w \in {V1, V03} : session' = w /\ cons' = SetTarget(w)
           \/ session' = None /\ cons' = Console0
    PROVE  OfTheDialect'
<1>1. ASSUME NEW w \in {V1, V03}, session' = w, cons' = SetTarget(w) PROVE OfTheDialect'
    <2>1. Wire' = w
        BY <1>1 DEF Wire
    <2> QED
        BY <1>1, <2>1, NewConsole, KeyboardAssumption DEF OfTheDialect
<1>2. CASE session' = None /\ cons' = Console0
    <2>1. Wire' \in {V1, V03}
        BY DEF Wire
    <2> QED
        BY <1>2, <2>1, NewConsole, KeyboardAssumption DEF OfTheDialect
<1> QED
    BY <1>1, <1>2

\* Every other step leaves the session and the console as they are.
LEMMA ConsoleSteps ==
    ASSUME [Next]_vars
    PROVE  \/ ConsoleKey \/ ConsoleResult
           \/ \E w \in {V1, V03} : session' = w /\ cons' = SetTarget(w)
           \/ session' = None /\ cons' = Console0
           \/ UNCHANGED <<session, cons>>
<1> USE DEF connVars
<1>1. CASE Esc
    BY <1>1 DEF Esc, InHelp, LeaveCard, LeaveWire, InSurface, InTasks, EscConsole, EscChat
<1>2. ASSUME NEW k, InHelp(k) \/ LeaveCard(k) \/ PaneChord(k) \/ InSurface(k) \/ InTasks(k)
      PROVE  UNCHANGED <<session, cons>>
    BY <1>2 DEF InHelp, LeaveCard, PaneChord, InSurface, InTasks
<1>3. CASE OpenHelp \/ SubmitEmpty \/ SubmitText \/ AskOpenUrl \/ SendAction
    BY <1>3 DEF OpenHelp, SubmitEmpty, SubmitText, AskOpenUrl, SendAction
<1>4. ASSUME NEW k, NEW d, Type(k, d) PROVE UNCHANGED <<session, cons>>
    BY <1>4 DEF Type
<1>5. CASE SubmitCommand
    BY <1>5 DEF SubmitCommand, CommandShows, CommandConnects, CommandAsks, Disconnect
<1>6. CASE FormArrives \/ FormDeleted \/ TurnEnds \/ DetailArrives \/ ConnectFailed
    BY <1>6 DEF FormArrives, FormDeleted, TurnEnds, DetailArrives, ConnectFailed
<1>7. ASSUME NEW b, Question(b) PROVE UNCHANGED <<session, cons>>
    BY <1>7 DEF Question
<1>8. ASSUME NEW w \in {V1, V03}, Connected(w)
      PROVE  session' = w /\ cons' = SetTarget(w)
    BY <1>8 DEF Connected
<1>9. CASE UNCHANGED vars
    BY <1>9 DEF vars
<1> QED
    BY <1>1, <1>2, <1>3, <1>4, <1>5, <1>6, <1>7, <1>8, <1>9 DEF Next, Key, Event

LEMMA DialectStep == Flags /\ OfTheDialect /\ [Next]_vars => OfTheDialect'
<1> SUFFICES ASSUME Flags, OfTheDialect, [Next]_vars PROVE OfTheDialect'
    OBVIOUS
<1>1. CASE UNCHANGED <<session, cons>>
    BY <1>1 DEF OfTheDialect, Wire
<1> QED
    BY <1>1, ConsoleSteps, KeyInConsole, ResultInHistory, NewTarget

------------------------------------------------------------------------------
\* Flags, and what is left of a session, step by step.
Kept == Flags' /\ Left' /\ FocusDefers'

LEMMA Opens ==
    ASSUME Flags, Left, FocusDefers, NEW b \in BOOLEAN, OpenSurface(b), session' = session,
           b \/ draft' = "", draft' \in {draft, ""}, pending' = pending
    PROVE  /\ pane' \in Panes /\ chosen' \in BOOLEAN /\ widget' \in BOOLEAN /\ prompt' \in BOOLEAN
           /\ Left' /\ FocusDefers'
BY DEF OpenSurface, Flags, Left, FocusDefers, surfaceVars, Panes

LEMMA MoreTurns ==
    ASSUME NEW m \in Nat, NEW i \in 0..m
    PROVE  0 \in 0..m /\ (i < m => i + 1 \in 0..m) /\ (i > 0 => i - 1 \in 0..m)
OBVIOUS

LEMMA PaneStep == Inv /\ [Next]_vars => Kept
<1> SUFFICES ASSUME Inv, [Next]_vars PROVE Kept
    OBVIOUS
<1> USE DEF Kept, connVars, surfaceVars, turnVars
<1>0. Flags /\ Left /\ FocusDefers
    BY DEF Inv
<1>m. MaxTurns \in Nat /\ None \notin {V1, V03}
    BY KeyboardAssumption
<1>1. ASSUME NEW k, InHelp(k) PROVE Kept
    BY ZenonT(40), <1>0, <1>1 DEF InHelp, Flags, Left, FocusDefers
<1>2. ASSUME NEW k, LeaveCard(k) PROVE Kept
    BY ZenonT(40), <1>0, <1>2 DEF LeaveCard, Show, Panes, Flags, Left, FocusDefers
<1>3. CASE LeaveWire \/ EscChat
    <2>1. canceling' \in BOOLEAN
        BY <1>0, <1>3 DEF LeaveWire, EscChat, CancelActive, Flags
    <2>2. /\ \/ pane' = "transcript" /\ chosen' = TRUE
             \/ pane' = pane /\ chosen' = chosen /\ pane = "transcript"
          /\ help' = FALSE
          /\ UNCHANGED <<draft, connVars, surfaceVars, detail, pending, inflight>>
        BY <1>3 DEF LeaveWire, EscChat, CancelActive, Show
    <2> QED
        BY ZenonT(40), <2>1, <2>2, <1>0 DEF Panes, Flags, Left, FocusDefers
<1>4. ASSUME NEW k \in Keys, PaneChord(k) PROVE Kept
    <2>1. CASE k = "^f"
        <3>1. OpenSurface(TRUE) /\ help' = FALSE
              /\ UNCHANGED <<draft, connVars, detail, turnVars, cons>>
            BY <1>4, <2>1 DEF PaneChord
        <3>2. /\ pane' \in Panes /\ chosen' \in BOOLEAN /\ widget' \in BOOLEAN /\ prompt' \in BOOLEAN
              /\ Left' /\ FocusDefers'
            BY <3>1, <1>0, Opens
        <3> QED
            BY <3>1, <3>2, <1>0 DEF Flags
    <2>2. CASE k # "^f"
        <3>1. PaneOf[k] \in Panes /\ PaneOf[k] # "surface"
            BY <1>4, <2>2 DEF PaneChord, PaneOf, Chords, Panes
        <3>2. pane' = PaneOf[k] /\ chosen' = TRUE /\ help' = FALSE
              /\ UNCHANGED <<surfaceVars, draft, connVars, detail, turnVars, cons>>
            BY <1>4, <2>2 DEF PaneChord, Show
        <3> QED
            BY ZenonT(40), <3>1, <3>2, <1>0 DEF Flags, Left, FocusDefers
    <2> QED
        BY <2>1, <2>2
<1>5. ASSUME NEW k, InSurface(k) PROVE Kept
    BY <1>0, <1>5 DEF InSurface, Show, Panes, Flags, Left, FocusDefers
<1>6. ASSUME NEW k, InTasks(k) PROVE Kept
    <2>1. detail' \in BOOLEAN /\ fetch' \in BOOLEAN
        BY <1>0, <1>6 DEF InTasks, Flags
    <2>2. \/ pane' = "transcript" /\ chosen' = TRUE
          \/ pane' = pane /\ chosen' = chosen /\ pane = "tasks"
        BY <1>6 DEF InTasks, Show
    <2>3. help' = FALSE /\ UNCHANGED <<draft, session, connecting, forms, surfaceVars, turnVars>>
        BY <1>6 DEF InTasks
    <2> QED
        BY ZenonT(40), <1>0, <2>1, <2>2, <2>3 DEF Panes, Flags, Left, FocusDefers
<1>7. CASE EscConsole \/ OpenHelp \/ SubmitEmpty \/ ConsoleKey \/ ConsoleResult
    <2>1. /\ \/ pane' = "transcript" /\ chosen' = TRUE
             \/ pane' = pane /\ chosen' = chosen
          /\ UNCHANGED <<draft, connVars, surfaceVars, detail, turnVars>>
        BY <1>7 DEF EscConsole, OpenHelp, SubmitEmpty, ConsoleKey, InConsole, ConsoleResult, Show
    <2>2. help' = help \/ help' = TRUE \/ help' = FALSE
        BY <1>7 DEF EscConsole, OpenHelp, SubmitEmpty, ConsoleKey, InConsole, ConsoleResult
    <2>3. help' \in BOOLEAN
        BY <2>2, <1>0 DEF Flags
    <2>4. Flags'
        <3>1. pane' \in Panes /\ chosen' \in BOOLEAN
            BY <2>1, <1>0 DEF Panes, Flags
        <3>2. UNCHANGED <<draft, connVars, surfaceVars, detail, turnVars>>
            BY <2>1
        <3> QED
            BY <3>1, <3>2, <2>3, <1>0 DEF Flags
    <2> QED
        BY <2>1, <2>4, <1>0 DEF Left, FocusDefers
<1>8. ASSUME NEW k \in Letters, NEW d \in {"text", "command"}, Type(k, d) PROVE Kept
    <2>1. /\ draft' \in {draft, d} /\ pane # "surface" /\ help' = FALSE
          /\ UNCHANGED <<pane, chosen, connVars, surfaceVars, detail, turnVars>>
        BY <1>8 DEF Type
    <2> QED
        BY ZenonT(40), <2>1, <1>0, <1>8 DEF Flags, Left, FocusDefers
<1>9. CASE SubmitText
    <2>1. /\ pane # "surface" /\ help' = FALSE /\ draft' \in {draft, ""} /\ pending' \in {pending, FALSE}
          /\ UNCHANGED <<pane, chosen, connVars, surfaceVars, detail, canceling>>
        BY <1>9 DEF SubmitText, EnterReaches
    <2>2. CASE session = None
        <3>1. inflight' = inflight
            BY <1>9, <2>2 DEF SubmitText
        <3> QED
            <4>1. pending' \in BOOLEAN /\ draft' \in {"", "text", "command"}
                BY <2>1, <1>0 DEF Flags
            <4>2. Flags'
                BY <2>1, <3>1, <4>1, <1>0 DEF Flags
            <4>3. pending' => pending
                BY <2>1
            <4> QED
                BY <2>1, <4>2, <4>3, <1>0 DEF Left, FocusDefers
    <2>3. CASE session # None
        <3>1. inflight < MaxTurns /\ inflight' = inflight + 1
            BY <1>9, <2>3 DEF SubmitText
        <3>2. inflight' \in 0..MaxTurns
            BY <3>1, <1>0, <1>m, MoreTurns DEF Flags
        <3>3. pending' \in BOOLEAN /\ draft' \in {"", "text", "command"}
            BY <2>1, <1>0 DEF Flags
        <3>4. Flags'
            BY <2>1, <3>2, <3>3, <1>0 DEF Flags
        <3> QED
            BY <2>1, <2>3, <3>4, <1>0 DEF Left, FocusDefers
    <2> QED
        BY <2>2, <2>3
<1>10. CASE SubmitCommand
    <2>1. draft' = "" /\ FocusDefers'
        BY <1>10 DEF SubmitCommand, FocusDefers
    <2>2. ASSUME NEW p \in Panes, CommandShows(p) PROVE Kept
        <3>1. help' = FALSE /\ UNCHANGED <<connVars, detail, turnVars, cons>>
            BY <2>2 DEF CommandShows
        <3>2. CASE p = "surface"
            <4>1. OpenSurface(TRUE)
                BY <2>2, <3>2 DEF CommandShows
            <4>2. /\ pane' \in Panes /\ chosen' \in BOOLEAN /\ widget' \in BOOLEAN
                  /\ prompt' \in BOOLEAN /\ Left'
                BY <4>1, <3>1, <2>1, <1>0, Opens
            <4> QED
                BY <4>2, <3>1, <2>1, <1>0 DEF Flags
        <3>3. CASE p # "surface"
            <4>1. pane' = p /\ chosen' = TRUE /\ UNCHANGED surfaceVars
                BY <2>2, <3>3 DEF CommandShows, Show
            <4> QED
                BY <4>1, <3>1, <3>3, <2>1, <1>0 DEF Flags, Left
        <3> QED
            BY <3>2, <3>3
    <2>3. CASE help' = TRUE /\ UNCHANGED <<pane, chosen, connVars, surfaceVars, detail, turnVars, cons>>
        BY <2>1, <2>3, <1>0 DEF Flags, Left
    <2>4. CASE CommandConnects
        BY <2>1, <2>4, <1>0 DEF CommandConnects, Flags, Left
    <2>5. CASE CommandAsks
        <3>1. fetch' \in BOOLEAN
            BY <2>5, <1>0 DEF CommandAsks, Flags
        <3> QED
            BY <3>1, <2>1, <2>5, <1>0 DEF CommandAsks, Flags, Left
    <2>6. CASE Disconnect
        <3>1. pane' \in Panes /\ pane' # "surface"
            BY <2>6, <1>0 DEF Disconnect, Flags, Panes
        <3> QED
            <4>1. inflight' \in 0..MaxTurns
                BY <2>6, <1>m DEF Disconnect
            <4>2. /\ session' = None /\ forms' = FALSE /\ widget' = FALSE /\ prompt' = FALSE
                  /\ detail' = FALSE /\ pending' = FALSE /\ canceling' = FALSE /\ help' = FALSE
                  /\ UNCHANGED <<chosen, connecting, fetch>>
                BY <2>6 DEF Disconnect
            <4> QED
                BY <4>1, <4>2, <3>1, <2>1, <1>0 DEF Flags, Left
    <2> QED
        BY <1>10, <2>2, <2>3, <2>4, <2>5, <2>6 DEF SubmitCommand
<1>11. CASE AskOpenUrl
    BY <1>0, <1>11 DEF AskOpenUrl, Flags, Left, FocusDefers
<1>12. CASE SendAction
    <2>1. inflight' \in 0..MaxTurns
        BY <1>0, <1>12, <1>m, MoreTurns DEF SendAction, Flags
    <2>2. /\ pane' = "transcript" /\ chosen' = TRUE
          /\ UNCHANGED <<help, draft, connVars, surfaceVars, detail, pending, canceling>>
        BY <1>12 DEF SendAction, Show
    <2> QED
        BY ZenonT(40), <2>1, <2>2, <1>0 DEF Panes, Flags, Left, FocusDefers
<1>13. CASE FormArrives
    <2>1. session # None /\ forms' = TRUE
          /\ UNCHANGED <<help, draft, session, connecting, fetch, detail, turnVars, cons>>
        BY <1>13 DEF FormArrives, EventOnly
    <2>2. CASE Idle
        <3>1. pane' = "surface" /\ chosen' = FALSE /\ widget' = TRUE /\ prompt' = FALSE /\ draft = ""
            BY <1>13, <2>2 DEF FormArrives, Idle
        <3> QED
            BY <3>1, <2>1, <1>0 DEF Flags, Left, FocusDefers, Panes
    <2>3. CASE ~Idle
        <3>1. UNCHANGED <<pane, chosen, surfaceVars>>
            BY <1>13, <2>3 DEF FormArrives
        <3> QED
            BY ZenonT(40), <3>1, <2>1, <1>0 DEF Flags, Left, FocusDefers
    <2> QED
        BY <2>2, <2>3
<1>14. CASE FormDeleted \/ DetailArrives \/ ConnectFailed
    <2>1. /\ \/ forms' = FALSE /\ widget' = FALSE /\ UNCHANGED <<connecting, fetch, detail>>
             \/ fetch' = FALSE /\ detail' = TRUE /\ UNCHANGED <<forms, widget, connecting>>
             \/ connecting' = FALSE /\ UNCHANGED <<forms, widget, fetch, detail>>
          /\ UNCHANGED <<pane, help, chosen, draft, prompt, session, turnVars>>
        BY <1>14 DEF FormDeleted, DetailArrives, ConnectFailed, EventOnly
    <2>2. Flags'
        <3>1. /\ forms' \in BOOLEAN /\ widget' \in BOOLEAN /\ connecting' \in BOOLEAN
              /\ fetch' \in BOOLEAN /\ detail' \in BOOLEAN
            BY <2>1, <1>0 DEF Flags
        <3>2. UNCHANGED <<pane, help, chosen, draft, prompt, session, turnVars>>
            BY <2>1
        <3> QED
            BY <3>1, <3>2, <1>0 DEF Flags
    <2>3. widget' => widget
        BY <2>1
    <2> QED
        BY <2>1, <2>2, <2>3, <1>0 DEF Left, FocusDefers
<1>15. ASSUME NEW b \in BOOLEAN, Question(b) PROVE Kept
    BY ZenonT(40), <1>0, <1>15 DEF Question, EventOnly, Flags, Left, FocusDefers
<1>16. CASE TurnEnds
    <2>1. canceling' \in BOOLEAN
        BY <1>0, <1>16 DEF TurnEnds, Flags
    <2>2. inflight' \in 0..MaxTurns
        BY <1>0, <1>16, <1>m, MoreTurns DEF TurnEnds, Flags
    <2> QED
        BY ZenonT(40), <2>1, <2>2, <1>0, <1>16 DEF TurnEnds, EventOnly, Flags, Left, FocusDefers
<1>17. ASSUME NEW w \in {V1, V03}, Connected(w) PROVE Kept
    <2>1. pane' \in {"transcript", pane} /\ pane' \in Panes /\ pane' # "surface"
        BY <1>0, <1>17 DEF Connected, Flags, Panes
    <2> QED
        BY <2>1, <1>0, <1>17, <1>m DEF Connected, EventOnly, Flags, Left, FocusDefers
<1>18. CASE UNCHANGED vars
    BY ZenonT(40), <1>0, <1>18 DEF vars, Flags, Left, FocusDefers
<1>19. CASE Key
    <2>1. CASE Esc
        BY <2>1, <1>1, <1>2, <1>3, <1>5, <1>6, <1>7 DEF Esc
    <2> QED
        BY <1>19, <2>1, <1>1, <1>2, <1>4, <1>5, <1>6, <1>7, <1>8, <1>9, <1>10, <1>11, <1>12 DEF Key
<1>20. CASE Event
    BY <1>20, <1>7, <1>13, <1>14, <1>15, <1>16, <1>17 DEF Event
<1> QED
    BY <1>18, <1>19, <1>20 DEF Next

LEMMA InitInv == Init => Inv
<1> SUFFICES ASSUME Init PROVE Inv
    OBVIOUS
<1>1. Flags /\ Left /\ FocusDefers
    <2>m. MaxTurns \in Nat
        BY KeyboardAssumption
    <2>0. inflight = 0
        BY DEF Init
    <2>1. inflight \in 0..MaxTurns
        BY <2>0, <2>m, MoreTurns
    <2> QED
        BY <2>1 DEF Init, Flags, Left, FocusDefers, Panes
<1>2. OfTheDialect
    <2>1. Wire \in {V1, V03}
        BY DEF Wire
    <2> QED
        <3>1. cons = Console0
            BY DEF Init
        <3>2. HistorySize \in Nat
            BY KeyboardAssumption
        <3>3. Console0 \in Consoles(Wire) /\ Console0.hidx = 0
              /\ Console0.history = <<>> /\ Console0.out = Blank
            BY <2>1, NewConsole
        <3> QED
            BY <3>1, <3>2, <3>3, EmptySeq DEF OfTheDialect
<1> QED
    BY <1>1, <1>2 DEF Inv

LEMMA StepInv == Inv /\ [Next]_vars => Inv'
BY PaneStep, DialectStep DEF Inv, Kept

LEMMA SpecInv == Spec => []Inv
BY InitInv, StepInv, PTL DEF Spec

\* What the console offers and has sent is of the dialect, hence what is left on the screen.
LEMMA InvIsSound == Inv => NothingOfTheDead
<1> SUFFICES ASSUME Inv PROVE NothingOfTheDead
    OBVIOUS
<1>1. /\ cons \in Consoles(Wire) /\ cons.hidx \in 0..Len(cons.history)
      /\ Len(cons.history) <= HistorySize /\ cons.preset \in DOMAIN Presets[Wire]
    BY DEF Inv, OfTheDialect, Consoles
<1>2. TypeOK
    <2>1. {help, chosen, connecting, forms, widget, prompt, fetch, detail, pending, canceling}
             \subseteq BOOLEAN
        BY DEF Inv, Flags
    <2> QED
        BY <1>1, <2>1 DEF TypeOK, Inv, Flags
<1>3. ASSUME session # None, NEW f \in {cons.form, cons.out} \union Range(cons.history)
      PROVE  f.method \in Range(Presets[session]) \union {None}
    <2>1. Wire = session
        BY <1>3 DEF Inv, Flags, Wire
    <2>2. cons.form.method \in Range(Presets[Wire]) \union {None}
        BY <1>1 DEF Consoles, Fillable
    <2>3. cons.out.method \in Range(Presets[Wire]) \union {None}
        <3>1. cons.out \in Asked(Wire) \/ cons.out = Blank
            BY <1>1 DEF Consoles
        <3>2. Blank.method = None
            BY DEF Blank
        <3> QED
            BY <3>1, <3>2 DEF Asked
    <2>4. ASSUME NEW i \in DOMAIN cons.history PROVE cons.history[i].method \in Range(Presets[Wire])
        <3>1. cons.history \in Seq(Asked(Wire)) /\ i \in 1..Len(cons.history)
            BY <1>1 DEF Consoles
        <3>2. cons.history[i] \in Asked(Wire)
            BY <3>1, ElementOfSeq
        <3> QED
            BY <3>2 DEF Asked
    <2> QED
        BY <1>3, <2>1, <2>2, <2>3, <2>4 DEF Range
<1> QED
    BY <1>2, <1>3 DEF NothingOfTheDead, Inv, Left

------------------------------------------------------------------------------
(* Theorems about the keyboard.                                               *)

\* A form of the agent that opened by itself never takes the keys from a message that
\* is being written (maybeAutoFocusSurface, App.Update).
THEOREM FormsDefer == Spec => []FocusDefers
BY SpecInv, PTL DEF Inv

\* Without a session no form, prompt or question is left, and the console holds only
\* methods of the dialect of the session in use (handleConnectResult, /disconnect,
\* SetTarget, cyclePreset, cycleHistory).
THEOREM NothingLeftOver == Spec => []NothingOfTheDead
BY SpecInv, InvIsSound, PTL

\* Esc cancels what is in flight only with the chat input in view (App.Update,
\* cancelActive).
THEOREM EscInView == Spec => CancelsInView
<1>1. ASSUME Inv, [Next]_vars, ~canceling, canceling' PROVE InputVisible
    <2>1. Flags
        BY <1>1 DEF Inv
    <2>2. LeaveWire \/ EscChat
        <3> USE DEF turnVars
        <3>1. ASSUME NEW k, InHelp(k) \/ LeaveCard(k) \/ PaneChord(k) \/ InSurface(k) \/ InTasks(k)
              PROVE  canceling' = canceling
            BY <3>1 DEF InHelp, LeaveCard, PaneChord, InSurface, InTasks
        <3>2. CASE EscConsole \/ OpenHelp \/ SubmitEmpty \/ SubmitText \/ AskOpenUrl \/ SendAction
                   \/ ConsoleKey \/ ConsoleResult
            BY <1>1, <3>2 DEF EscConsole, OpenHelp, SubmitEmpty, SubmitText, AskOpenUrl, SendAction,
                              ConsoleKey, InConsole, ConsoleResult
        <3>3. ASSUME NEW k, NEW d, Type(k, d) PROVE canceling' = canceling
            BY <3>3 DEF Type
        <3>4. CASE SubmitCommand
            BY <1>1, <3>4 DEF SubmitCommand, CommandShows, CommandConnects, CommandAsks, Disconnect
        <3>5. CASE FormArrives \/ FormDeleted \/ DetailArrives \/ ConnectFailed
            BY <1>1, <3>5 DEF FormArrives, FormDeleted, DetailArrives, ConnectFailed
        <3>6. CASE (\E b \in BOOLEAN : Question(b)) \/ (\E w \in {V1, V03} : Connected(w))
            BY <1>1, <3>6 DEF Question, Connected
        <3>7. CASE TurnEnds
            BY <1>1, <2>1, <3>7 DEF TurnEnds, Flags
        <3>8. CASE UNCHANGED vars
            BY <1>1, <3>8 DEF vars
        <3> QED
            BY <1>1, <3>1, <3>2, <3>3, <3>4, <3>5, <3>6, <3>7, <3>8 DEF Next, Key, Event, Esc
    <2> QED
        BY <2>1, <2>2 DEF LeaveWire, EscChat, Routed, HelpKeys, InputVisible, Visible, Flags
<1> QED
    BY <1>1, SpecInv, PTL DEF CancelsInView, Spec

\* A message leaves the input only as a turn, and nothing touches the input while it is
\* not in view but enter, which sends it (App.Update, submit).
THEOREM DraftsAreKept == Spec => DraftKept
<1> DEFINE Sent == draft = "text" /\ draft' # "text" => inflight' = inflight + 1
           Seen == draft' # draft =>
                     InputVisible \/ InputVisible' \/ ((pane = "card" \/ help) /\ draft' = "")
<1>1. ASSUME Inv, [Next]_vars PROVE Sent /\ Seen
    <2>1. Flags
        BY <1>1 DEF Inv
    <2>2. \/ draft' = draft
          \/ \E k \in Letters, d \in {"text", "command"} : Type(k, d)
          \/ SubmitText \/ SubmitCommand
        <3>1. ASSUME NEW k, InHelp(k) \/ LeaveCard(k) \/ PaneChord(k) \/ InSurface(k) \/ InTasks(k)
              PROVE  draft' = draft
            BY <3>1 DEF InHelp, LeaveCard, PaneChord, InSurface, InTasks
        <3>2. CASE LeaveWire \/ EscChat \/ EscConsole \/ OpenHelp \/ SubmitEmpty \/ AskOpenUrl
                   \/ SendAction \/ ConsoleKey \/ ConsoleResult
            BY <3>2 DEF LeaveWire, EscChat, EscConsole, OpenHelp, SubmitEmpty, AskOpenUrl, SendAction,
                        ConsoleKey, InConsole, ConsoleResult
        <3>3. CASE FormArrives \/ FormDeleted \/ DetailArrives \/ ConnectFailed \/ TurnEnds
                   \/ (\E b \in BOOLEAN : Question(b)) \/ (\E w \in {V1, V03} : Connected(w))
            BY <3>3 DEF FormArrives, FormDeleted, DetailArrives, ConnectFailed, TurnEnds, Question,
                        Connected, EventOnly
        <3>4. CASE UNCHANGED vars
            BY <3>4 DEF vars
        <3> QED
            BY <1>1, <3>1, <3>2, <3>3, <3>4 DEF Next, Key, Event, Esc
    <2>3. ASSUME NEW k \in Letters, NEW d \in {"text", "command"}, Type(k, d) PROVE Sent /\ Seen
        <3>1. draft' = draft \/ (draft = "" /\ Visible(pane, FALSE) /\ pane' = pane /\ help' = FALSE)
            BY <2>3 DEF Type
        <3> QED
            BY <3>1 DEF InputVisible, Visible
    <2>4. ASSUME EnterReaches PROVE InputVisible \/ pane = "card" \/ help
        BY <2>4 DEF EnterReaches, InputVisible, Visible
    <2>5. CASE SubmitText
        BY <2>4, <2>5 DEF SubmitText
    <2>6. CASE SubmitCommand
        BY <2>4, <2>6 DEF SubmitCommand
    <2> QED
        BY <2>2, <2>3, <2>5, <2>6
<1>2. Inv /\ [Next]_vars => [Sent /\ Seen]_vars
    BY <1>1
<1> QED
    BY <1>2, SpecInv, PTL DEF DraftKept, Spec
=============================================================================
