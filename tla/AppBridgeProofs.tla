--------------------------- MODULE AppBridgeProofs ---------------------------
(* The session in use is never deaf, for any number of connections, events   *)
(* and operations.  The invariant says what the latch means: it is set       *)
(* exactly while there is a session, and then somebody listens to it; and    *)
(* that the session in use has not been handed to Shutdown, so that its      *)
(* Done channel cannot send the listener home.                               *)
(*                                                                           *)
(* The bridge to the first connection implements EventFeed, and counts its   *)
(* operations exactly: no session before it has left an event behind, and it *)
(* has one listener, so one event at most is between the channel and the     *)
(* update loop.                                                              *)
EXTENDS AppBridge, FiniteSetTheorems, TLAPS

HeldFinite == \A s \in Sessions : IsFiniteSet(held[s])
Latched    == listening <=> session # None
InUse      == /\ session \notin retired
              /\ session <= made
              /\ \A s \in retired : s <= made
Inv        == TypeOK /\ HeldFinite /\ Latched /\ InUse /\ NeverDeaf

------------------------------------------------------------------------------
LEMMA NoneIsNoSession == None \notin Sessions
BY BridgeAssumption DEF None, Sessions

\* What Listening counts is a natural number, positive exactly if a listener
\* waits or has an event in hand.
LEMMA ListenersCount ==
    ASSUME NEW w \in Nat, NEW h, IsFiniteSet(h)
    PROVE  /\ w + Cardinality(h) \in Nat
           /\ w + Cardinality(h) > 0 <=> w > 0 \/ h # {}
<1>1. Cardinality(h) \in Nat /\ (Cardinality(h) = 0 <=> h = {})
    BY FS_CardinalityType, FS_EmptySet
<1> QED
    BY <1>1

\* Arming with the latch released: somebody waits on the session in use.
LEMMA Arming ==
    ASSUME TypeOK, NEW s \in Sessions \cup {None}, NEW latch \in BOOLEAN,
           ArmListener(s, latch), latch => s = None
    PROVE  /\ waiting' \in [Sessions -> Nat]
           /\ listening' \in BOOLEAN
           /\ s # None => listening' /\ waiting'[s] > 0
           /\ s = None => listening' = latch
<1>1. CASE s = None
    BY <1>1 DEF ArmListener, TypeOK
<1>2. CASE s # None
    <2>1. ~latch /\ listening' = TRUE /\ waiting' = [waiting EXCEPT ![s] = @ + 1]
        BY <1>2 DEF ArmListener
    <2>2. waiting[s] \in Nat /\ s \in Sessions
        BY <1>2 DEF TypeOK
    <2>3. waiting' \in [Sessions -> Nat] /\ waiting'[s] > 0
        BY <2>1, <2>2 DEF TypeOK
    <2>4. listening' \in BOOLEAN /\ listening'
        BY <2>1
    <2> QED
        BY <1>2, <2>3, <2>4
<1> QED
    BY <1>1, <1>2

------------------------------------------------------------------------------
LEMMA InitInv == Init => Inv
<1> SUFFICES ASSUME Init PROVE Inv
    OBVIOUS
<1> USE DEF Init
<1>1. TypeOK
    <2>1. made \in 0..MaxSessions
        BY BridgeAssumption
    <2>2. chan \in [Sessions -> Seq(Events)] /\ held \in [Sessions -> SUBSET Events]
        OBVIOUS
    <2>3. opState \in [Ops -> OpStates] /\ opSession \in [Ops -> Sessions \cup {None}]
        BY DEF OpStates
    <2>4. /\ published \in [Sessions -> Nat] /\ seen \in [Sessions -> Nat]
          /\ waiting \in [Sessions -> Nat] /\ inflight \in Nat
        OBVIOUS
    <2> QED
        BY <2>1, <2>2, <2>3, <2>4 DEF TypeOK
<1>2. HeldFinite
    BY FS_EmptySet DEF HeldFinite
<1> QED
    BY <1>1, <1>2 DEF Inv, Latched, InUse, NeverDeaf, None

\* A step that touches neither the session in use, the latch nor the listeners
\* cannot make the application deaf.
LEMMA Undisturbed ==
    ASSUME HeldFinite, Latched, InUse, NeverDeaf,
           UNCHANGED <<session, made, retired, listening, waiting, held>>
    PROVE  HeldFinite' /\ Latched' /\ InUse' /\ NeverDeaf'
BY DEF HeldFinite, Latched, InUse, NeverDeaf, Listening

LEMMA ConnectedInv ==
    ASSUME Inv, Connected
    PROVE  Inv'
<1> USE DEF Inv, Connected
<1>1. made + 1 \in Sessions
    BY BridgeAssumption DEF TypeOK, Sessions
<1>2. made + 1 # None
    BY <1>1, NoneIsNoSession
<1>3. ~(listening /\ session = None)
    BY DEF Latched
<1>4. waiting' \in [Sessions -> Nat] /\ listening' \in BOOLEAN /\ listening'
      /\ waiting'[made + 1] > 0
    BY <1>1, <1>2, <1>3, Arming
<1>5. TypeOK'
    <2>1. made' \in 0..MaxSessions
        BY <1>1 DEF Sessions, TypeOK
    <2>2. session' \in Sessions \cup {None} /\ retired' \subseteq Sessions /\ done' \subseteq retired'
        BY <1>1 DEF TypeOK
    <2> QED
        BY <1>4, <2>1, <2>2 DEF TypeOK, operations
<1>6. HeldFinite'
    BY DEF HeldFinite
<1>7. Listening(session)' > 0
    <2>1. waiting'[session'] \in Nat /\ waiting'[session'] > 0 /\ IsFiniteSet(held'[session'])
        BY <1>1, <1>4, <1>6 DEF HeldFinite
    <2> QED
        BY <2>1, ListenersCount DEF Listening
<1>8. session' # None /\ listening'
    BY <1>2, <1>4
<1>9. InUse'
    BY <1>5 DEF InUse, TypeOK, Sessions, None
<1> QED
    BY <1>5, <1>6, <1>7, <1>8, <1>9 DEF Latched, NeverDeaf

LEMMA DisconnectInv ==
    ASSUME Inv, Disconnect
    PROVE  Inv'
<1> USE DEF Inv, Disconnect
<1>1. TypeOK'
    BY DEF TypeOK, feeds, operations
<1>2. HeldFinite' /\ Latched' /\ NeverDeaf'
    BY DEF HeldFinite, Latched, NeverDeaf, feeds
<1>3. InUse'
    <2>1. None \notin retired /\ 0 <= made
        BY NoneIsNoSession DEF TypeOK
    <2> QED
        BY <2>1 DEF InUse, None
<1> QED
    BY <1>1, <1>2, <1>3

\* Starting an operation and canceling those of a session keep the types.
LEMMA CancelTyped ==
    ASSUME TypeOK, NEW s, Cancel(s)
    PROVE  opState' \in [Ops -> OpStates]
BY DEF TypeOK, Cancel, OpStates

LEMMA CommandsInv ==
    ASSUME Inv, StartConnect \/ ConnectFailed \/ Esc
                \/ (\E o \in ChatOps : SendText(o)) \/ (\E o \in SubOps : Subscribe(o))
    PROVE  Inv'
<1> USE DEF Inv
<1>1. ASSUME StartConnect \/ ConnectFailed PROVE Inv'
    <2>1. TypeOK'
        BY <1>1 DEF StartConnect, ConnectFailed, TypeOK, feeds, operations
    <2> QED
        BY <1>1, <2>1, Undisturbed DEF StartConnect, ConnectFailed, feeds
<1>2. ASSUME Esc PROVE Inv'
    <2>1. TypeOK'
        BY <1>2, CancelTyped DEF Esc, TypeOK, feeds, connection
    <2> QED
        BY <1>2, <2>1, Undisturbed DEF Esc, feeds, connection
<1>3. ASSUME NEW o \in Ops, session # None,
             opState' = [opState EXCEPT ![o] = "running"],
             opSession' = [opSession EXCEPT ![o] = session],
             inflight' \in Nat, UNCHANGED <<connection, listening, feeds>>
      PROVE  Inv'
    <2>1. opState' \in [Ops -> OpStates] /\ opSession' \in [Ops -> Sessions \cup {None}]
        BY <1>3 DEF TypeOK, OpStates
    <2>2. TypeOK'
        BY <1>3, <2>1 DEF TypeOK, feeds, connection
    <2> QED
        BY <1>3, <2>2, Undisturbed DEF feeds, connection
<1>4. ASSUME NEW o \in ChatOps, SendText(o) PROVE Inv'
    <2>1. inflight' \in Nat /\ o \in Ops
        BY <1>4 DEF SendText, TypeOK, Ops
    <2> QED
        BY <1>3, <1>4, <2>1 DEF SendText
<1>5. ASSUME NEW o \in SubOps, Subscribe(o) PROVE Inv'
    <2>1. inflight' \in Nat /\ o \in Ops
        BY <1>5 DEF Subscribe, TypeOK, Ops
    <2> QED
        BY <1>3, <1>5, <2>1 DEF Subscribe
<1> QED
    BY <1>1, <1>2, <1>4, <1>5

\* The event handler re-arms for whichever session is in use by then.
LEMMA AgentEventInv ==
    ASSUME Inv, NEW s \in Sessions, NEW e \in held[s], AgentEvent(s, e)
    PROVE  Inv'
<1> USE DEF Inv, AgentEvent
<1>1. session \in Sessions \cup {None} /\ session' = session
    BY DEF TypeOK, connection
<1>2. /\ waiting' \in [Sessions -> Nat] /\ listening' \in BOOLEAN
      /\ session # None => listening' /\ waiting'[session] > 0
      /\ session = None => listening' = FALSE
    BY <1>1, Arming
<1>3. e \in Events /\ held' \in [Sessions -> SUBSET Events]
    BY DEF TypeOK
<1>4. seen' \in [Sessions -> Nat] /\ inflight' \in Nat
    <2>1. e.n \in Nat
        BY <1>3 DEF Events
    <2>2. inflight' \in Nat
        BY DEF TypeOK
    <2> QED
        BY <2>1, <2>2 DEF TypeOK
<1>5. TypeOK'
    BY <1>2, <1>3, <1>4 DEF TypeOK, connection, operations
<1>6. HeldFinite'
    <2>1. \A r \in Sessions : held'[r] \subseteq held[r]
        BY DEF TypeOK
    <2> QED
        BY <2>1, FS_Subset DEF HeldFinite
<1>7. Latched'
    BY <1>1, <1>2 DEF Latched
<1>8. NeverDeaf'
    <2> SUFFICES ASSUME session' # None PROVE listening' /\ Listening(session)' > 0
        BY DEF NeverDeaf
    <2>1. session \in Sessions /\ listening' /\ waiting'[session] \in Nat /\ waiting'[session] > 0
          /\ IsFiniteSet(held'[session])
        BY <1>1, <1>2, <1>6 DEF HeldFinite
    <2> QED
        BY <1>1, <2>1, ListenersCount DEF Listening
<1>9. InUse'
    BY DEF InUse, connection
<1> QED
    BY <1>5, <1>6, <1>7, <1>8, <1>9

\* A listener that takes an event keeps counting, with the event in hand.
LEMMA ListenerTakesInv ==
    ASSUME Inv, NEW s \in Sessions, ListenerTakes(s)
    PROVE  Inv'
<1> USE DEF Inv, ListenerTakes
<1>1. Head(chan[s]) \in Events /\ Tail(chan[s]) \in Seq(Events)
    BY DEF TypeOK
<1>2. chan' \in [Sessions -> Seq(Events)] /\ held' \in [Sessions -> SUBSET Events]
    BY <1>1 DEF TypeOK
<1>3. waiting' \in [Sessions -> Nat]
    <2>1. waiting[s] \in Nat /\ waiting[s] - 1 \in Nat
        BY DEF TypeOK
    <2> QED
        BY <2>1 DEF TypeOK
<1>4. TypeOK'
    BY <1>2, <1>3 DEF TypeOK, connection, operations
<1>5. HeldFinite'
    <2> SUFFICES ASSUME NEW r \in Sessions PROVE IsFiniteSet(held'[r])
        BY DEF HeldFinite
    <2>1. IsFiniteSet(held[r]) /\ IsFiniteSet(held[r] \cup {Head(chan[s])})
        BY FS_AddElement DEF HeldFinite
    <2>2. held'[r] = held[r] \/ held'[r] = held[r] \cup {Head(chan[s])}
        BY DEF TypeOK
    <2> QED
        BY <2>1, <2>2
<1>6. session' = session /\ listening' = listening
    BY DEF connection
<1>7. NeverDeaf'
    <2> SUFFICES ASSUME session # None PROVE listening' /\ Listening(session)' > 0
        BY <1>6 DEF NeverDeaf
    <2>1. session \in Sessions
        BY DEF TypeOK
    <2>2. /\ waiting[session] \in Nat /\ IsFiniteSet(held[session])
          /\ waiting'[session] \in Nat /\ IsFiniteSet(held'[session])
        BY <1>3, <1>5, <2>1 DEF TypeOK, HeldFinite
    <2>3. waiting[session] > 0 \/ held[session] # {}
        BY <2>2, ListenersCount DEF NeverDeaf, Listening
    <2>4. waiting'[session] > 0 \/ held'[session] # {}
        <3>1. CASE s = session
            BY <3>1, <2>1 DEF TypeOK
        <3>2. CASE s # session
            BY <3>2, <2>1, <2>3 DEF TypeOK
        <3> QED
            BY <3>1, <3>2
    <2>5. Listening(session)' > 0
        BY <1>6, <2>2, <2>4, ListenersCount DEF Listening
    <2> QED
        BY <1>6, <2>5 DEF NeverDeaf
<1>8. InUse'
    BY DEF InUse, connection
<1> QED
    BY <1>4, <1>5, <1>6, <1>7, <1>8 DEF Latched

\* Only the listeners of a session that has shut down go home.
LEMMA ListenerQuitsInv ==
    ASSUME Inv, NEW s \in Sessions, ListenerQuits(s)
    PROVE  Inv'
<1> USE DEF Inv, ListenerQuits
<1>1. s # session
    BY DEF TypeOK, InUse
<1>2. waiting' \in [Sessions -> Nat]
    <2>1. waiting[s] \in Nat /\ waiting[s] - 1 \in Nat
        BY DEF TypeOK
    <2> QED
        BY <2>1 DEF TypeOK
<1>3. TypeOK'
    BY <1>2 DEF TypeOK, connection, operations
<1>4. session # None => session \in Sessions /\ waiting'[session] = waiting[session]
    BY <1>1 DEF TypeOK
<1>5. session' = session /\ listening' = listening /\ held' = held
    BY DEF connection
<1>6. NeverDeaf'
    BY <1>4, <1>5 DEF NeverDeaf, Listening
<1>7. HeldFinite' /\ Latched' /\ InUse'
    BY <1>5 DEF HeldFinite, Latched, InUse, connection
<1> QED
    BY <1>3, <1>6, <1>7

LEMMA BackgroundInv ==
    ASSUME Inv, Background
    PROVE  Inv'
<1> USE DEF Inv
<1>1. ASSUME NEW s \in Sessions, ShutdownSession(s) PROVE Inv'
    <2>1. TypeOK'
        BY <1>1, CancelTyped DEF ShutdownSession, TypeOK, feeds
    <2> QED
        BY <1>1, <2>1, Undisturbed DEF ShutdownSession, feeds
<1>2. ASSUME NEW s, NEW kind \in {"content", "done"}, Put(s, Event(s, kind))
      PROVE  chan' \in [Sessions -> Seq(Events)] /\ published' \in [Sessions -> Nat]
    <2>1. CASE s \in Sessions
        <3>1. published[s] + 1 \in Nat /\ Event(s, kind) \in Events
            BY <2>1 DEF TypeOK, Event, Events
        <3>2. Append(chan[s], Event(s, kind)) \in Seq(Events)
            BY <2>1, <3>1 DEF TypeOK
        <3> QED
            BY <1>2, <2>1, <3>1, <3>2 DEF Put, TypeOK
    <2>2. CASE s \notin Sessions
        BY <1>2, <2>2 DEF Put, TypeOK
    <2> QED
        BY <2>1, <2>2
<1>3. ASSUME NEW o \in Ops, OpPublishes(o) PROVE Inv'
    <2>1. chan' \in [Sessions -> Seq(Events)] /\ published' \in [Sessions -> Nat]
        BY <1>2, <1>3 DEF OpPublishes
    <2>2. TypeOK'
        BY <1>3, <2>1 DEF OpPublishes, TypeOK, connection, operations
    <2> QED
        BY <1>3, <2>2, Undisturbed DEF OpPublishes, connection
<1>4. ASSUME NEW o \in Ops, OpEnds(o) PROVE Inv'
    <2>1. chan' \in [Sessions -> Seq(Events)] /\ published' \in [Sessions -> Nat]
        BY <1>2, <1>4 DEF OpEnds, TypeOK
    <2>2. opState' \in [Ops -> OpStates]
        BY <1>4 DEF OpEnds, TypeOK, OpStates
    <2>3. TypeOK'
        BY <1>4, <2>1, <2>2 DEF OpEnds, TypeOK, connection
    <2> QED
        BY <1>4, <2>3, Undisturbed DEF OpEnds, connection
<1> QED
    BY <1>1, <1>3, <1>4 DEF Background

LEMMA StepInv ==
    ASSUME Inv, [Next]_vars
    PROVE  Inv'
<1>1. CASE UNCHANGED vars
    <2>1. TypeOK'
        BY <1>1 DEF vars, connection, feeds, operations, Inv, TypeOK
    <2> QED
        BY <1>1, <2>1, Undisturbed DEF vars, connection, feeds, Inv
<1>2. CASE UpdateLoop
    BY <1>2, ConnectedInv, DisconnectInv, CommandsInv DEF UpdateLoop
<1>3. CASE Delivery
    BY <1>3, AgentEventInv DEF Delivery
<1>4. CASE Listeners
    BY <1>4, ListenerTakesInv, ListenerQuitsInv DEF Listeners
<1>5. CASE Background
    BY <1>5, BackgroundInv
<1> QED
    BY <1>1, <1>2, <1>3, <1>4, <1>5 DEF Next

LEMMA InvAlways == Spec => []Inv
<1>1. Init => Inv
    BY InitInv
<1>2. Inv /\ [Next]_vars => Inv'
    BY StepInv
<1> QED
    BY <1>1, <1>2, PTL DEF Spec

------------------------------------------------------------------------------
(* The first connection.                                                     *)

Newest == session \in {None, made}
Fresh  == \A s \in Sessions :
            s > made => /\ waiting[s] = 0 /\ held[s] = {} /\ chan[s] = <<>>
                        /\ published[s] = 0 /\ seen[s] = 0
OpsOnMade == \A o \in Ops : opState[o] # "idle" => opSession[o] \in Sessions /\ opSession[o] <= made

\* The one listener of session 1 waits or has an event in hand.
OneInHand ==
    /\ waiting[1] \in {0, 1} /\ (waiting[1] = 1 => held[1] = {})
    /\ \A e, f \in held[1] : e = f

\* The events are numbered from the one handled last: that in hand, then the channel's.
InHand  == IF held[1] = {} THEN 0 ELSE 1
InOrder ==
    /\ \A e \in held[1] : e.n = seen[1] + 1
    /\ \A i \in 1..Len(chan[1]) : chan[1][i].n = seen[1] + InHand + i
    /\ published[1] = seen[1] + InHand + Len(chan[1])

FirstInv == /\ Newest /\ Fresh /\ OpsOnMade
            /\ 1 \in Sessions => OneInHand /\ InOrder

\* What a step may do to the feed of session 1.
Idles ==
    /\ chan'[1] = chan[1] /\ held'[1] = held[1]
    /\ published'[1] = published[1] /\ seen'[1] = seen[1]
    /\ \/ waiting'[1] = waiting[1]
       \/ waiting[1] > 0 /\ waiting'[1] = waiting[1] - 1
       \/ made = 0 /\ waiting'[1] = 1
Takes ==
    /\ waiting[1] > 0 /\ waiting'[1] = waiting[1] - 1
    /\ chan[1] # <<>> /\ chan'[1] = Tail(chan[1])
    /\ held'[1] = held[1] \cup {Head(chan[1])}
    /\ published'[1] = published[1] /\ seen'[1] = seen[1]
Handles ==
    /\ \E e \in held[1] : held'[1] = held[1] \ {e} /\ seen'[1] = e.n
    /\ waiting'[1] \in {waiting[1], waiting[1] + 1}
    /\ chan'[1] = chan[1] /\ published'[1] = published[1]
Publishes ==
    /\ \E kind \in {"content", "done"} : chan'[1] = Append(chan[1], Event(1, kind))
    /\ published'[1] = published[1] + 1
    /\ seen'[1] = seen[1] /\ held'[1] = held[1] /\ waiting'[1] = waiting[1]

LEMMA OperationOf ==
    ASSUME Inv, FirstInv, NEW o \in Ops, opState[o] \in {"running", "canceled"}
    PROVE  opSession[o] \in Sessions /\ opSession[o] <= made
BY DEF FirstInv, OpsOnMade

LEMMA FirstFrame ==
    ASSUME Inv, FirstInv, 1 \in Sessions, [Next]_vars
    PROVE  Idles \/ Takes \/ Handles \/ Publishes
<1>1. /\ waiting \in [Sessions -> Nat] /\ chan \in [Sessions -> Seq(Events)]
      /\ held \in [Sessions -> SUBSET Events]
      /\ published \in [Sessions -> Nat] /\ seen \in [Sessions -> Nat]
      /\ made \in Nat /\ session \in Sessions \cup {None}
      /\ Sessions \subseteq Nat /\ None = 0
    BY BridgeAssumption DEF Inv, TypeOK, Sessions, None
<1>2. CASE UNCHANGED feeds
    BY <1>2 DEF feeds, Idles
<1>3. CASE Connected
    <2>1. UNCHANGED <<chan, published, held, seen>>
        BY <1>3 DEF Connected
    <2>2. made + 1 \in Sessions
        BY <1>3, BridgeAssumption DEF Connected, Inv, TypeOK, Sessions
    <2>3. waiting[made + 1] = 0
        BY <1>1, <2>2 DEF FirstInv, Fresh
    <2>4. waiting' = waiting \/ waiting' = [waiting EXCEPT ![made + 1] = 1]
        BY <1>3, <2>3 DEF Connected, ArmListener
    <2>5. CASE made = 0
        BY <1>1, <2>1, <2>4, <2>5 DEF Idles
    <2>6. CASE made # 0
        <3>1. made + 1 # 1
            BY <1>1, <2>6
        <3>2. waiting'[1] = waiting[1]
            BY <1>1, <2>4, <3>1
        <3> QED
            BY <2>1, <3>2 DEF Idles
    <2> QED
        BY <2>5, <2>6
<1>4. ASSUME NEW s \in Sessions, NEW e \in held[s], AgentEvent(s, e)
      PROVE  Idles \/ Handles
    <2>1. /\ held' = [held EXCEPT ![s] = held[s] \ {e}] /\ seen' = [seen EXCEPT ![s] = e.n]
          /\ UNCHANGED <<chan, published>>
        BY <1>4 DEF AgentEvent
    <2>2. waiting' = waiting \/ waiting' = [waiting EXCEPT ![session] = waiting[session] + 1]
        BY <1>4 DEF AgentEvent, ArmListener
    <2>3. CASE s = 1
        <3>1. waiting'[1] \in {waiting[1], waiting[1] + 1}
            BY <1>1, <2>2
        <3>2. held'[1] = held[1] \ {e} /\ seen'[1] = e.n
            BY <1>1, <2>1, <2>3
        <3> QED
            BY <1>4, <2>1, <2>3, <3>1, <3>2 DEF Handles
    <2>4. CASE s # 1
        <3>1. ~(s > made) /\ s > 1
            BY <1>1, <1>4, <2>4 DEF FirstInv, Fresh, Sessions
        <3>2. session # 1
            BY <1>1, <3>1 DEF FirstInv, Newest
        <3>3. waiting'[1] = waiting[1] /\ held'[1] = held[1] /\ seen'[1] = seen[1]
            BY <1>1, <2>1, <2>2, <2>4, <3>2
        <3> QED
            BY <2>1, <3>3 DEF Idles
    <2> QED
        BY <2>3, <2>4
<1>5. ASSUME NEW s \in Sessions, ListenerTakes(s)
      PROVE  Idles \/ Takes
    <2>1. /\ waiting[s] > 0 /\ chan[s] # <<>>
          /\ waiting' = [waiting EXCEPT ![s] = waiting[s] - 1]
          /\ chan' = [chan EXCEPT ![s] = Tail(chan[s])]
          /\ held' = [held EXCEPT ![s] = held[s] \cup {Head(chan[s])}]
          /\ UNCHANGED <<published, seen>>
        BY <1>5 DEF ListenerTakes
    <2>2. CASE s = 1
        BY <1>1, <2>1, <2>2 DEF Takes
    <2>3. CASE s # 1
        BY <1>1, <2>1, <2>3 DEF Idles
    <2> QED
        BY <2>2, <2>3
<1>6. ASSUME NEW s \in Sessions, ListenerQuits(s)
      PROVE  Idles
    BY <1>1, <1>6 DEF ListenerQuits, Idles
<1>7. ASSUME NEW o \in Ops, NEW kind \in {"content", "done"}, opSession[o] \in Sessions,
             Put(opSession[o], Event(opSession[o], kind)), UNCHANGED <<waiting, held, seen>>
      PROVE  Idles \/ Publishes
    <2>1. CASE opSession[o] = 1
        BY <1>1, <1>7, <2>1 DEF Put, Publishes
    <2>2. CASE opSession[o] # 1
        BY <1>1, <1>7, <2>2 DEF Put, Idles
    <2> QED
        BY <2>1, <2>2
<1>8. ASSUME NEW o \in Ops, OpPublishes(o) \/ OpEnds(o)
      PROVE  Idles \/ Publishes
    <2>1. opSession[o] \in Sessions
        BY <1>8, OperationOf DEF OpPublishes, OpEnds
    <2>2. UNCHANGED <<waiting, held, seen>>
        BY <1>8 DEF OpPublishes, OpEnds
    <2>3. CASE UNCHANGED <<chan, published>>
        BY <2>2, <2>3 DEF Idles
    <2> QED
        BY <1>7, <1>8, <2>1, <2>2, <2>3 DEF OpPublishes, OpEnds
<1>9. [Next]_vars => \/ UNCHANGED feeds \/ Connected
                     \/ \E s \in Sessions : \E e \in held[s] : AgentEvent(s, e)
                     \/ \E s \in Sessions : ListenerTakes(s) \/ ListenerQuits(s)
                     \/ \E o \in Ops : OpPublishes(o) \/ OpEnds(o)
    BY DEF Next, UpdateLoop, Delivery, Listeners, Background, StartConnect, ConnectFailed,
           Disconnect, Esc, SendText, Subscribe, ShutdownSession, vars
<1> QED
    BY <1>2, <1>3, <1>4, <1>5, <1>6, <1>8, <1>9

\* What has not been connected yet has left nothing behind.
LEMMA FreshStep ==
    ASSUME Inv, FirstInv, [Next]_vars
    PROVE  Newest' /\ Fresh' /\ OpsOnMade'
<1>1. /\ waiting \in [Sessions -> Nat] /\ chan \in [Sessions -> Seq(Events)]
      /\ held \in [Sessions -> SUBSET Events]
      /\ published \in [Sessions -> Nat] /\ seen \in [Sessions -> Nat]
      /\ opState \in [Ops -> OpStates] /\ opSession \in [Ops -> Sessions \cup {None}]
      /\ made \in Nat /\ session \in Sessions \cup {None}
      /\ Sessions \subseteq Nat /\ None = 0
    BY SMTT(30), BridgeAssumption DEF Inv, TypeOK, Sessions, None
<1>2. /\ session \in {None, made}
      /\ \A s \in Sessions : s > made => /\ waiting[s] = 0 /\ held[s] = {} /\ chan[s] = <<>>
                                         /\ published[s] = 0 /\ seen[s] = 0
      /\ \A o \in Ops : opState[o] # "idle" => opSession[o] \in Sessions /\ opSession[o] <= made
    BY DEF FirstInv, Newest, Fresh, OpsOnMade
<1>3. ASSUME UNCHANGED <<session, made, feeds>>
      PROVE  Newest' /\ Fresh'
    BY <1>2, <1>3 DEF Newest, Fresh, feeds
<1>4. ASSUME UNCHANGED <<made, operations>>
      PROVE  OpsOnMade'
    BY <1>2, <1>4 DEF OpsOnMade, operations
<1>5. CASE StartConnect \/ ConnectFailed
    BY <1>3, <1>4, <1>5 DEF StartConnect, ConnectFailed
<1>6. CASE Connected
    <2>1. /\ made' = made + 1 /\ session' = made + 1
          /\ UNCHANGED <<chan, published, held, seen, operations>>
        BY <1>6 DEF Connected
    <2>2. waiting' = waiting \/ waiting' = [waiting EXCEPT ![made + 1] = waiting[made + 1] + 1]
        BY <1>6 DEF Connected, ArmListener
    <2>3. \A s \in Sessions : s > made' => s > made /\ waiting'[s] = waiting[s]
        BY <1>1, <2>1, <2>2
    <2>4. OpsOnMade'
        <3>1. \A n \in Sessions : n <= made => n <= made + 1
            BY <1>1
        <3> QED
            BY <1>2, <2>1, <3>1 DEF OpsOnMade, operations
    <2> QED
        BY <1>2, <2>1, <2>3, <2>4 DEF Newest, Fresh
<1>7. CASE Disconnect
    BY <1>2, <1>4, <1>7 DEF Disconnect, Newest, Fresh, feeds
<1>8. ASSUME NEW o \in Ops, session # None,
             opState' = [opState EXCEPT ![o] = "running"],
             opSession' = [opSession EXCEPT ![o] = session],
             UNCHANGED <<session, made, feeds>>
      PROVE  Newest' /\ Fresh' /\ OpsOnMade'
    <2>1. \A p \in Ops : opState'[p] # "idle" => opSession'[p] \in Sessions /\ opSession'[p] <= made
        BY <1>1, <1>2, <1>8
    <2> QED
        BY <1>3, <1>8, <2>1 DEF OpsOnMade
<1>9. CASE (\E o \in ChatOps : SendText(o)) \/ (\E o \in SubOps : Subscribe(o))
    BY <1>8, <1>9 DEF SendText, Subscribe, connection, Ops
<1>10. ASSUME NEW s, Cancel(s), UNCHANGED <<session, made, feeds, opSession>>
       PROVE  Newest' /\ Fresh' /\ OpsOnMade'
    <2>1. \A o \in Ops : opState'[o] # "idle" => opState[o] # "idle"
        BY <1>1, <1>10 DEF Cancel
    <2> QED
        BY <1>2, <1>3, <1>10, <2>1 DEF OpsOnMade
<1>11. CASE Esc \/ \E s \in Sessions : ShutdownSession(s)
    BY <1>10, <1>11 DEF Esc, ShutdownSession, connection
<1>12. ASSUME NEW s \in Sessions, NEW e \in held[s], AgentEvent(s, e)
       PROVE  Newest' /\ Fresh' /\ OpsOnMade'
    <2>1. /\ held' = [held EXCEPT ![s] = held[s] \ {e}] /\ seen' = [seen EXCEPT ![s] = e.n]
          /\ UNCHANGED <<session, made, chan, published, operations>>
        BY <1>12 DEF AgentEvent, connection
    <2>2. waiting' = waiting \/ (session # None /\ waiting' = [waiting EXCEPT ![session] = waiting[session] + 1])
        BY <1>12 DEF AgentEvent, ArmListener
    <2>3. ~(s > made)
        BY <1>2
    <2>4. \A r \in Sessions : r > made => /\ waiting'[r] = waiting[r] /\ held'[r] = held[r]
                                          /\ seen'[r] = seen[r]
        BY <1>1, <1>2, <2>1, <2>2, <2>3
    <2> QED
        BY <1>2, <1>4, <2>1, <2>4 DEF Newest, Fresh
<1>13. ASSUME NEW s \in Sessions, ListenerTakes(s) \/ ListenerQuits(s)
       PROVE  Newest' /\ Fresh' /\ OpsOnMade'
    <2>1. ~(s > made)
        BY <1>2, <1>13 DEF ListenerTakes, ListenerQuits
    <2>2. UNCHANGED <<session, made, published, seen, operations>>
        BY <1>13 DEF ListenerTakes, ListenerQuits, connection
    <2>3. \A r \in Sessions : r > made => /\ waiting'[r] = waiting[r] /\ held'[r] = held[r]
                                          /\ chan'[r] = chan[r]
        BY <1>1, <1>13, <2>1 DEF ListenerTakes, ListenerQuits
    <2> QED
        BY <1>2, <1>4, <2>2, <2>3 DEF Newest, Fresh
<1>14. ASSUME NEW o \in Ops, OpPublishes(o) \/ OpEnds(o)
       PROVE  Newest' /\ Fresh' /\ OpsOnMade'
    <2>1. opSession[o] \in Sessions /\ ~(opSession[o] > made)
        <3>1. opSession[o] \in Sessions /\ opSession[o] <= made
            BY <1>14, OperationOf DEF OpPublishes, OpEnds
        <3> QED
            <4>1. \A n \in Sessions : n <= made => ~(n > made)
                BY <1>1
            <4> QED
                BY <3>1, <4>1
    <2>2. UNCHANGED <<session, made, waiting, held, seen, opSession>>
        BY <1>14 DEF OpPublishes, OpEnds, connection, operations
    <2>3. \A r \in Sessions : r > made => chan'[r] = chan[r] /\ published'[r] = published[r]
        BY <1>1, <1>14, <2>1 DEF OpPublishes, OpEnds, Put
    <2>4. \A p \in Ops : opState'[p] # "idle" => opState[p] # "idle"
        BY <1>1, <1>14 DEF OpPublishes, OpEnds, operations
    <2> QED
        BY <1>2, <2>2, <2>3, <2>4 DEF Newest, Fresh, OpsOnMade
<1>15. CASE UNCHANGED vars
    BY <1>3, <1>4, <1>15 DEF vars, connection
<1> QED
    BY <1>5, <1>6, <1>7, <1>9, <1>11, <1>12, <1>13, <1>14, <1>15
    DEF Next, UpdateLoop, Delivery, Listeners, Background

\* What of session 1 the update loop has yet to see is numbered without a gap.
Ahead(n, k) == [i \in 1..k |-> n + i]

LEMMA OrderStep ==
    ASSUME Inv, FirstInv, 1 \in Sessions, [Next]_vars
    PROVE  OneInHand' /\ InOrder'
<1>1. /\ waiting[1] \in Nat /\ chan[1] \in Seq(Events) /\ held[1] \subseteq Events
      /\ published[1] \in Nat /\ seen[1] \in Nat /\ Len(chan[1]) \in Nat
    BY DEF Inv, TypeOK
<1>2. OneInHand /\ InOrder
    BY DEF FirstInv
<1>3. CASE Idles
    <2>1. made = 0 => held[1] = {}
        BY DEF FirstInv, Fresh
    <2> QED
        BY <1>1, <1>2, <1>3, <2>1 DEF Idles, OneInHand, InOrder, InHand
<1>4. CASE Takes
    <2>1. waiting[1] = 1 /\ held[1] = {} /\ held'[1] = {Head(chan[1])} /\ waiting'[1] = 0
          /\ chan[1] # <<>> /\ chan'[1] = Tail(chan[1])
          /\ published'[1] = published[1] /\ seen'[1] = seen[1]
        BY <1>2, <1>4 DEF Takes, OneInHand
    <2>2. /\ Head(chan[1]) = chan[1][1] /\ Len(Tail(chan[1])) = Len(chan[1]) - 1
          /\ Len(chan[1]) > 0
          /\ \A i \in 1..Len(chan[1]) - 1 : Tail(chan[1])[i] = chan[1][i + 1]
        BY <1>1, <2>1
    <2>3. InHand = 0 /\ InHand' = 1
        BY <2>1 DEF InHand
    <2>4. \A i \in 1..Len(chan[1]) : chan[1][i].n = seen[1] + i
        BY <1>1, <1>2, <2>3 DEF InOrder
    <2>5. Head(chan[1]).n = seen[1] + 1
        BY <1>1, <2>2, <2>4
    <2>6. \A i \in 1..Len(chan'[1]) : chan'[1][i].n = seen[1] + 1 + i
        <3> SUFFICES ASSUME NEW i \in 1..Len(chan'[1])
                     PROVE  chan'[1][i].n = seen[1] + 1 + i
            OBVIOUS
        <3>1. i \in 1..Len(chan[1]) - 1 /\ i + 1 \in 1..Len(chan[1])
            BY <1>1, <2>1, <2>2
        <3>2. chan'[1][i] = chan[1][i + 1]
            BY <2>1, <2>2, <3>1
        <3>3. chan[1][i + 1].n = seen[1] + (i + 1)
            BY <2>4, <3>1
        <3> QED
            BY <1>1, <3>1, <3>2, <3>3
    <2>7. published[1] = seen[1] + 1 + Len(chan'[1])
        BY <1>1, <1>2, <2>1, <2>2, <2>3 DEF InOrder
    <2> QED
        BY <2>1, <2>3, <2>5, <2>6, <2>7 DEF OneInHand, InOrder
<1>5. CASE Handles
    <2>1. PICK e \in held[1] : held'[1] = held[1] \ {e} /\ seen'[1] = e.n
        BY <1>5 DEF Handles
    <2>2. held'[1] = {} /\ waiting[1] = 0 /\ e.n = seen[1] + 1
        BY <1>2, <2>1 DEF OneInHand, InOrder
    <2>3. InHand = 1 /\ InHand' = 0
        BY <2>1, <2>2 DEF InHand
    <2>4. waiting'[1] \in {0, 1} /\ chan'[1] = chan[1] /\ published'[1] = published[1]
        BY <1>5, <2>2 DEF Handles
    <2>5. \A i \in 1..Len(chan[1]) : chan[1][i].n = seen'[1] + 0 + i
        BY <1>1, <1>2, <2>1, <2>2, <2>3 DEF InOrder
    <2>6. published[1] = seen'[1] + 0 + Len(chan[1])
        BY <1>1, <1>2, <2>1, <2>2, <2>3 DEF InOrder
    <2> QED
        BY <2>2, <2>3, <2>4, <2>5, <2>6 DEF OneInHand, InOrder
<1>6. CASE Publishes
    <2>1. PICK kind \in {"content", "done"} : chan'[1] = Append(chan[1], Event(1, kind))
        BY <1>6 DEF Publishes
    <2> DEFINE e == Event(1, kind)
    <2>2. e.n = published[1] + 1 /\ e \in Events
        BY <1>1 DEF Event, Events
    <2> HIDE DEF e
    <2>3. /\ Len(chan'[1]) = Len(chan[1]) + 1 /\ chan'[1][Len(chan[1]) + 1] = e
          /\ \A i \in 1..Len(chan[1]) : chan'[1][i] = chan[1][i]
        BY <1>1, <2>1, <2>2 DEF e
    <2>4. /\ published'[1] = published[1] + 1
          /\ seen'[1] = seen[1] /\ held'[1] = held[1] /\ waiting'[1] = waiting[1]
        BY <1>6 DEF Publishes
    <2>5. InHand' = InHand /\ InHand \in Nat
        BY <2>4 DEF InHand
    <2>6. \A i \in 1..Len(chan'[1]) : chan'[1][i].n = seen[1] + InHand + i
        <3> SUFFICES ASSUME NEW i \in 1..Len(chan'[1])
                     PROVE  chan'[1][i].n = seen[1] + InHand + i
            OBVIOUS
        <3>1. CASE i = Len(chan[1]) + 1
            <4>1. published[1] = seen[1] + InHand + Len(chan[1])
                BY <1>2 DEF InOrder
            <4>2. chan'[1][i].n = published[1] + 1
                BY <2>2, <2>3, <3>1
            <4> QED
                <5>1. \A a, h, l \in Nat : a + h + l + 1 = a + h + (l + 1)
                    OBVIOUS
                <5>2. seen[1] + InHand + Len(chan[1]) + 1 = seen[1] + InHand + (Len(chan[1]) + 1)
                    BY <1>1, <2>5, <5>1
                <5> QED
                    BY <3>1, <4>1, <4>2, <5>2
        <3>2. CASE i # Len(chan[1]) + 1
            <4>1. i \in 1..Len(chan[1])
                BY <1>1, <2>3, <3>2
            <4> QED
                BY <1>2, <2>3, <4>1 DEF InOrder
        <3> QED
            BY <3>1, <3>2
    <2>7. published'[1] = seen[1] + InHand + Len(chan'[1])
        BY SMTT(30), <1>1, <1>2, <2>3, <2>4, <2>5 DEF InOrder
    <2> QED
        BY <1>2, <2>4, <2>5, <2>6, <2>7 DEF OneInHand, InOrder
<1> QED
    BY <1>3, <1>4, <1>5, <1>6, FirstFrame

LEMMA FirstAlways == Spec => []FirstInv
<1>1. Init => FirstInv
    <2> SUFFICES ASSUME Init PROVE FirstInv
        OBVIOUS
    <2>1. Newest /\ Fresh /\ OpsOnMade
        BY DEF Init, Newest, Fresh, OpsOnMade
    <2>2. ASSUME 1 \in Sessions PROVE OneInHand /\ InOrder
        BY <2>2 DEF Init, OneInHand, InOrder, InHand
    <2> QED
        BY <2>1, <2>2 DEF FirstInv
<1>2. Inv /\ FirstInv /\ [Next]_vars => FirstInv'
    <2> SUFFICES ASSUME Inv, FirstInv, [Next]_vars PROVE FirstInv'
        OBVIOUS
    <2>1. Sessions' = Sessions
        BY DEF Sessions
    <2> QED
        BY <2>1, FreshStep, OrderStep DEF FirstInv
<1> QED
    BY <1>1, <1>2, InvAlways, PTL DEF Spec

------------------------------------------------------------------------------
(* The bridge to the first connection implements EventFeed.                  *)

LEMMA SmallSetToSeq ==
    /\ SetToSeq({}) = <<>>
    /\ \A e : SetToSeq({e}) = <<e>>
<1>1. Cardinality({}) = 0 /\ \A e : Cardinality({e}) = 1
    BY FS_EmptySet, FS_Singleton
<1>2. SetToSeq({}) = <<>>
    <2>1. [1..0 -> {}] = {<<>>}
        <3>1. 1..0 = {}
            OBVIOUS
        <3>2. \A f \in [{} -> {}] : f = <<>>
            OBVIOUS
        <3>3. <<>> \in [{} -> {}]
            OBVIOUS
        <3> QED
            BY <3>1, <3>2, <3>3
    <2>2. IsInjective(<<>>)
        BY DEF IsInjective
    <2> QED
        BY <1>1, <2>1, <2>2 DEF SetToSeq
<1>3. ASSUME NEW e PROVE SetToSeq({e}) = <<e>>
    <2>1. [1..1 -> {e}] = {<<e>>}
        OBVIOUS
    <2>2. IsInjective(<<e>>)
        BY DEF IsInjective
    <2>3. SetToSeq({e}) = CHOOSE f \in [1..1 -> {e}] : IsInjective(f)
        BY <1>1 DEF SetToSeq
    <2> QED
        BY <2>1, <2>2, <2>3
<1> QED
    BY <1>2, <1>3

\* An event in hand and a channel, numbered from n on.
LEMMA NumbersAhead ==
    ASSUME NEW h \in SUBSET Events, NEW q \in Seq(Events), NEW n \in Nat, NEW k \in {0, 1},
           k = 0 <=> h = {}, \A e, f \in h : e = f,
           \A e \in h : e.n = n + 1,
           \A i \in 1..Len(q) : q[i].n = n + k + i
    PROVE  Numbers(SetToSeq(h) \o q) = Ahead(n, k + Len(q))
<1>1. CASE h = {}
    <2>1. SetToSeq(h) \o q = q
        BY <1>1, SmallSetToSeq
    <2>2. k = 0 /\ k + Len(q) = Len(q) /\ DOMAIN q = 1..Len(q)
        BY <1>1
    <2>3. \A i \in 1..Len(q) : q[i].n = n + i
        BY <2>2
    <2> QED
        BY <2>1, <2>2, <2>3 DEF Numbers, Ahead
<1>2. CASE h # {}
    <2>1. PICK e \in h : TRUE
        BY <1>2
    <2>2. h = {e} /\ k = 1 /\ e \in Events /\ e.n = n + 1
        BY <1>2, <2>1
    <2>3. SetToSeq(h) = <<e>>
        BY <2>2, SmallSetToSeq
    <2> DEFINE t == <<e>> \o q
    <2>4. /\ t \in Seq(Events) /\ Len(t) = 1 + Len(q) /\ t[1] = e
          /\ \A i \in 1..Len(q) : t[i + 1] = q[i]
        BY <2>2
    <2> HIDE DEF t
    <2>5. DOMAIN t = 1..(k + Len(q))
        BY <2>2, <2>4
    <2>6. ASSUME NEW i \in 1..(k + Len(q)) PROVE t[i].n = n + i
        <3>1. CASE i = 1
            BY <2>2, <2>4, <3>1
        <3>2. CASE i # 1
            <4>1. i - 1 \in 1..Len(q) /\ (i - 1) + 1 = i
                BY <2>2, <3>2
            <4>2. t[i] = q[i - 1] /\ q[i - 1].n = n + 1 + (i - 1)
                BY <2>2, <2>4, <4>1
            <4> QED
                BY <4>1, <4>2
        <3> QED
            BY <3>1, <3>2
    <2> QED
        BY <2>3, <2>5, <2>6 DEF Numbers, Ahead, t
<1> QED
    BY <1>1, <1>2

\* Publishing and handling, on numbers without a gap.
LEMMA AheadMoves ==
    ASSUME NEW n \in Nat, NEW k \in Nat
    PROVE  /\ Ahead(n, 0) = <<>>
           /\ Len(Ahead(n, k)) = k
           /\ Ahead(n, k + 1) = Append(Ahead(n, k), n + k + 1)
           /\ Ahead(n, k + 1) # <<>> /\ Head(Ahead(n, k + 1)) = n + 1
           /\ Tail(Ahead(n, k + 1)) = Ahead(n + 1, k)
<1>1. \A m, j \in Nat : Ahead(m, j) \in Seq(Nat) /\ Len(Ahead(m, j)) = j
                        /\ \A i \in 1..j : Ahead(m, j)[i] = m + i
    BY DEF Ahead
<1>2. Ahead(n, 0) = <<>>
    BY <1>1
<1> DEFINE a == Ahead(n, k)
           b == Ahead(n, k + 1)
           c == Ahead(n + 1, k)
<1>3. /\ a \in Seq(Nat) /\ Len(a) = k /\ \A i \in 1..k : a[i] = n + i
      /\ b \in Seq(Nat) /\ Len(b) = k + 1 /\ \A i \in 1..(k + 1) : b[i] = n + i
      /\ c \in Seq(Nat) /\ Len(c) = k /\ \A i \in 1..k : c[i] = n + 1 + i
    <2>1. k + 1 \in Nat /\ n + 1 \in Nat
        OBVIOUS
    <2>2. /\ a \in Seq(Nat) /\ Len(a) = k /\ \A i \in 1..k : a[i] = n + i
        BY <1>1
    <2>3. /\ b \in Seq(Nat) /\ Len(b) = k + 1 /\ \A i \in 1..(k + 1) : b[i] = n + i
        BY <1>1, <2>1
    <2>4. /\ c \in Seq(Nat) /\ Len(c) = k /\ \A i \in 1..k : c[i] = n + 1 + i
        BY <1>1, <2>1
    <2> QED
        BY <2>2, <2>3, <2>4
<1> HIDE DEF a, b, c
<1>4. b = Append(a, n + k + 1)
    BY <1>3
<1>5. b # <<>> /\ Head(b) = n + 1
    BY <1>3
<1>6. Tail(b) = c
    BY SMTT(30), <1>3, <1>5
<1> QED
    BY <1>2, <1>3, <1>4, <1>5, <1>6 DEF a, b, c

\* What the feed is, in a state and after a step.
FeedPending == [s \in First |-> Numbers(SetToSeq(held[s]) \o chan[s])]
FeedSeen    == [s \in First |-> seen[s]]
Left        == published[1] - seen[1]

LEMMA FeedIs ==
    ASSUME Inv, FirstInv, 1 \in Sessions, Inv', FirstInv'
    PROVE  /\ FeedPending = [s \in First |-> Ahead(seen[1], Left)] /\ Left \in Nat
           /\ FeedPending' = [s \in First |-> Ahead(seen'[1], Left')] /\ Left' \in Nat
           /\ First = {1}
<1>1. First = {1}
    BY DEF First
<1>2. /\ held[1] \in SUBSET Events /\ chan[1] \in Seq(Events) /\ seen[1] \in Nat
      /\ held'[1] \in SUBSET Events /\ chan'[1] \in Seq(Events) /\ seen'[1] \in Nat
      /\ InHand \in {0, 1} /\ (InHand = 0 <=> held[1] = {})
      /\ InHand' \in {0, 1} /\ (InHand' = 0 <=> held'[1] = {})
    <2>1. /\ held[1] \in SUBSET Events /\ chan[1] \in Seq(Events) /\ seen[1] \in Nat
          /\ held'[1] \in SUBSET Events /\ chan'[1] \in Seq(Events) /\ seen'[1] \in Nat
        BY DEF Inv, TypeOK
    <2>2. InHand \in {0, 1} /\ (InHand = 0 <=> held[1] = {})
        BY DEF InHand
    <2>3. InHand' \in {0, 1} /\ (InHand' = 0 <=> held'[1] = {})
        BY DEF InHand
    <2> QED
        BY <2>1, <2>2, <2>3
<1>3. OneInHand /\ InOrder /\ OneInHand' /\ InOrder'
    BY DEF FirstInv
<1>4. \A a, h, l \in Nat : a + h + l - a = h + l /\ h + l \in Nat
    OBVIOUS
<1>5. Left = InHand + Len(chan[1]) /\ Left \in Nat
    BY SMTT(30), <1>2, <1>3, <1>4 DEF Left, InOrder
<1>6. Left' = InHand' + Len(chan'[1]) /\ Left' \in Nat
    BY SMTT(30), <1>2, <1>3, <1>4 DEF Left, InOrder
<1>7. Numbers(SetToSeq(held[1]) \o chan[1]) = Ahead(seen[1], Left)
    <2>1. /\ \A e, f \in held[1] : e = f
          /\ \A e \in held[1] : e.n = seen[1] + 1
          /\ \A i \in 1..Len(chan[1]) : chan[1][i].n = seen[1] + InHand + i
        BY <1>3 DEF OneInHand, InOrder
    <2> QED
        <3> DEFINE h == held[1]
                   q == chan[1]
                   k == InHand
        <3>1. h \in SUBSET Events /\ q \in Seq(Events) /\ k \in {0, 1} /\ (k = 0 <=> h = {})
            BY <1>2
        <3>2. /\ \A e, f \in h : e = f
              /\ \A e \in h : e.n = seen[1] + 1
              /\ \A i \in 1..Len(q) : q[i].n = seen[1] + k + i
            BY <2>1
        <3> HIDE DEF h, q, k
        <3>3. Numbers(SetToSeq(h) \o q) = Ahead(seen[1], k + Len(q))
            BY ZenonT(40), <1>2, <3>1, <3>2, NumbersAhead
        <3> QED
            BY <1>5, <3>3 DEF h, q, k
<1>8. Numbers(SetToSeq(held'[1]) \o chan'[1]) = Ahead(seen'[1], Left')
    <2>1. /\ \A e, f \in held'[1] : e = f
          /\ \A e \in held'[1] : e.n = seen'[1] + 1
          /\ \A i \in 1..Len(chan'[1]) : chan'[1][i].n = seen'[1] + InHand' + i
        BY <1>3 DEF OneInHand, InOrder
    <2> QED
        BY ZenonT(40), <1>2, <1>6, <2>1, NumbersAhead
<1>9. FeedPending = [s \in First |-> Ahead(seen[1], Left)]
    BY <1>1, <1>7 DEF FeedPending
<1>10. FeedPending' = [s \in First |-> Ahead(seen'[1], Left')]
    BY <1>1, <1>8 DEF FeedPending, First, Sessions
<1> QED
    BY <1>1, <1>5, <1>6, <1>9, <1>10

\* A step of the application is a step of the feed, or none.
LEMMA FeedStep ==
    ASSUME Inv, FirstInv, [Next]_vars, Inv', FirstInv'
    PROVE  [Feed!Next]_<<FeedPending, FeedSeen>>
<1>1. CASE 1 \notin Sessions
    <2>1. First = {}
        BY <1>1 DEF First
    <2>2. FeedPending = [s \in {} |-> 0] /\ FeedPending' = [s \in {} |-> 0]
          /\ FeedSeen = [s \in {} |-> 0] /\ FeedSeen' = [s \in {} |-> 0]
        BY <2>1 DEF FeedPending, FeedSeen, First, Sessions
    <2> QED
        BY <2>2
<1>2. CASE 1 \in Sessions
    <2>1. /\ FeedPending = [s \in First |-> Ahead(seen[1], Left)] /\ Left \in Nat
          /\ FeedPending' = [s \in First |-> Ahead(seen'[1], Left')] /\ Left' \in Nat
          /\ First = {1}
        BY <1>2, FeedIs
    <2>2. FeedSeen = [s \in First |-> seen[1]] /\ FeedSeen' = [s \in First |-> seen'[1]]
        BY <2>1 DEF FeedSeen, First, Sessions
    <2>3. seen[1] \in Nat /\ published[1] \in Nat
        BY <1>2 DEF Inv, TypeOK
    <2>4. CASE Idles \/ Takes
        <3>1. seen'[1] = seen[1] /\ Left' = Left
            BY <2>4 DEF Idles, Takes, Left
        <3> QED
            BY <2>1, <2>2, <3>1
    <2>5. CASE Publishes
        <3>1. seen'[1] = seen[1] /\ Left' = Left + 1
            BY <2>3, <2>5 DEF Publishes, Left
        <3>2. /\ Ahead(seen[1], Left + 1) = Append(Ahead(seen[1], Left), seen[1] + Left + 1)
              /\ Len(Ahead(seen[1], Left)) = Left
            BY <2>1, <2>3, AheadMoves
        <3>3. FeedPending[1] = Ahead(seen[1], Left) /\ FeedSeen[1] = seen[1]
            BY <2>1, <2>2
        <3>4. FeedPending' = [FeedPending EXCEPT ![1] = Append(@, FeedSeen[1] + Len(@) + 1)]
            BY <2>1, <3>1, <3>2, <3>3
        <3>5. FeedSeen' = FeedSeen
            BY <2>2, <3>1
        <3>6. Feed!Publish(1)
            BY <3>4, <3>5 DEF Feed!Publish, FeedPending, FeedSeen
        <3> QED
            BY <2>1, <3>6 DEF Feed!Next
    <2>6. CASE Handles
        <3>1. PICK e \in held[1] : seen'[1] = e.n
            BY <2>6 DEF Handles
        <3>2. seen'[1] = seen[1] + 1 /\ published'[1] = published[1]
            BY <1>2, <2>6, <3>1 DEF Handles, FirstInv, InOrder
        <3>3. Left = Left' + 1
            BY <2>3, <3>2 DEF Left
        <3>4. /\ Ahead(seen[1], Left) # <<>> /\ Head(Ahead(seen[1], Left)) = seen[1] + 1
              /\ Tail(Ahead(seen[1], Left)) = Ahead(seen[1] + 1, Left')
            BY <2>1, <2>3, <3>3, AheadMoves
        <3>5. FeedPending[1] = Ahead(seen[1], Left)
            BY <2>1
        <3>6. FeedPending' = [FeedPending EXCEPT ![1] = Tail(@)]
            BY <2>1, <3>2, <3>4, <3>5
        <3>7. FeedSeen' = [FeedSeen EXCEPT ![1] = Head(FeedPending[1])]
            BY <2>1, <2>2, <3>2, <3>4, <3>5
        <3>8. Feed!Handle(1)
            BY <3>4, <3>5, <3>6, <3>7 DEF Feed!Handle, FeedPending, FeedSeen
        <3> QED
            BY <2>1, <3>8 DEF Feed!Next
    <2> QED
        BY <1>2, <2>4, <2>5, <2>6, FirstFrame
<1> QED
    BY <1>1, <1>2

------------------------------------------------------------------------------
(* The count of the operations.                                              *)

Started == {o \in Ops : opState[o] # "idle"}
DoneAt(q) == {i \in DOMAIN q : q[i].kind = "done"}
DoneIn(h) == {e \in h : e.kind = "done"}

\* Nothing is counted before the first connection, and finitely many things ever.
CountInv ==
    /\ IsFiniteSet(Started)
    /\ made = 0 => inflight = 0 /\ Started = {}
    /\ InflightExact

LEMMA CountedDone ==
    ASSUME NEW q \in Seq(Events)
    PROVE  /\ IsFiniteSet(DoneAt(q)) /\ Cardinality(DoneAt(q)) \in Nat
           /\ \A e \in Events : Cardinality(DoneAt(Append(q, e)))
                = Cardinality(DoneAt(q)) + IF e.kind = "done" THEN 1 ELSE 0
           /\ q # <<>> => Cardinality(DoneAt(q))
                = Cardinality(DoneAt(Tail(q))) + IF Head(q).kind = "done" THEN 1 ELSE 0
<1>1. \A t \in Seq(Events) : IsFiniteSet(DoneAt(t)) /\ Cardinality(DoneAt(t)) \in Nat
    <2> SUFFICES ASSUME NEW t \in Seq(Events)
                 PROVE  IsFiniteSet(DoneAt(t)) /\ Cardinality(DoneAt(t)) \in Nat
        OBVIOUS
    <2>1. IsFiniteSet(1..Len(t))
        BY FS_Interval
    <2>2. DoneAt(t) \subseteq 1..Len(t)
        BY DEF DoneAt
    <2> QED
        BY <2>1, <2>2, FS_Subset, FS_CardinalityType
<1>2. ASSUME NEW e \in Events
      PROVE  Cardinality(DoneAt(Append(q, e)))
               = Cardinality(DoneAt(q)) + IF e.kind = "done" THEN 1 ELSE 0
    <2> DEFINE n == Len(q) + 1
               t == Append(q, e)
    <2>1. /\ DOMAIN t = 1..n /\ t[n] = e /\ DOMAIN q = 1..Len(q) /\ n \notin 1..Len(q)
          /\ 1..n = 1..Len(q) \cup {n} /\ \A i \in 1..Len(q) : t[i] = q[i]
        OBVIOUS
    <2> HIDE DEF t, n
    <2>2. CASE e.kind = "done"
        <3>1. DoneAt(t) = DoneAt(q) \cup {n} /\ n \notin DoneAt(q)
            BY <2>1, <2>2 DEF DoneAt
        <3> QED
            BY <1>1, <2>2, <3>1, FS_AddElement DEF t
    <2>3. CASE e.kind # "done"
        <3>1. DoneAt(t) = DoneAt(q)
            BY <2>1, <2>3 DEF DoneAt
        <3> QED
            BY <1>1, <2>3, <3>1 DEF t
    <2> QED
        BY <2>2, <2>3
<1>3. ASSUME q # <<>>
      PROVE  Cardinality(DoneAt(q))
               = Cardinality(DoneAt(Tail(q))) + IF Head(q).kind = "done" THEN 1 ELSE 0
    <2> DEFINE t == Tail(q)
               later == DoneAt(q) \ {1}
    <2>1. /\ t \in Seq(Events) /\ DOMAIN q = 1..Len(q) /\ DOMAIN t = 1..(Len(q) - 1)
          /\ Head(q) = q[1] /\ 1 \in 1..Len(q) /\ Len(q) \in Nat
          /\ \A i \in 1..(Len(q) - 1) : t[i] = q[i + 1]
        BY <1>3
    <2> HIDE DEF t
    <2> DEFINE f == [i \in DoneAt(t) |-> i + 1]
    <2>2. f \in Bijection(DoneAt(t), later)
        <3>1. \A i \in DoneAt(t) : i \in 1..(Len(q) - 1) /\ f[i] = i + 1 /\ f[i] \in later
            BY <2>1 DEF DoneAt
        <3>2. \A i, j \in DoneAt(t) : f[i] = f[j] => i = j
            BY <3>1
        <3>3. \A j \in later : j - 1 \in DoneAt(t) /\ f[j - 1] = j
            BY <2>1 DEF DoneAt
        <3> QED
            BY <3>1, <3>2, <3>3 DEF Bijection, Injection, Surjection, IsInjective
    <2>3. IsFiniteSet(DoneAt(t)) /\ Cardinality(later) = Cardinality(DoneAt(t))
        BY <1>1, <2>1, <2>2, FS_Bijection DEF ExistsBijection
    <2>4. CASE q[1].kind = "done"
        <3>1. 1 \in DoneAt(q)
            BY <2>1, <2>4 DEF DoneAt
        <3>2. Cardinality(later) = Cardinality(DoneAt(q)) - 1
            BY <1>1, <3>1, FS_RemoveElement
        <3> QED
            BY <1>1, <2>1, <2>3, <2>4, <3>2 DEF t
    <2>5. CASE q[1].kind # "done"
        <3>1. later = DoneAt(q)
            BY <2>5 DEF DoneAt
        <3> QED
            <4>1. Cardinality(DoneAt(q)) = Cardinality(DoneAt(t)) /\ Cardinality(DoneAt(q)) \in Nat
                BY <1>1, <2>3, <3>1
            <4> QED
                BY <2>1, <2>5, <4>1 DEF t
    <2> QED
        BY <2>4, <2>5
<1> QED
    BY <1>1, <1>2, <1>3

\* The operations of session 1 the user waits for, and their ends on the way.
Waited == Cardinality(Active(1, ChatOps))
Ends   == Cardinality(DoneAt(chan[1])) + Cardinality(DoneIn(held[1]))
NoSubs == \A o \in SubOps : opState[o] = "idle"

LEMMA CountParts ==
    ASSUME Inv, CountInv, FirstInv
    PROVE  /\ IsFiniteSet(Active(1, ChatOps)) /\ Waited \in Nat
           /\ 1 \in Sessions =>
                /\ Cardinality(DoneAt(chan[1])) \in Nat /\ Ends \in Nat
                /\ held[1] = {} => Cardinality(DoneIn(held[1])) = 0
                /\ \A e \in held[1] : Cardinality(DoneIn(held[1]))
                                        = IF e.kind = "done" THEN 1 ELSE 0
           /\ session = 1 /\ NoSubs => inflight = Waited + Ends
<1>1. IsFiniteSet(Active(1, ChatOps)) /\ Waited \in Nat
    <2>1. Active(1, ChatOps) \subseteq Started
        BY DEF Active, Started, Ops
    <2> QED
        BY <2>1, FS_Subset, FS_CardinalityType DEF CountInv, Waited
<1>2. ASSUME 1 \in Sessions
      PROVE  /\ Cardinality(DoneAt(chan[1])) \in Nat /\ Ends \in Nat
             /\ held[1] = {} => Cardinality(DoneIn(held[1])) = 0
             /\ \A e \in held[1] : Cardinality(DoneIn(held[1]))
                                     = IF e.kind = "done" THEN 1 ELSE 0
    <2>1. Cardinality(DoneAt(chan[1])) \in Nat
        BY <1>2, CountedDone DEF Inv, TypeOK
    <2>2. held[1] = {} => Cardinality(DoneIn(held[1])) = 0
        BY FS_EmptySet DEF DoneIn
    <2>3. ASSUME NEW e \in held[1]
          PROVE  Cardinality(DoneIn(held[1])) = IF e.kind = "done" THEN 1 ELSE 0
        <3>1. held[1] = {e}
            BY <1>2 DEF FirstInv, OneInHand
        <3>2. DoneIn(held[1]) = IF e.kind = "done" THEN {e} ELSE {}
            BY <3>1 DEF DoneIn
        <3> QED
            BY <3>2, FS_EmptySet, FS_Singleton
    <2>4. Cardinality(DoneIn(held[1])) \in Nat
        <3>1. CASE held[1] = {}
            BY <2>2, <3>1
        <3>2. CASE held[1] # {}
            BY <2>3, <3>2
        <3> QED
            BY <3>1, <3>2
    <2> QED
        BY <2>1, <2>2, <2>3, <2>4 DEF Ends
<1>3. session = 1 /\ NoSubs => inflight = Waited + Ends
    <2>1. DoneOnItsWay(1) = Ends
        BY DEF DoneOnItsWay, Ends, DoneAt, DoneIn
    <2> QED
        BY <2>1 DEF CountInv, InflightExact, NoSubs, Waited
<1> QED
    BY <1>1, <1>2, <1>3

LEMMA StartedStep ==
    ASSUME Inv, FirstInv, CountInv, [Next]_vars
    PROVE  /\ IsFiniteSet(Started') /\ (made' = 0 => inflight' = 0 /\ Started' = {})
           /\ NoSubs' => NoSubs
<1>1. /\ opState \in [Ops -> OpStates] /\ made \in Nat /\ None = 0
      /\ Sessions \subseteq Nat /\ \A s \in Sessions : s > 0
      /\ \A s \in Sessions : s > made => held[s] = {}
      /\ session \in {None, made}
    BY BridgeAssumption DEF Inv, TypeOK, Sessions, None, FirstInv, Fresh, Newest
<1>2. IsFiniteSet(Started) /\ (made = 0 => inflight = 0 /\ Started = {})
    BY DEF CountInv
<1>3. ASSUME NEW o \in Ops, opState' = [opState EXCEPT ![o] = "running"], session # None,
             UNCHANGED made, opState[o] = "idle"
      PROVE  /\ IsFiniteSet(Started') /\ (made' = 0 => inflight' = 0 /\ Started' = {})
             /\ NoSubs' => NoSubs
    <2>1. Started' = Started \cup {o}
        BY <1>1, <1>3 DEF Started
    <2>2. made # 0
        BY <1>1, <1>3
    <2>3. NoSubs' => NoSubs
        BY <1>1, <1>3 DEF NoSubs, Ops
    <2> QED
        BY <1>2, <1>3, <2>1, <2>2, <2>3, FS_AddElement
<1>4. ASSUME opState' \in [Ops -> OpStates], \A o \in Ops : opState'[o] = "idle" <=> opState[o] = "idle",
             made' \in Nat, made <= made', made' = 0 => inflight' = 0
      PROVE  /\ IsFiniteSet(Started') /\ (made' = 0 => inflight' = 0 /\ Started' = {})
             /\ NoSubs' => NoSubs
    <2>1. Started' = Started
        BY <1>4 DEF Started
    <2>2. made' = 0 => made = 0
        BY <1>1, <1>4
    <2>3. NoSubs' => NoSubs
        BY <1>4 DEF NoSubs, Ops
    <2> QED
        BY <1>2, <1>4, <2>1, <2>2, <2>3
<1>5. CASE \E o \in ChatOps : SendText(o)
    BY <1>3, <1>5 DEF SendText, connection, Ops
<1>6. CASE \E o \in SubOps : Subscribe(o)
    BY <1>3, <1>6 DEF Subscribe, connection, Ops
<1>7. ASSUME NEW s, Cancel(s)
      PROVE  /\ opState' \in [Ops -> OpStates]
             /\ \A o \in Ops : opState'[o] = "idle" <=> opState[o] = "idle"
    BY <1>1, <1>7 DEF Cancel, OpStates
<1>8. CASE Esc \/ \E s \in Sessions : ShutdownSession(s)
    BY <1>1, <1>2, <1>4, <1>7, <1>8 DEF Esc, ShutdownSession, connection
<1>9. CASE StartConnect \/ ConnectFailed \/ Disconnect
    BY <1>1, <1>2, <1>4, <1>9 DEF StartConnect, ConnectFailed, Disconnect, operations
<1>10. CASE Connected
    <2>1. made' = made + 1 /\ UNCHANGED opState
        BY <1>10 DEF Connected, operations
    <2> QED
        BY <1>1, <1>4, <2>1
<1>11. ASSUME NEW s \in Sessions, NEW e \in held[s], AgentEvent(s, e)
       PROVE  /\ IsFiniteSet(Started') /\ (made' = 0 => inflight' = 0 /\ Started' = {})
              /\ NoSubs' => NoSubs
    <2>1. made # 0
        BY <1>1
    <2> QED
        BY <1>1, <1>4, <1>11, <2>1 DEF AgentEvent, connection, operations
<1>12. ASSUME NEW s \in Sessions, ListenerTakes(s) \/ ListenerQuits(s)
       PROVE  /\ IsFiniteSet(Started') /\ (made' = 0 => inflight' = 0 /\ Started' = {})
              /\ NoSubs' => NoSubs
    BY <1>1, <1>2, <1>4, <1>12 DEF ListenerTakes, ListenerQuits, connection, operations
<1>13. ASSUME NEW o \in Ops, OpPublishes(o) \/ OpEnds(o)
       PROVE  /\ IsFiniteSet(Started') /\ (made' = 0 => inflight' = 0 /\ Started' = {})
              /\ NoSubs' => NoSubs
    <2>1. /\ opState' \in [Ops -> OpStates]
          /\ \A p \in Ops : opState'[p] = "idle" <=> opState[p] = "idle"
        BY <1>1, <1>13 DEF OpPublishes, OpEnds, OpStates, operations
    <2> QED
        BY <1>1, <1>2, <1>4, <1>13, <2>1 DEF OpPublishes, OpEnds, connection
<1>14. CASE UNCHANGED vars
    BY <1>1, <1>2, <1>4, <1>14 DEF vars, connection, operations
<1> QED
    BY <1>5, <1>6, <1>8, <1>9, <1>10, <1>11, <1>12, <1>13, <1>14
    DEF Next, UpdateLoop, Delivery, Listeners, Background

LEMMA CountStep ==
    ASSUME Inv, FirstInv, CountInv, [Next]_vars, Inv', FirstInv'
    PROVE  InflightExact'
<1> SUFFICES ASSUME session' = 1, NoSubs'
             PROVE  inflight' = Waited' + Ends'
    <2>1. DoneOnItsWay(1)' = Ends'
        BY DEF DoneOnItsWay, Ends, DoneAt, DoneIn
    <2> QED
        BY <2>1 DEF InflightExact, NoSubs, Waited
<1>1. /\ 1 \in Sessions /\ None = 0 /\ made \in Nat /\ NoSubs
      /\ session \in {None, made} /\ session \in Sessions \cup {None} /\ inflight \in Nat
      /\ opState \in [Ops -> OpStates] /\ opSession \in [Ops -> Sessions \cup {None}]
      /\ chan \in [Sessions -> Seq(Events)] /\ held \in [Sessions -> SUBSET Events]
      /\ Sessions \subseteq Nat
    <2>1. None = 0 /\ made \in Nat /\ Sessions \subseteq Nat
        BY BridgeAssumption DEF Inv, TypeOK, Sessions, None
    <2>2. 1 \in Sessions
        BY DEF Inv, TypeOK, Sessions, None
    <2>3. NoSubs
        BY StartedStep
    <2>4. session \in {None, made}
        BY DEF FirstInv, Newest
    <2>5. /\ session \in Sessions \cup {None} /\ inflight \in Nat
          /\ opState \in [Ops -> OpStates] /\ opSession \in [Ops -> Sessions \cup {None}]
          /\ chan \in [Sessions -> Seq(Events)] /\ held \in [Sessions -> SUBSET Events]
        BY DEF Inv, TypeOK
    <2> QED
        BY <2>1, <2>2, <2>3, <2>4, <2>5
<1>2. /\ IsFiniteSet(Active(1, ChatOps)) /\ Waited \in Nat
      /\ Cardinality(DoneAt(chan[1])) \in Nat /\ Ends \in Nat
      /\ held[1] = {} => Cardinality(DoneIn(held[1])) = 0
      /\ \A e \in held[1] : Cardinality(DoneIn(held[1])) = IF e.kind = "done" THEN 1 ELSE 0
      /\ session = 1 => inflight = Waited + Ends
    BY <1>1, CountParts
<1>3. ASSUME session = 1
      PROVE  /\ inflight = Waited + Ends /\ made = 1 /\ 1 \notin done
             /\ \A s \in Sessions : held[s] # {} => s = 1
             /\ \A o \in Ops : opState[o] \in {"running", "canceled"} => opSession[o] = 1
    <2>1. made = 1
        BY <1>1, <1>3
    <2>2. 1 \notin done
        BY <1>3 DEF Inv, InUse, TypeOK
    <2>3. ASSUME NEW s \in Sessions, s # 1 PROVE held[s] = {}
        <3>1. s > made
            BY <2>1, <2>3 DEF Sessions
        <3> QED
            BY <3>1 DEF FirstInv, Fresh
    <2>4. ASSUME NEW o \in Ops, opState[o] \in {"running", "canceled"} PROVE opSession[o] = 1
        <3>1. opSession[o] \in Sessions /\ opSession[o] <= 1
            BY <2>1, <2>4, OperationOf
        <3> QED
            BY <3>1 DEF Sessions
    <2> QED
        BY <1>2, <1>3, <2>1, <2>2, <2>3, <2>4
<1>4. ASSUME session = 1, inflight' = inflight,
             Active(1, ChatOps)' = Active(1, ChatOps), Ends' = Ends
      PROVE  inflight' = Waited' + Ends'
    BY <1>3, <1>4 DEF Waited
<1>5. ASSUME UNCHANGED operations PROVE Active(1, ChatOps)' = Active(1, ChatOps)
    BY <1>5 DEF operations, Active
<1>6. ASSUME UNCHANGED <<chan, held>> PROVE Ends' = Ends
    BY <1>6 DEF Ends
<1>7. ASSUME NEW s, Cancel(s), UNCHANGED opSession
      PROVE  Active(1, ChatOps)' = Active(1, ChatOps)
    BY <1>1, <1>7 DEF Cancel, Active, Ops
<1>8. CASE StartConnect \/ ConnectFailed
    BY <1>4, <1>5, <1>6, <1>8 DEF StartConnect, ConnectFailed, feeds
<1>9. CASE Connected
    <2>1. made = 0 /\ inflight' = inflight /\ UNCHANGED <<operations, chan, held>>
        BY <1>1, <1>9 DEF Connected
    <2>2. inflight = 0 /\ Started = {}
        BY <2>1 DEF CountInv
    <2>3. Active(1, ChatOps) = {}
        BY <2>2 DEF Active, Started, Ops
    <2>4. chan[1] = <<>> /\ held[1] = {}
        BY <1>1, <2>1 DEF FirstInv, Fresh
    <2>5. Waited' = 0
        BY <1>5, <2>1, <2>3, FS_EmptySet DEF Waited
    <2>6. Ends' = 0
        <3>1. DoneAt(<<>>) = {}
            BY DEF DoneAt
        <3>2. Ends = 0
            <4>1. Cardinality(DoneAt(chan[1])) = 0
                BY <2>4, <3>1, FS_EmptySet
            <4>2. Cardinality(DoneIn(held[1])) = 0
                BY <1>2, <2>4
            <4> QED
                BY <4>1, <4>2 DEF Ends
        <3> QED
            BY <1>6, <2>1, <3>2
    <2> QED
        BY <2>1, <2>2, <2>5, <2>6
<1>10. CASE Disconnect
    BY <1>1, <1>10 DEF Disconnect
<1>11. ASSUME NEW o \in ChatOps, SendText(o) PROVE inflight' = Waited' + Ends'
    <2>1. /\ session = 1 /\ opState[o] = "idle" /\ inflight' = inflight + 1
          /\ opState' = [opState EXCEPT ![o] = "running"]
          /\ opSession' = [opSession EXCEPT ![o] = 1] /\ UNCHANGED <<chan, held>>
        BY <1>11 DEF SendText, connection, feeds
    <2>2. Active(1, ChatOps)' = Active(1, ChatOps) \cup {o} /\ o \notin Active(1, ChatOps)
        BY <1>1, <1>11, <2>1 DEF Active, Ops
    <2>3. Waited' = Waited + 1
        BY <1>2, <2>2, FS_AddElement DEF Waited
    <2> QED
        BY <1>2, <1>3, <1>6, <2>1, <2>3
<1>12. ASSUME NEW o \in SubOps, Subscribe(o) PROVE FALSE
    <2>1. opState'[o] = "running"
        BY <1>1, <1>12 DEF Subscribe, Ops
    <2> QED
        BY <1>12, <2>1 DEF NoSubs
<1>13. CASE Esc
    BY <1>4, <1>6, <1>7, <1>13 DEF Esc, connection, feeds
<1>14. ASSUME NEW s \in Sessions, ShutdownSession(s) PROVE inflight' = Waited' + Ends'
    BY <1>4, <1>6, <1>7, <1>14 DEF ShutdownSession, feeds
<1>15. ASSUME NEW s \in Sessions, NEW e \in held[s], AgentEvent(s, e)
       PROVE  inflight' = Waited' + Ends'
    <2>1. /\ session = 1 /\ UNCHANGED <<operations, chan>>
          /\ held' = [held EXCEPT ![s] = held[s] \ {e}]
          /\ inflight' = IF e.kind = "done" /\ inflight > 0 THEN inflight - 1 ELSE inflight
        BY <1>15 DEF AgentEvent, connection
    <2>2. s = 1
        BY <1>3, <1>15, <2>1
    <2>3. held'[1] = {}
        <3>1. \A f \in held[1] : f = e
            BY <1>1, <1>15, <2>2 DEF FirstInv, OneInHand
        <3> QED
            BY <1>1, <2>1, <2>2, <3>1
    <2>4. Ends' = Cardinality(DoneAt(chan[1]))
        <3>1. Cardinality(DoneIn(held'[1])) = 0
            BY <2>3, FS_EmptySet DEF DoneIn
        <3>2. Ends' = Cardinality(DoneAt(chan[1])) + 0
            BY <2>1, <3>1 DEF Ends
        <3> QED
            BY <1>2, <3>2
    <2>5. Ends = Cardinality(DoneAt(chan[1])) + IF e.kind = "done" THEN 1 ELSE 0
        BY <1>2, <1>15, <2>2 DEF Ends
    <2>6. Waited' = Waited
        BY <1>5, <2>1 DEF Waited
    <2>7. inflight = Waited + Ends
        BY <1>3, <2>1
    <2> QED
        BY <1>2, <2>1, <2>4, <2>5, <2>6, <2>7
<1>16. ASSUME NEW s \in Sessions, ListenerTakes(s) PROVE inflight' = Waited' + Ends'
    <2>1. /\ session = 1 /\ inflight' = inflight /\ UNCHANGED operations
          /\ chan[s] # <<>> /\ waiting[s] > 0
          /\ chan' = [chan EXCEPT ![s] = Tail(chan[s])]
          /\ held' = [held EXCEPT ![s] = held[s] \cup {Head(chan[s])}]
        BY <1>16 DEF ListenerTakes, connection
    <2>2. CASE s # 1
        <3>1. chan'[1] = chan[1] /\ held'[1] = held[1]
            BY <1>1, <2>1, <2>2
        <3> QED
            BY <1>4, <1>5, <2>1, <3>1 DEF Ends
    <2>3. CASE s = 1
        <3>1. held[1] = {}
            BY <1>1, <2>1, <2>3 DEF FirstInv, OneInHand
        <3> DEFINE h == Head(chan[1])
                   n == IF h.kind = "done" THEN 1 ELSE 0
        <3>2. held'[1] = {h} /\ chan'[1] = Tail(chan[1]) /\ Tail(chan[1]) \in Seq(Events)
            BY <1>1, <2>1, <2>3, <3>1
        <3>3. Cardinality(DoneIn({h})) = n
            <4>1. DoneIn({h}) = IF h.kind = "done" THEN {h} ELSE {}
                BY DEF DoneIn
            <4> QED
                BY <4>1, FS_EmptySet, FS_Singleton
        <3>4. Cardinality(DoneAt(chan[1])) = Cardinality(DoneAt(Tail(chan[1]))) + n
            BY <1>1, <2>1, <2>3, CountedDone
        <3> HIDE DEF n
        <3>5. Ends' = Cardinality(DoneAt(Tail(chan[1]))) + n
            BY <3>2, <3>3 DEF Ends
        <3>6. Ends = Cardinality(DoneAt(chan[1]))
            BY <1>2, <3>1 DEF Ends
        <3> QED
            BY <1>4, <1>5, <2>1, <3>4, <3>5, <3>6
    <2> QED
        BY <2>2, <2>3
<1>17. ASSUME NEW s \in Sessions, ListenerQuits(s) PROVE inflight' = Waited' + Ends'
    BY <1>4, <1>5, <1>6, <1>17 DEF ListenerQuits, connection
<1>18. ASSUME NEW o \in Ops, NEW kind \in {"content", "done"},
              opSession[o] = 1, Put(1, Event(1, kind)), held' = held
       PROVE  Ends' = Ends + IF kind = "done" THEN 1 ELSE 0
    <2> DEFINE e == Event(1, kind)
    <2>1. e \in Events /\ e.kind = kind
        BY <1>1 DEF Event, Events, Inv, TypeOK
    <2>2. chan'[1] = Append(chan[1], e)
        BY <1>1, <1>18 DEF Put
    <2> HIDE DEF e
    <2>3. Cardinality(DoneAt(chan'[1]))
            = Cardinality(DoneAt(chan[1])) + IF kind = "done" THEN 1 ELSE 0
        BY <1>1, <2>1, <2>2, CountedDone
    <2>4. Cardinality(DoneIn(held[1])) \in Nat
        <3>1. CASE held[1] = {}
            BY <1>2, <3>1
        <3>2. CASE held[1] # {}
            BY <1>2, <3>2
        <3> QED
            BY <3>1, <3>2
    <2> QED
        BY <1>2, <1>18, <2>3, <2>4 DEF Ends
<1>19. ASSUME NEW o \in Ops, OpPublishes(o) PROVE inflight' = Waited' + Ends'
    <2>1. session = 1 /\ inflight' = inflight /\ UNCHANGED operations /\ held' = held
        BY <1>19 DEF OpPublishes, connection
    <2>2. opSession[o] = 1
        BY <1>3, <1>19, <2>1 DEF OpPublishes
    <2>3. Ends' = Ends
        BY <1>2, <1>18, <1>19, <2>1, <2>2 DEF OpPublishes
    <2> QED
        BY <1>4, <1>5, <2>1, <2>3
<1>20. ASSUME NEW o \in Ops, OpEnds(o) PROVE inflight' = Waited' + Ends'
    <2>1. /\ session = 1 /\ inflight' = inflight /\ UNCHANGED opSession /\ held' = held
          /\ opState[o] \in {"running", "canceled"}
          /\ opState' = [opState EXCEPT ![o] = "ended"]
        BY <1>20 DEF OpEnds, connection
    <2>2. opSession[o] = 1 /\ 1 \notin done
        BY <1>3, <2>1
    <2>3. Put(1, Event(1, "done"))
        BY <1>20, <2>2 DEF OpEnds
    <2>4. Ends' = Ends + 1
        BY <1>18, <2>1, <2>2, <2>3
    <2>5. o \in ChatOps
        BY <1>1, <2>1 DEF NoSubs, Ops
    <2>6. Active(1, ChatOps)' = Active(1, ChatOps) \ {o} /\ o \in Active(1, ChatOps)
        BY <1>1, <2>1, <2>2, <2>5 DEF Active, Ops
    <2>7. Waited' = Waited - 1
        BY <1>2, <2>6, FS_RemoveElement DEF Waited
    <2> QED
        BY <1>2, <1>3, <2>1, <2>4, <2>7
<1>21. CASE UNCHANGED vars
    BY <1>4, <1>5, <1>6, <1>21 DEF vars, connection, feeds
<1> QED
    BY <1>8, <1>9, <1>10, <1>11, <1>12, <1>13, <1>14, <1>15, <1>16, <1>17, <1>19, <1>20, <1>21
    DEF Next, UpdateLoop, Delivery, Listeners, Background

LEMMA CountAlways == Spec => []CountInv
<1>1. Init => CountInv
    <2> SUFFICES ASSUME Init PROVE CountInv
        OBVIOUS
    <2>1. Started = {} /\ IsFiniteSet(Started)
        BY FS_EmptySet DEF Init, Started
    <2>2. session = 0 /\ inflight = 0
        BY DEF Init, None
    <2> QED
        BY <2>1, <2>2 DEF CountInv, InflightExact
<1>2. Inv /\ FirstInv /\ CountInv /\ [Next]_vars /\ Inv' /\ FirstInv' => CountInv'
    BY StartedStep, CountStep DEF CountInv
<1> QED
    BY <1>1, <1>2, InvAlways, FirstAlways, PTL DEF Spec


------------------------------------------------------------------------------
\* Every reachable state of the application and its sessions is well formed.
THEOREM BridgeTypeCorrect == Spec => []TypeOK
<1>1. Inv => TypeOK
    BY DEF Inv
<1> QED
    BY <1>1, InvAlways, PTL

\* The session in use always has a listener, whatever connects, disconnects and
\* late events came before (armListener, listening; bridge.go, app.go).
THEOREM SessionNeverDeaf == Spec => []NeverDeaf
<1>1. Inv => NeverDeaf
    BY DEF Inv
<1> QED
    BY <1>1, InvAlways, PTL

\* On a first connection without subscriptions App.inflight is exact: sendText and
\* sendSurfaceAction count an operation, handleStreamDone counts it off (app.go), and
\* its StreamDoneEvent is neither lost nor doubled on the way.
THEOREM InflightIsExact == Spec => []InflightExact
<1>1. CountInv => InflightExact
    BY DEF CountInv
<1> QED
    BY <1>1, CountAlways, PTL

\* listenEvents and armListener (bridge.go) implement EventFeed for the first connection:
\* the events of its session are handled in the order they were published, each once,
\* whatever is connected, disconnected and shut down meanwhile.
THEOREM BridgeImplementsFeed == Spec => FeedSpec
<1>1. Init => Feed!Init
    <2> SUFFICES ASSUME Init PROVE Feed!Init
        OBVIOUS
    <2>1. \A s \in First : held[s] = {} /\ chan[s] = <<>> /\ seen[s] = 0
        BY DEF Init, First
    <2>2. Numbers(SetToSeq({}) \o <<>>) = <<>>
        BY SmallSetToSeq DEF Numbers
    <2>3. FeedPending = [s \in First |-> <<>>] /\ FeedSeen = [s \in First |-> 0]
        BY <2>1, <2>2 DEF FeedPending, FeedSeen
    <2> QED
        BY <2>3 DEF Feed!Init, FeedPending, FeedSeen
<1>2. Inv /\ FirstInv /\ [Next]_vars /\ Inv' /\ FirstInv' => [Feed!Next]_<<FeedPending, FeedSeen>>
    BY FeedStep
<1> QED
    BY <1>1, <1>2, InvAlways, FirstAlways, PTL DEF Spec, FeedSpec, Feed!Spec, FeedPending, FeedSeen
==============================================================================
