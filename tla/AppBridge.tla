------------------------------ MODULE AppBridge ------------------------------
(***************************************************************************)
(* The application and its sessions (internal/tui/app.go, bridge.go,       *)
(* view_chat.go).  All handlers run one at a time on Bubble Tea's update   *)
(* loop.  A Cmd is a goroutine that produces one message; messages of      *)
(* different Cmds reach the loop in any order.  The Cmds that matter here  *)
(* are startConnect's, which ends in a connectResultMsg, and listenEvents, *)
(* which takes one event off a session's channel and hands it over as an   *)
(* agentEventMsg; the handler arms the next listener.  A latch, listening, *)
(* is meant to keep the listeners to one.                                  *)
(*                                                                         *)
(* A session is reduced to its channel, its Done channel and the           *)
(* operations running on it; Session and StreamPump refine those.          *)
(***************************************************************************)
EXTENDS Naturals, Sequences, SequencesExt, FiniteSets

CONSTANTS
    MaxSessions,   \* bound: connections made in one run of the program
    ChatOps,       \* sends and streams: sendText, sendSurfaceAction
    SubOps,        \* subscriptions from the tasks pane
    MaxContent     \* bound: events other than StreamDone, per session

ASSUME BridgeAssumption ==
    /\ MaxSessions \in Nat
    /\ MaxContent \in Nat
    /\ ChatOps \cap SubOps = {}

Sessions == 1..MaxSessions
None     == 0
Ops      == ChatOps \cup SubOps

VARIABLES
    session,     \* App.session
    made,        \* sessions created so far
    connecting,  \* App.connecting: a startConnect Cmd is out
    listening,   \* App.listening
    inflight,    \* App.inflight
    retired,     \* sessions handed to a Shutdown goroutine
    done,        \* sessions whose Done channel is closed
    chan,        \* Session.events
    published,   \* how many events each session has published
    waiting,     \* listeners blocked on each session
    held,        \* events taken by listeners, on their way to the update loop
    seen,        \* number of the event handled last
    opState,     \* the operations
    opSession    \* the session each runs on

connection == <<session, made, connecting, retired, done>>
feeds      == <<chan, published, waiting, held, seen>>
operations == <<opState, opSession>>
vars       == <<connection, listening, inflight, feeds, operations>>

OpStates == {"idle", "running", "canceled", "ended"}
Events   == [n : Nat, kind : {"content", "done"}]
Event(s, kind) == [n |-> published[s] + 1, kind |-> kind]

Active(s, ops) == {o \in ops : opSession[o] = s /\ opState[o] \in {"running", "canceled"}}

Init ==
    /\ session = None
    /\ made = 0
    /\ connecting = FALSE
    /\ listening = FALSE
    /\ inflight = 0
    /\ retired = {}
    /\ done = {}
    /\ chan = [s \in Sessions |-> <<>>]
    /\ published = [s \in Sessions |-> 0]
    /\ waiting = [s \in Sessions |-> 0]
    /\ held = [s \in Sessions |-> {}]
    /\ seen = [s \in Sessions |-> 0]
    /\ opState = [o \in Ops |-> "idle"]
    /\ opSession = [o \in Ops |-> None]

\* armListener, for the current session s and the latch as the handler leaves
\* it: nothing without a session, nothing while the latch is set.
ArmListener(s, latch) ==
    IF s = None \/ latch
    THEN listening' = latch /\ UNCHANGED waiting
    ELSE listening' = TRUE /\ waiting' = [waiting EXCEPT ![s] = @ + 1]

Cancel(s) == opState' = [o \in Ops |-> IF opSession[o] = s /\ opState[o] = "running"
                                       THEN "canceled" ELSE opState[o]]

------------------------------------------------------------------------------
(* Commands and keys, on the update loop.                                  *)

\* /connect, refused while a connection is being made.
StartConnect ==
    /\ ~connecting
    /\ connecting' = TRUE
    /\ UNCHANGED <<session, made, retired, done, listening, inflight, feeds, operations>>

\* handleConnectResult with an error: the session in use, if any, stays.
ConnectFailed ==
    /\ connecting
    /\ connecting' = FALSE
    /\ UNCHANGED <<session, made, retired, done, listening, inflight, feeds, operations>>

\* handleConnectResult with a session: the one in use is retired, the latch
\* released, and the new one listened to.
Connected ==
    /\ connecting
    /\ made < MaxSessions
    /\ connecting' = FALSE
    /\ made' = made + 1
    /\ session' = made + 1
    /\ retired' = retired \cup ({session} \ {None})
    /\ ArmListener(made + 1, listening /\ session = None)
    /\ UNCHANGED <<done, inflight, chan, published, held, seen, operations>>

\* (variant) /disconnect leaves the latch to the old listener.
DisconnectKeepingLatch ==
    /\ retired' = retired \cup ({session} \ {None})
    /\ session' = None
    /\ inflight' = 0
    /\ UNCHANGED <<made, connecting, done, listening, feeds, operations>>

\* /disconnect.
Disconnect ==
    /\ retired' = retired \cup ({session} \ {None})
    /\ session' = None
    /\ listening' = FALSE
    /\ inflight' = 0
    /\ UNCHANGED <<made, connecting, done, feeds, operations>>

\* (variant) Sending arms a listener whatever the latch says.
SendTextArming(o) ==
    /\ session # None
    /\ opState[o] = "idle"
    /\ opState' = [opState EXCEPT ![o] = "running"]
    /\ opSession' = [opSession EXCEPT ![o] = session]
    /\ inflight' = inflight + 1
    /\ ArmListener(session, FALSE)
    /\ UNCHANGED <<connection, chan, published, held, seen>>

\* sendText and sendSurfaceAction count the operation they start.
SendText(o) ==
    /\ session # None
    /\ opState[o] = "idle"
    /\ opState' = [opState EXCEPT ![o] = "running"]
    /\ opSession' = [opSession EXCEPT ![o] = session]
    /\ inflight' = inflight + 1
    /\ UNCHANGED <<connection, listening, feeds>>

\* actionSubscribe, in the tasks pane, does not.
Subscribe(o) ==
    /\ session # None
    /\ opState[o] = "idle"
    /\ opState' = [opState EXCEPT ![o] = "running"]
    /\ opSession' = [opSession EXCEPT ![o] = session]
    /\ UNCHANGED <<connection, listening, inflight, feeds>>

\* Esc (cancelActive): ignored unless something is counted as in flight.
Esc ==
    /\ session # None
    /\ inflight > 0
    /\ Cancel(session)
    /\ UNCHANGED <<connection, listening, inflight, feeds, opSession>>

\* An agentEventMsg arrives: release the latch, apply the event, re-arm.  The
\* message does not say which session it came from.
AgentEvent(s, e) ==
    /\ e \in held[s]
    /\ held' = [held EXCEPT ![s] = @ \ {e}]
    /\ seen' = [seen EXCEPT ![s] = e.n]
    /\ inflight' = IF e.kind = "done" /\ inflight > 0 THEN inflight - 1 ELSE inflight
    /\ ArmListener(session, FALSE)
    /\ UNCHANGED <<connection, chan, published, operations>>

------------------------------------------------------------------------------
(* Goroutines.                                                             *)

\* The listener of session s takes an event, or finds the session torn down;
\* if both are possible the select picks either.
ListenerTakes(s) ==
    /\ waiting[s] > 0
    /\ chan[s] # <<>>
    /\ waiting' = [waiting EXCEPT ![s] = @ - 1]
    /\ chan' = [chan EXCEPT ![s] = Tail(@)]
    /\ held' = [held EXCEPT ![s] = @ \cup {Head(chan[s])}]
    /\ UNCHANGED <<connection, listening, inflight, published, seen, operations>>

ListenerQuits(s) ==
    /\ waiting[s] > 0
    /\ s \in done
    /\ waiting' = [waiting EXCEPT ![s] = @ - 1]
    /\ UNCHANGED <<connection, listening, inflight, chan, published, held, seen, operations>>

\* Shutdown of a retired session: its Done channel closes, its operations are
\* canceled.
ShutdownSession(s) ==
    /\ s \in retired \ done
    /\ done' = done \cup {s}
    /\ Cancel(s)
    /\ UNCHANGED <<session, made, connecting, retired, listening, inflight, feeds, opSession>>

Put(s, e) == /\ chan' = [chan EXCEPT ![s] = Append(@, e)]
             /\ published' = [published EXCEPT ![s] = @ + 1]

\* An operation publishes an event for the view.
OpPublishes(o) ==
    /\ opState[o] = "running"
    /\ published[opSession[o]] < MaxContent
    /\ Put(opSession[o], Event(opSession[o], "content"))
    /\ UNCHANGED <<connection, listening, inflight, waiting, held, seen, operations>>

\* (variant) The operation ends without telling.
OpEndsSilently(o) ==
    /\ opState[o] \in {"running", "canceled"}
    /\ opState' = [opState EXCEPT ![o] = "ended"]
    /\ UNCHANGED <<connection, listening, inflight, feeds, opSession>>

\* It ends with a StreamDoneEvent, which a session that has shut down may lose.
\* (So may one whose channel stays full for publishTimeout: StreamPump.  Here
\* the update loop is taken never to stall that long.)
OpEnds(o) ==
    /\ opState[o] \in {"running", "canceled"}
    /\ opState' = [opState EXCEPT ![o] = "ended"]
    /\ \/ Put(opSession[o], Event(opSession[o], "done"))
       \/ opSession[o] \in done /\ UNCHANGED <<chan, published>>
    /\ UNCHANGED <<connection, listening, inflight, waiting, held, seen, opSession>>

------------------------------------------------------------------------------
UpdateLoop == \/ StartConnect \/ ConnectFailed \/ Connected \/ Disconnect \/ Esc
              \/ \E o \in ChatOps : SendText(o)
              \/ \E o \in SubOps : Subscribe(o)
Delivery   == \E s \in Sessions : \E e \in held[s] : AgentEvent(s, e)
Listeners  == \E s \in Sessions : ListenerTakes(s) \/ ListenerQuits(s)
Background == \/ \E s \in Sessions : ShutdownSession(s)
              \/ \E o \in Ops : OpPublishes(o) \/ OpEnds(o)

Next == UpdateLoop \/ Delivery \/ Listeners \/ Background

Spec == Init /\ [][Next]_vars

\* The update loop takes every message it is sent, and goroutines run.  The
\* user, the agent and the operations owe nothing.
FairSpec ==
    /\ Spec
    /\ \A s \in Sessions : /\ WF_vars(\E e \in held[s] : AgentEvent(s, e))
                           /\ WF_vars(ListenerTakes(s))
                           /\ WF_vars(ListenerQuits(s))

------------------------------------------------------------------------------
(* Properties.                                                             *)

TypeOK ==
    /\ session \in Sessions \cup {None}
    /\ made \in 0..MaxSessions
    /\ connecting \in BOOLEAN /\ listening \in BOOLEAN
    /\ inflight \in Nat
    /\ retired \subseteq Sessions /\ done \subseteq retired
    /\ chan \in [Sessions -> Seq(Events)]
    /\ published \in [Sessions -> Nat] /\ seen \in [Sessions -> Nat]
    /\ waiting \in [Sessions -> Nat]
    /\ held \in [Sessions -> SUBSET Events]
    /\ opState \in [Ops -> OpStates]
    /\ opSession \in [Ops -> Sessions \cup {None}]

Listening(s) == waiting[s] + Cardinality(held[s])

\* However connects, disconnects, failures and late events interleave, the
\* session in use is never deaf: a listener waits on it or brings an event.
\* (The latch must not be left set by a listener of a session that is gone.)
NeverDeaf == session # None => listening /\ Listening(session) > 0

\* On a first connection without subscriptions, App.inflight is the number of
\* operations the user is waiting for, those whose end is still on its way
\* included, until the user disconnects.
DoneOnItsWay(s) ==
    Cardinality({i \in DOMAIN chan[s] : chan[s][i].kind = "done"})
        + Cardinality({e \in held[s] : e.kind = "done"})
InflightExact ==
    session = 1 /\ (\A o \in SubOps : opState[o] = "idle")
        => inflight = Cardinality(Active(session, ChatOps)) + DoneOnItsWay(session)

\* Every event of a session in use is taken off its channel.
EventsReachApp ==
    \A s \in Sessions : (session = s /\ chan[s] # <<>>) ~> (chan[s] = <<>> \/ session # s)

\* bridge.go:14 "a torn-down session cannot leave it blocked forever".
ListenersLeave == \A s \in Sessions : (s \in done) ~> (waiting[s] = 0)

\* For the first connection, which no late event of an earlier one can disturb,
\* the bridge is a faithful feed: the events in hand and then those in the channel
\* are handled in publication order, whatever is connected next.
Numbers(q) == [i \in DOMAIN q |-> q[i].n]
First == Sessions \cap {1}
Feed == INSTANCE EventFeed WITH
    Feeds   <- First,
    pending <- [s \in First |-> Numbers(SetToSeq(held[s]) \o chan[s])],
    seen    <- [s \in First |-> seen[s]]
FeedSpec == Feed!Spec

\* The bridge delivers: the feed of the first connection in order, every event of the
\* session in use, and no listener stays behind with a session that is gone.
FeedDelivers == FeedSpec /\ EventsReachApp /\ ListenersLeave
==============================================================================
