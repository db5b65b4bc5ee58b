------------------------------- MODULE Session -------------------------------
(***************************************************************************)
(* The life of the operations of one agent connection                      *)
(* (internal/agent/session.go).  Send, SendStreaming and Subscribe each    *)
(* start a goroutine that derives a cancelable context from the caller's   *)
(* background context, records the cancel function in Session.cancels      *)
(* under an operation key, does its work, reports StreamDoneEvent,         *)
(* releases the key and leaves the wait group.  Esc cancels everything in  *)
(* the map (CancelActive); Shutdown cancels the session context, drains    *)
(* the map, waits for the wait group up to shutdownGrace and destroys the  *)
(* connection.                                                             *)
(*                                                                         *)
(* What an operation publishes while it runs is the subject of StreamPump; *)
(* here only the fill level of the event channel matters, because a full   *)
(* channel is what makes a goroutine wait before it can release its key.   *)
(***************************************************************************)
EXTENDS Naturals, FiniteSets

CONSTANTS
    Ops,             \* the calls to Send / SendStreaming / Subscribe
    Keys,            \* operation keys: "send:<msg>", "stream:<msg>", "subscribe:<task>"
    KeyOf,           \* the key each call registers under
    NoOp,            \* an absent entry of the cancels map
    EventBufferSize  \* capacity of the session's event channel

ASSUME SessionAssumption ==
    /\ IsFiniteSet(Ops)
    /\ NoOp \notin Ops
    /\ KeyOf \in [Ops -> Keys]
    /\ EventBufferSize \in Nat \ {0}

VARIABLES
    pc,         \* where the goroutine of each operation is
    opCtx,      \* the operation's own context
    cancels,    \* Session.cancels: operation key -> operation whose cancel it holds
    wg,         \* Session.wg
    sessCtx,    \* Session.ctx
    queued,     \* events sitting in Session.events
    retired,    \* the application dropped the session and spawned Shutdown
    shutdown,   \* progress of Shutdown
    graceOver   \* Shutdown stopped waiting because shutdownGrace expired

vars == <<pc, opCtx, cancels, wg, sessCtx, queued, retired, shutdown, graceOver>>

Stages   == {"idle", "running", "reporting", "releasing", "unwinding", "exited"}
Contexts == {"none", "live", "canceled"}

Counted  == {o \in Ops : pc[o] \in Stages \ {"idle", "exited"}}
InFlight == {o \in Ops : pc[o] \in {"running", "reporting", "releasing"}}
Gone     == {o \in Ops : pc[o] \in {"idle", "exited"}}

\* The map holds the cancel function of o.
Held(o) == \E k \in Keys : cancels[k] = o

\* (variant) The map is emptied but the cancel functions are not called.
ForgetEveryone == UNCHANGED opCtx /\ cancels' = [k \in Keys |-> NoOp]

\* Calling every recorded cancel function, as CancelActive and Shutdown do.
CancelEveryone == /\ opCtx' = [o \in Ops |-> IF Held(o) THEN "canceled" ELSE opCtx[o]]
                  /\ cancels' = [k \in Keys |-> NoOp]

Init ==
    /\ pc = [o \in Ops |-> "idle"]
    /\ opCtx = [o \in Ops |-> "none"]
    /\ cancels = [k \in Keys |-> NoOp]
    /\ wg = 0
    /\ sessCtx = "live"
    /\ queued = 0
    /\ retired = FALSE
    /\ shutdown = "open"
    /\ graceOver = FALSE

------------------------------------------------------------------------------
(* Calls of the application, all made on its update goroutine.             *)

\* (variant) The goroutine never joins the wait group.
StartUncounted(o) ==
    /\ ~retired /\ sessCtx = "live" /\ pc[o] = "idle"
    /\ pc' = [pc EXCEPT ![o] = "running"]
    /\ opCtx' = [opCtx EXCEPT ![o] = "live"]
    /\ cancels' = [cancels EXCEPT ![KeyOf[o]] = o]
    /\ UNCHANGED <<wg, sessCtx, queued, retired, shutdown, graceOver>>

\* (variant) The cancel function is not recorded.
StartUnregistered(o) ==
    /\ ~retired /\ sessCtx = "live" /\ pc[o] = "idle"
    /\ pc' = [pc EXCEPT ![o] = "running"]
    /\ opCtx' = [opCtx EXCEPT ![o] = "live"]
    /\ wg' = wg + 1
    /\ UNCHANGED <<cancels, sessCtx, queued, retired, shutdown, graceOver>>

\* SendRaw, SendRawStreaming, Subscribe: register the key, join the wait
\* group, start the goroutine.  The application makes no call on a session
\* after it has handed it to Shutdown.
Start(o) ==
    /\ ~retired
    /\ sessCtx = "live"
    /\ pc[o] = "idle"
    /\ pc' = [pc EXCEPT ![o] = "running"]
    /\ opCtx' = [opCtx EXCEPT ![o] = "live"]
    /\ cancels' = [cancels EXCEPT ![KeyOf[o]] = o]
    /\ wg' = wg + 1
    /\ UNCHANGED <<sessCtx, queued, retired, shutdown, graceOver>>

\* Esc.
CancelActive ==
    /\ ~retired
    /\ CancelEveryone
    /\ UNCHANGED <<pc, wg, sessCtx, queued, retired, shutdown, graceOver>>

\* /disconnect, a second /connect, or quitting: the session is dropped and
\* Shutdown starts on a goroutine of its own.
Retire ==
    /\ ~retired
    /\ retired' = TRUE
    /\ UNCHANGED <<pc, opCtx, cancels, wg, sessCtx, queued, shutdown, graceOver>>

\* The application takes one event off the channel.
Consume ==
    /\ queued > 0
    /\ queued' = queued - 1
    /\ UNCHANGED <<pc, opCtx, cancels, wg, sessCtx, retired, shutdown, graceOver>>

------------------------------------------------------------------------------
(* The goroutine of an operation.                                          *)

Moves(o, from, to) == pc[o] = from /\ pc' = [pc EXCEPT ![o] = to]

\* A non-blocking publish that finds room; without room it changes nothing.
Publish(o) ==
    /\ pc[o] = "running"
    /\ queued < EventBufferSize
    /\ queued' = queued + 1
    /\ UNCHANGED <<pc, opCtx, cancels, wg, sessCtx, retired, shutdown, graceOver>>

\* The agent answers or ends the stream.
AgentEnds(o) ==
    /\ Moves(o, "running", "reporting")
    /\ UNCHANGED <<opCtx, cancels, wg, sessCtx, queued, retired, shutdown, graceOver>>

\* The transport notices the canceled operation context.
CancelSeen(o) ==
    /\ opCtx[o] = "canceled"
    /\ Moves(o, "running", "reporting")
    /\ UNCHANGED <<opCtx, cancels, wg, sessCtx, queued, retired, shutdown, graceOver>>

\* publishWait(StreamDoneEvent): the event is queued, or the channel stays
\* full for publishTimeout, or the session context ends the wait.
ReportDone(o) ==
    /\ Moves(o, "reporting", "releasing")
    /\ \/ queued < EventBufferSize /\ queued' = queued + 1
       \/ queued = EventBufferSize /\ UNCHANGED queued
       \/ sessCtx = "canceled" /\ UNCHANGED queued
    /\ UNCHANGED <<opCtx, cancels, wg, sessCtx, retired, shutdown, graceOver>>

\* release: delete the key, whoever registered it last, then cancel.
Release(o) ==
    /\ Moves(o, "releasing", "unwinding")
    /\ cancels' = [cancels EXCEPT ![KeyOf[o]] = NoOp]
    /\ opCtx' = [opCtx EXCEPT ![o] = "canceled"]
    /\ UNCHANGED <<wg, sessCtx, queued, retired, shutdown, graceOver>>

\* The deferred wg.Done, which runs after release.
Unwind(o) ==
    /\ Moves(o, "unwinding", "exited")
    /\ wg' = wg - 1
    /\ UNCHANGED <<opCtx, cancels, sessCtx, queued, retired, shutdown, graceOver>>

------------------------------------------------------------------------------
(* The goroutine of Shutdown (StopPush, its first call, is in PushNotify). *)

ShutdownSession ==
    /\ retired
    /\ shutdown = "open"
    /\ shutdown' = "stopped"
    /\ sessCtx' = "canceled"
    /\ UNCHANGED <<pc, opCtx, cancels, wg, queued, retired, graceOver>>

ShutdownDrain ==
    /\ shutdown = "stopped"
    /\ shutdown' = "waiting"
    /\ CancelEveryone
    /\ UNCHANGED <<pc, wg, sessCtx, queued, retired, graceOver>>

ShutdownJoined ==
    /\ shutdown = "waiting"
    /\ wg = 0
    /\ shutdown' = "destroyed"
    /\ UNCHANGED <<pc, opCtx, cancels, wg, sessCtx, queued, retired, graceOver>>

ShutdownExpired ==
    /\ shutdown = "waiting"
    /\ wg # 0
    /\ shutdown' = "destroyed"
    /\ graceOver' = TRUE
    /\ UNCHANGED <<pc, opCtx, cancels, wg, sessCtx, queued, retired>>

------------------------------------------------------------------------------
Caller    == CancelActive \/ Retire \/ Consume \/ \E o \in Ops : Start(o)
Goroutine(o) == \/ Publish(o) \/ AgentEnds(o) \/ CancelSeen(o)
                \/ ReportDone(o) \/ Release(o) \/ Unwind(o)
Shutdown  == ShutdownSession \/ ShutdownDrain \/ ShutdownJoined \/ ShutdownExpired

Next == Caller \/ Shutdown \/ \E o \in Ops : Goroutine(o)

Spec == Init /\ [][Next]_vars

\* What the scheduler and the timers guarantee: a goroutine that can run does,
\* a canceled context ends the transport's read, and Shutdown proceeds.  The
\* agent is under no obligation to answer, and nobody has to read the channel.
Fairness ==
    /\ \A o \in Ops : /\ WF_vars(CancelSeen(o))
                      /\ WF_vars(ReportDone(o))
                      /\ WF_vars(Release(o))
                      /\ WF_vars(Unwind(o))
    /\ WF_vars(Shutdown)

FairSpec == Spec /\ Fairness
------------------------------------------------------------------------------
(* Properties.                                                             *)

TypeOK ==
    /\ pc \in [Ops -> Stages]
    /\ opCtx \in [Ops -> Contexts]
    /\ cancels \in [Keys -> Ops \cup {NoOp}]
    /\ wg \in Nat
    /\ sessCtx \in {"live", "canceled"}
    /\ queued \in 0..EventBufferSize
    /\ retired \in BOOLEAN
    /\ shutdown \in {"open", "stopped", "waiting", "destroyed"}
    /\ graceOver \in BOOLEAN

\* No two calls share an operation key: true of sends and streams, whose key
\* is the message ID; two subscriptions to one task do share theirs.
DistinctKeys == \A a, b \in Ops : KeyOf[a] = KeyOf[b] => a = b

\* As long as an operation is in flight and not yet canceled, the map holds
\* its cancel function, so Esc and Shutdown can still reach it.
Cancelable == \A o \in InFlight : opCtx[o] = "live" => cancels[KeyOf[o]] = o

\* Once Shutdown has drained the map, no operation is left with a live
\* context: what is still running is on its way out.
DrainComplete ==
    shutdown \in {"waiting", "destroyed"} => \A o \in Ops : opCtx[o] # "live"

\* A Shutdown that did not run out of grace destroys the connection only
\* after every goroutine of the session has left.
DestroyAfterJoin == shutdown = "destroyed" /\ ~graceOver => Gone = Ops

\* What the safety properties rest on.  The cancels map holds no stale entry:
\* whoever it names is in flight and registered there.  Only a goroutine that has
\* not started has no context, and one that has released its key has a canceled one.
\* The wait group counts exactly the goroutines on their way.
Lifecycle ==
    /\ \A k \in Keys : cancels[k] # NoOp => /\ cancels[k] \in InFlight
                                            /\ KeyOf[cancels[k]] = k
    /\ \A o \in Ops : /\ pc[o] = "idle" <=> opCtx[o] = "none"
                      /\ pc[o] \in {"unwinding", "exited"} => opCtx[o] = "canceled"
    /\ shutdown # "open" => retired
    /\ wg = Cardinality(Counted)

\* session.go:270 "CancelActive cancels every in-flight send/stream/subscribe
\* operation": after Esc nothing in flight still has a live context.
EscCancelsAll == [][CancelActive => \A o \in InFlight : opCtx'[o] = "canceled"]_vars

\* A canceled operation leaves, even if nobody reads the events any more.
CanceledLeaves ==
    \A o \in Ops : (pc[o] = "running" /\ opCtx[o] = "canceled") ~> pc[o] = "exited"

\* session.go:478 "Shutdown cancels all operations": once the application has
\* dropped the session, every operation comes to an end.
ShutdownStopsAll == retired ~> (shutdown = "destroyed" /\ Gone = Ops)

\* Every operation comes to an end once it is canceled, by Esc or by the Shutdown of a
\* session that was dropped.
AllLeave == CanceledLeaves /\ ShutdownStopsAll
==============================================================================
