----------------------------- MODULE StreamPump ------------------------------
(***************************************************************************)
(* One operation of a session (internal/agent/session.go): the goroutine   *)
(* of SendRaw, which waits for one result, or pump, which ranges over the  *)
(* events of a stream and resubscribes with backoff when the stream ends   *)
(* before its task has settled.  Events go to the session's bounded        *)
(* channel, which the application may drain slowly or not at all: updates  *)
(* that find it full are dropped, and pump reports the loss with one       *)
(* StreamCompactedEvent before its StreamDoneEvent.                        *)
(*                                                                         *)
(* The agent is adversarial: it may send events of any state in any order, *)
(* answer a resubscription with any head, fail or go silent.  One task is  *)
(* followed; messages and artifacts are "content", told apart by nothing.  *)
(***************************************************************************)
EXTENDS Naturals, Sequences

CONSTANTS
    EventBufferSize,     \* capacity of Session.events
    ReconnectAttempts,   \* Session.reconnectAttempts
    MaxContent,          \* bound: artifacts and messages in one agent event
    MaxAgentEvents       \* bound: events the agent sends in one operation

ASSUME PumpAssumption ==
    /\ EventBufferSize \in Nat \ {0}
    /\ ReconnectAttempts \in Nat
    /\ MaxContent \in Nat
    /\ MaxAgentEvents \in Nat

VARIABLES
    op,        \* "send", "stream" or "subscribe"
    pc,        \* where the goroutine is
    known,     \* taskID # "": there is a task to resubscribe to
    lastState, \* the last task state observed, "none" if there was none
    snapshot,  \* the next event is the head of a resubscription
    outq,      \* events of the agent event in hand, still to be published
    dropped,   \* updates that found the channel full
    attempt,   \* resubscriptions tried
    iterErr,   \* how the last range over the stream ended
    doneErr,   \* the error the StreamDoneEvent will carry
    ctx,       \* the operation's context
    sessCtx,   \* the session's context, which publishWait selects on
    queued,    \* how many events sit in the channel
    shown,     \* the state of the last update the channel accepted
    trail,     \* the last two events the channel accepted
    waitedOut, \* a publishWait gave up: timeout or session shutdown
    received   \* events the agent has sent

vars == <<op, pc, known, lastState, snapshot, outq, dropped, attempt, iterErr,
          doneErr, ctx, sessCtx, queued, shown, trail, waitedOut, received>>
channel == <<queued, shown, trail>>

Parked   == {"inputRequired"}            \* the agent waits for the client
Terminal == {"completed"}
States   == {"working"} \cup Parked \cup Terminal
PumpOps  == {"stream", "subscribe"}

Update(s) == [kind |-> "update", state |-> s]
Report(k) == [kind |-> k, state |-> "none"]
Done(e)   == [kind |-> "done", state |-> e]
Events    == {Update(s) : s \in States}
             \cup {Report(k) : k \in {"content", "error", "reconnecting", "compacted"}}
             \cup {Done(e) : e \in {"none", "failed", "canceled"}}

\* What the agent sends: a task or a status update carries a state and
\* perhaps content; an artifact or a message is content alone; a message need
\* not belong to a task.
AgentEvents == [state : States \cup {"none"}, content : 0..MaxContent, ofTask : BOOLEAN]
Sendable(ev) == IF ev.state = "none" THEN ev.content = 1 ELSE ev.ofTask

\* eventsFor, taskEvents: the update first, then the content.
EventsFor(ev) ==
    (IF ev.state = "none" THEN <<>> ELSE <<Update(ev.state)>>)
        \o [i \in 1..ev.content |-> Report("content")]

\* (variant) Any leading update goes, whatever it says.
DropAnyUpdate(events, last) ==
    IF events # <<>> /\ events[1].kind = "update" THEN Tail(events) ELSE events

\* (variant) Nothing goes.
DropNothing(events, last) == events

\* dedupeSnapshot: a leading update that repeats the last state goes.
DedupeSnapshot(events, last) ==
    IF events # <<>> /\ events[1] = Update(last) THEN Tail(events) ELSE events

Room == queued < EventBufferSize

\* The channel takes one more event.  It is a FIFO, so what the application
\* will have seen when it has drained it is what went in.
Accept(e) ==
    /\ queued' = queued + 1
    /\ shown' = IF e.kind = "update" THEN e.state ELSE shown
    /\ trail' = IF Len(trail) < 2 THEN Append(trail, e) ELSE <<trail[2], e>>

Init ==
    /\ op \in {"send", "stream", "subscribe"}
    /\ pc = "range"
    /\ known = (op = "subscribe")
    /\ lastState = "none"
    /\ snapshot = FALSE
    /\ outq = <<>>
    /\ dropped = 0
    /\ attempt = 0
    /\ iterErr = "none"
    /\ doneErr = "none"
    /\ ctx = "live"
    /\ sessCtx = "live"
    /\ queued = 0
    /\ shown = "none"
    /\ trail = <<>>
    /\ waitedOut = FALSE
    /\ received = 0

\* finish: report the compaction if there is one, then the end.  SendRaw goes
\* straight to its StreamDoneEvent.
Finish(err) == pc' = "compacting" /\ doneErr' = err

\* publish: accepted if there is room, lost otherwise.
TryPublish(e) == IF Room THEN Accept(e) ELSE UNCHANGED channel

\* (variant) No timeout, no shutdown.
PublishBlocking(e) == Room /\ Accept(e) /\ UNCHANGED waitedOut

\* publishWait: accepted once there is room; given up after publishTimeout of
\* a full channel, or because the session shuts down.
PublishWait(e) ==
    \/ Room /\ Accept(e) /\ UNCHANGED waitedOut
    \/ (~Room \/ sessCtx = "canceled") /\ waitedOut' = TRUE /\ UNCHANGED channel

------------------------------------------------------------------------------
(* The range over the stream.                                              *)

\* An event arrives.  pump drops it if its context is canceled; SendRaw, whose
\* only event is its result, does not look.
Receive(ev) ==
    /\ pc = "range"
    /\ received < MaxAgentEvents
    /\ received' = received + 1
    /\ IF op \in PumpOps /\ ctx = "canceled"
       THEN Finish("canceled") /\ UNCHANGED <<known, lastState, snapshot, outq>>
       ELSE /\ pc' = "publishing"
            /\ known' = (known \/ ev.ofTask)
            /\ outq' = IF snapshot THEN DedupeSnapshot(EventsFor(ev), lastState)
                                   ELSE EventsFor(ev)
            /\ snapshot' = FALSE
            /\ lastState' = IF ev.state = "none" THEN lastState ELSE ev.state
            /\ UNCHANGED doneErr
    /\ UNCHANGED <<op, dropped, attempt, iterErr, ctx, sessCtx, channel, waitedOut>>

\* One publish of the loop over the translated events; only pump counts losses.
PublishOne ==
    /\ pc = "publishing"
    /\ outq # <<>>
    /\ outq' = Tail(outq)
    /\ TryPublish(Head(outq))
    /\ dropped' = IF Room \/ op = "send" THEN dropped ELSE dropped + 1
    /\ UNCHANGED <<op, pc, known, lastState, snapshot, attempt, iterErr, doneErr,
                   ctx, sessCtx, waitedOut, received>>

\* All published: SendRaw is done; pump leaves the range at a terminal state
\* and otherwise waits for the next event.
Published ==
    /\ pc = "publishing"
    /\ outq = <<>>
    /\ \/ op = "send" /\ Finish("none")
       \/ op \in PumpOps /\ lastState \in Terminal
          /\ Finish(IF ctx = "canceled" THEN "canceled" ELSE "none")
       \/ op \in PumpOps /\ lastState \notin Terminal
          /\ pc' = "range" /\ UNCHANGED doneErr
    /\ UNCHANGED <<op, known, lastState, snapshot, outq, dropped, attempt, iterErr,
                   ctx, sessCtx, channel, waitedOut, received>>

\* The stream ends: cleanly, with an error worth retrying, or with a fatal one
\* (fatalResubscribeErr).  A canceled context ends it too, and then whatever
\* the transport says, the error is the cancellation (mapCancel).
StreamEnd(err) ==
    /\ pc = "range"
    /\ op \in PumpOps
    /\ IF ctx = "canceled"
       THEN Finish("canceled") /\ UNCHANGED iterErr
       ELSE pc' = "ended" /\ iterErr' = err /\ UNCHANGED doneErr
    /\ UNCHANGED <<op, known, lastState, snapshot, outq, dropped, attempt, ctx,
                   sessCtx, channel, waitedOut, received>>

\* SendRaw's call fails: the error is published and ends the operation.
SendFails ==
    /\ pc = "range"
    /\ op = "send"
    /\ TryPublish(Report("error"))
    /\ Finish(IF ctx = "canceled" THEN "canceled" ELSE "failed")
    /\ UNCHANGED <<op, known, lastState, snapshot, outq, dropped, attempt, iterErr,
                   ctx, sessCtx, waitedOut, received>>

------------------------------------------------------------------------------
(* After the range: end, or resubscribe.                                   *)

CleanEnd == iterErr = "none"
Hopeless == ~known \/ iterErr = "fatal"

\* The agent has parked the task and closed the stream: the turn is over.
EndParked ==
    /\ pc = "ended"
    /\ CleanEnd /\ lastState \in Parked
    /\ Finish("none")
    /\ UNCHANGED <<op, known, lastState, snapshot, outq, dropped, attempt, iterErr,
                   ctx, sessCtx, channel, waitedOut, received>>

\* Nothing to resubscribe to, or no point in it.
EndHopeless ==
    /\ pc = "ended"
    /\ ~(CleanEnd /\ lastState \in Parked)
    /\ Hopeless
    /\ IF CleanEnd THEN UNCHANGED channel ELSE TryPublish(Report("error"))
    /\ Finish(IF CleanEnd THEN "none" ELSE "failed")
    /\ UNCHANGED <<op, known, lastState, snapshot, outq, dropped, attempt, iterErr,
                   ctx, sessCtx, waitedOut, received>>

\* One attempt more, or the last one has been used up.
TryAgain ==
    /\ pc = "ended"
    /\ ~(CleanEnd /\ lastState \in Parked)
    /\ ~Hopeless
    /\ attempt' = attempt + 1
    /\ IF attempt' > ReconnectAttempts
       THEN TryPublish(Report("error")) /\ Finish("failed")
       ELSE TryPublish(Report("reconnecting")) /\ pc' = "backoff" /\ UNCHANGED doneErr
    /\ UNCHANGED <<op, known, lastState, snapshot, outq, dropped, iterErr, ctx,
                   sessCtx, waitedOut, received>>

\* The timer of backoffSleep fires and the context is still live.
Resubscribe ==
    /\ pc = "backoff"
    /\ ctx = "live"
    /\ pc' = "range"
    /\ snapshot' = TRUE
    /\ UNCHANGED <<op, known, lastState, outq, dropped, attempt, iterErr, doneErr,
                   ctx, sessCtx, channel, waitedOut, received>>

CanceledInBackoff ==
    /\ pc = "backoff"
    /\ ctx = "canceled"
    /\ Finish("canceled")
    /\ UNCHANGED <<op, known, lastState, snapshot, outq, dropped, attempt, iterErr,
                   ctx, sessCtx, channel, waitedOut, received>>

------------------------------------------------------------------------------
(* finish.                                                                 *)

\* (variant) The loss is not reported.
ReportNoCompaction ==
    /\ pc = "compacting"
    /\ pc' = "finishing"
    /\ UNCHANGED <<op, known, lastState, snapshot, outq, dropped, attempt, iterErr,
                   doneErr, ctx, sessCtx, channel, waitedOut, received>>

ReportCompaction ==
    /\ pc = "compacting"
    /\ pc' = "finishing"
    /\ IF dropped > 0 THEN PublishWait(Report("compacted")) ELSE UNCHANGED <<channel, waitedOut>>
    /\ UNCHANGED <<op, known, lastState, snapshot, outq, dropped, attempt, iterErr,
                   doneErr, ctx, sessCtx, received>>

ReportDone ==
    /\ pc = "finishing"
    /\ pc' = "exited"
    /\ PublishWait(Done(doneErr))
    /\ UNCHANGED <<op, known, lastState, snapshot, outq, dropped, attempt, iterErr,
                   doneErr, ctx, sessCtx, received>>

------------------------------------------------------------------------------
(* The surroundings.                                                       *)

\* The application takes an event off the channel.
Consume ==
    /\ queued > 0
    /\ queued' = queued - 1
    /\ UNCHANGED <<op, pc, known, lastState, snapshot, outq, dropped, attempt, iterErr,
                   doneErr, ctx, sessCtx, shown, trail, waitedOut, received>>

\* Esc, or Shutdown draining the cancels map.
Cancel ==
    /\ ctx = "live"
    /\ pc # "exited"
    /\ ctx' = "canceled"
    /\ UNCHANGED <<op, pc, known, lastState, snapshot, outq, dropped, attempt, iterErr,
                   doneErr, sessCtx, channel, waitedOut, received>>

\* Shutdown canceling the session's context.
CancelSession ==
    /\ sessCtx = "live"
    /\ pc # "exited"
    /\ sessCtx' = "canceled"
    /\ UNCHANGED <<op, pc, known, lastState, snapshot, outq, dropped, attempt, iterErr,
                   doneErr, ctx, channel, waitedOut, received>>

AgentSends  == \E ev \in AgentEvents : Sendable(ev) /\ Receive(ev)
AgentEnds   == SendFails \/ \E err \in {"none", "transient", "fatal"} : StreamEnd(err)
Pump        == \/ PublishOne \/ Published \/ EndParked \/ EndHopeless \/ TryAgain
               \/ Resubscribe \/ CanceledInBackoff \/ ReportCompaction \/ ReportDone
Environment == Consume \/ Cancel \/ CancelSession

Next == AgentSends \/ AgentEnds \/ Pump \/ Environment

Spec == Init /\ [][Next]_vars

\* The goroutine runs and its timers fire; a canceled context ends a call to
\* the transport.  The application need not read the channel.
FairSpec == Spec /\ WF_vars(Pump) /\ WF_vars(AgentEnds /\ ctx = "canceled")
------------------------------------------------------------------------------
(* Properties.                                                             *)

TypeOK ==
    /\ op \in {"send", "stream", "subscribe"}
    /\ pc \in {"range", "publishing", "ended", "backoff", "compacting", "finishing", "exited"}
    /\ known \in BOOLEAN /\ snapshot \in BOOLEAN /\ waitedOut \in BOOLEAN
    /\ lastState \in States \cup {"none"}
    /\ outq \in Seq(Events) /\ Len(outq) <= MaxContent + 1
    /\ dropped \in Nat
    /\ attempt \in 0..(ReconnectAttempts + 1)
    /\ iterErr \in {"none", "transient", "fatal"}
    /\ doneErr \in {"none", "failed", "canceled"}
    /\ ctx \in {"live", "canceled"} /\ sessCtx \in {"live", "canceled"}
    /\ queued \in 0..EventBufferSize
    /\ shown \in States \cup {"none"}
    /\ trail \in Seq(Events) /\ Len(trail) <= 2
    /\ received \in 0..MaxAgentEvents

Latest(n) == trail[Len(trail) - n + 1]

\* Dropping, deduplicating and reconnecting together never hide the outcome of
\* a stream: when pump is through, the last state it observed is the last one
\* in the channel, or the channel holds the compaction report that makes the
\* view fetch the task (unless even the reports could not be delivered in time).
NoSilentLoss ==
    op \in PumpOps /\ pc = "exited" /\ ~waitedOut
        => shown = lastState \/ \E i \in DOMAIN trail : trail[i].kind = "compacted"

\* However the operation ends, its StreamDoneEvent is the last thing it puts in
\* the channel, and a compaction report comes right before it.
OrderlyEnd ==
    /\ TypeOK
    /\ pc # "exited" => \A i \in DOMAIN trail : trail[i].kind # "done"
    /\ pc = "exited" /\ ~waitedOut
           => /\ trail # <<>> /\ Latest(1) = Done(doneErr)
              /\ (op \in PumpOps /\ dropped > 0)
                     => Len(trail) = 2 /\ Latest(2).kind = "compacted"

\* "stream ends at terminal state even if the server lingers": once pump has
\* observed a terminal state it reads nothing more and never resubscribes.
TerminalIsFinal ==
    [][(op \in PumpOps /\ lastState \in Terminal)
           => UNCHANGED <<received, attempt, lastState>> /\ pc' # "backoff"]_vars

\* While nothing has been dropped, the head of a resubscription never announces
\* again the state the application is already showing (dedupeSnapshot).
HeadNotRepeated ==
    [][snapshot /\ ~snapshot' /\ dropped = 0 /\ shown # "none"
           => outq' = <<>> \/ Head(outq') # Update(shown)]_vars

\* Esc and Shutdown end every operation, reader or no reader.
CanceledEnds == (ctx = "canceled") ~> pc = "exited"

\* A settled task ends its operation although the agent keeps the stream open
\* and nobody reads the channel.
SettledEnds == (op \in PumpOps /\ lastState \in Terminal) ~> pc = "exited"

\* If no stream stays open forever, the operation ends: resubscribing stops
\* after ReconnectAttempts, however the agent answers.
StreamsKeepEnding == []<>(pc # "range")
GivesUp == StreamsKeepEnding => <>(pc = "exited")

\* Every operation ends: canceled, or with a task that is settled, and then without a
\* further read, or after the attempts it has.
OperationsEnd == CanceledEnds /\ SettledEnds /\ TerminalIsFinal /\ GivesUp
==============================================================================
