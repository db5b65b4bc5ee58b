------------------------------ MODULE PumpProofs ------------------------------
(* Proofs about StreamPump, for any capacity of the channel, any number of    *)
(* attempts to reconnect, and any agent.                                      *)
EXTENDS StreamPump, SequenceTheorems, TLAPS

Content == Report("content")
Updates == {Update(s) : s \in States}

\* What is still to be published of an agent event: an update at most, in front.
UpdateFirst == \A i \in 1..Len(outq) : outq[i] = Content \/ (i = 1 /\ outq[i] \in Updates)

\* Where the goroutine may be: only pump reconnects, within its attempts, and not
\* with a task that is settled.
Phases ==
    /\ pc # "publishing" => outq = <<>>
    /\ pc \in {"range", "publishing", "ended", "backoff"} => attempt <= ReconnectAttempts
    /\ pc \in {"ended", "backoff"} \/ snapshot => op \in PumpOps
    /\ op \in PumpOps /\ lastState \in Terminal
         => pc \in {"publishing", "compacting", "finishing", "exited"}

\* The state the view will have seen once what is in hand has been published.
Outstanding == IF outq # <<>> /\ outq[1] \in Updates THEN outq[1].state ELSE shown

\* As long as nothing has been dropped, that is the state observed last.
Tracked == op \in PumpOps /\ dropped = 0 => Outstanding = lastState

\* Losses are reported before the end is, unless the report could not be delivered.
Reported ==
    op \in PumpOps /\ dropped > 0 /\ pc = "finishing" /\ ~waitedOut
        => trail # <<>> /\ trail[Len(trail)] = Report("compacted")

NoDone == \A i \in DOMAIN trail : trail[i].kind # "done"

Shape == TypeOK /\ UpdateFirst /\ Phases
Inv   == Shape /\ Tracked /\ Reported /\ OrderlyEnd /\ NoSilentLoss

------------------------------------------------------------------------------
(* Sequences of events.                                                      *)

LEMMA UpToTwo == \A n \in Nat : n <= 2 => n \in {0, 1, 2}
OBVIOUS

LEMMA EventKinds ==
    /\ Updates \subseteq Events /\ Content \in Events
    /\ \A e \in Updates : e.kind = "update" /\ e.state \in States /\ e = Update(e.state)
    /\ Content \notin Updates
<1>1. Updates \subseteq Events /\ Content \in Events
    BY DEF Updates, Content, Events
<1>2. \A s : Update(s).kind = "update" /\ Update(s).state = s
    BY DEF Update
<1>3. Content.kind # "update"
    BY DEF Content, Report
<1> QED
    BY <1>1, <1>2, <1>3 DEF Updates

\* eventsFor: an update, if the agent event has a state, and then the content.
LEMMA EventsForShape ==
    ASSUME NEW ev \in AgentEvents
    PROVE  /\ EventsFor(ev) \in Seq(Events)
           /\ Len(EventsFor(ev)) <= MaxContent + 1
           /\ \A i \in 1..Len(EventsFor(ev)) :
                EventsFor(ev)[i] = IF i = 1 /\ ev.state # "none" THEN Update(ev.state) ELSE Content
           /\ ev.state # "none" => EventsFor(ev) # <<>>
<1> DEFINE first == IF ev.state = "none" THEN <<>> ELSE <<Update(ev.state)>>
           rest  == [i \in 1..ev.content |-> Report("content")]
<1>1. ev.state \in States \cup {"none"} /\ ev.content \in Nat /\ ev.content <= MaxContent
    BY PumpAssumption DEF AgentEvents
<1>2. rest \in Seq(Events) /\ Len(rest) = ev.content
    BY <1>1, EventKinds DEF Content
<1>3. first \in Seq(Events) /\ Len(first) = IF ev.state = "none" THEN 0 ELSE 1
    BY <1>1, EventKinds DEF Updates
<1>4. EventsFor(ev) = first \o rest
    BY DEF EventsFor
<1> HIDE DEF first, rest
<1>5. /\ EventsFor(ev) \in Seq(Events)
      /\ Len(EventsFor(ev)) = Len(first) + Len(rest)
      /\ \A i \in 1..Len(EventsFor(ev)) :
            EventsFor(ev)[i] = IF i <= Len(first) THEN first[i] ELSE rest[i - Len(first)]
    BY SMTT(30), <1>2, <1>3, <1>4, ConcatProperties
<1>6. \A i \in 1..Len(first) : ev.state # "none" /\ first[i] = Update(ev.state)
    BY <1>3 DEF first
<1>7. \A i \in 1..Len(rest) : rest[i] = Content
    BY <1>1, <1>2 DEF rest, Content
<1> QED
    BY <1>1, <1>2, <1>3, <1>5, <1>6, <1>7, PumpAssumption

\* The channel takes an event: it is the newest of the trail, and what was the newest
\* comes right before it.
LEMMA Accepted ==
    ASSUME TypeOK, NEW e \in Events, Room, Accept(e)
    PROVE  /\ queued' \in 0..EventBufferSize
           /\ trail' \in Seq(Events) /\ Len(trail') \in 1..2
           /\ trail'[Len(trail')] = e
           /\ \A i \in 1..Len(trail') : trail'[i] = e \/ \E j \in 1..Len(trail) : trail'[i] = trail[j]
           /\ trail # <<>> => Len(trail') = 2 /\ trail'[1] = trail[Len(trail)]
           /\ shown' = IF e.kind = "update" THEN e.state ELSE shown
<1>1. /\ trail \in Seq(Events) /\ Len(trail) \in Nat /\ Len(trail) <= 2
      /\ queued \in 0..EventBufferSize
    BY LenProperties DEF TypeOK
<1>0. Len(trail) \in {0, 1, 2}
    BY <1>1, UpToTwo
<1>2. queued' \in 0..EventBufferSize
    BY <1>1, PumpAssumption DEF Accept, Room
<1>3. CASE Len(trail) \in {0, 1}
    <2>1. trail' = Append(trail, e)
        BY <1>3 DEF Accept
    <2>2. /\ trail' \in Seq(Events) /\ Len(trail') = Len(trail) + 1
          /\ trail'[Len(trail) + 1] = e
          /\ \A i \in 1..Len(trail) : trail'[i] = trail[i]
        BY <1>1, <2>1, AppendProperties
    <2>3. trail # <<>> => Len(trail) = 1
        BY <1>1, <1>3, EmptySeq
    <2> QED
        BY <1>1, <1>2, <1>3, <2>2, <2>3 DEF Accept
<1>4. CASE Len(trail) = 2
    <2>1. trail' = <<trail[2], e>>
        BY <1>4 DEF Accept
    <2>2. trail[2] \in Events
        BY <1>1, <1>4, ElementOfSeq
    <2>3. trail' \in Seq(Events) /\ Len(trail') = 2 /\ trail'[1] = trail[2] /\ trail'[2] = e
        BY <2>1, <2>2
    <2> QED
        BY <1>2, <1>4, <2>3 DEF Accept
<1> QED
    BY <1>0, <1>3, <1>4

\* publish: what the channel takes is no end, so the trail has none either.
LEMMA PublishKeeps ==
    ASSUME TypeOK, NEW e \in Events, TryPublish(e), e.kind # "done", NoDone
    PROVE  /\ queued' \in 0..EventBufferSize
           /\ trail' \in Seq(Events) /\ Len(trail') <= 2
           /\ NoDone'
           /\ shown' = IF Room /\ e.kind = "update" THEN e.state ELSE shown
<1>1. CASE Room
    <2>1. trail \in Seq(Events) /\ Accept(e)
        BY <1>1 DEF TypeOK, TryPublish
    <2>2. /\ queued' \in 0..EventBufferSize
          /\ trail' \in Seq(Events) /\ Len(trail') \in 1..2
          /\ \A i \in 1..Len(trail') : trail'[i] = e \/ \E j \in 1..Len(trail) : trail'[i] = trail[j]
          /\ shown' = IF e.kind = "update" THEN e.state ELSE shown
        BY <1>1, <2>1, Accepted
    <2> QED
        BY <1>1, <2>1, <2>2, LenProperties DEF NoDone
<1>2. CASE ~Room
    BY <1>2 DEF TryPublish, channel, TypeOK, NoDone
<1> QED
    BY <1>1, <1>2

------------------------------------------------------------------------------
(* What a step preserves.                                                    *)

LEMMA ReceiveStep ==
    ASSUME Inv, NEW ev \in AgentEvents, Sendable(ev), Receive(ev)
    PROVE  Inv'
<1> USE DEF Inv, Shape
<1>1. outq = <<>> /\ pc = "range" /\ dropped' = dropped
    BY DEF Receive, Phases
<1>2. CASE op \in PumpOps /\ ctx = "canceled"
    <2>1. /\ UNCHANGED <<op, lastState, snapshot, outq, attempt, trail, shown, waitedOut, queued>>
          /\ pc' = "compacting"
        BY <1>2 DEF Receive, Finish, channel
    <2>2. TypeOK'
        BY <1>2, <2>1, PumpAssumption DEF TypeOK, Receive, Finish
    <2> QED
        BY <1>1, <2>1, <2>2 DEF UpdateFirst, Phases, Tracked, Outstanding, Reported, OrderlyEnd,
                                NoSilentLoss
<1>3. CASE ~(op \in PumpOps /\ ctx = "canceled")
    <2> DEFINE all == EventsFor(ev)
    <2>1. /\ UNCHANGED <<op, attempt, trail, shown, waitedOut, queued, dropped>>
          /\ pc' = "publishing" /\ snapshot' = FALSE
          /\ outq' = IF snapshot THEN DedupeSnapshot(all, lastState) ELSE all
          /\ lastState' = IF ev.state = "none" THEN lastState ELSE ev.state
        BY <1>3 DEF Receive, channel
    <2>2. /\ all \in Seq(Events) /\ Len(all) <= MaxContent + 1
          /\ \A i \in 1..Len(all) :
               all[i] = IF i = 1 /\ ev.state # "none" THEN Update(ev.state) ELSE Content
          /\ ev.state # "none" => all # <<>>
          /\ ev.state \in States \cup {"none"}
        BY EventsForShape DEF AgentEvents
    <2> HIDE DEF all
    <2>3. /\ received' \in 0..MaxAgentEvents /\ known' \in BOOLEAN
          /\ UNCHANGED <<iterErr, doneErr, ctx, sessCtx>>
        BY <1>3, PumpAssumption DEF TypeOK, Receive, AgentEvents
    <2>4. CASE outq' = all
        <3>1. TypeOK'
            BY <2>1, <2>2, <2>4, <2>3 DEF TypeOK
        <3>2. UpdateFirst'
            BY <2>2, <2>4 DEF UpdateFirst, Updates
        <3>3. all # <<>> => 1 \in 1..Len(all)
            BY <2>2, EmptySeq
        <3>4. op \in PumpOps /\ dropped = 0 => shown = lastState
            BY <1>1 DEF Tracked, Outstanding
        <3>5. Tracked'
            BY <2>1, <2>2, <2>4, <3>3, <3>4, EventKinds DEF Tracked, Outstanding, Updates, Update
        <3> QED
            BY <1>1, <2>1, <3>1, <3>2, <3>5 DEF Phases, Reported, OrderlyEnd, NoSilentLoss
    <2>5. CASE outq' # all
        <3>1. outq' = Tail(all) /\ all # <<>> /\ all[1] = Update(lastState)
            BY <2>1, <2>5 DEF DedupeSnapshot
        <3>2. /\ Tail(all) \in Seq(Events) /\ Len(Tail(all)) = Len(all) - 1 /\ 1 \in 1..Len(all)
              /\ \A i \in 1..Len(Tail(all)) : Tail(all)[i] = all[i + 1]
            BY <2>2, <3>1, HeadTailProperties, EmptySeq
        <3>3. \A i \in 1..Len(Tail(all)) : Tail(all)[i] = Content
            BY <2>2, <3>2, LenProperties
        <3>4. ev.state # "none" /\ ev.state = lastState
            BY <2>2, <3>1, <3>2 DEF Update, Content, Report
        <3>5. TypeOK'
            <4>1. Len(Tail(all)) <= MaxContent + 1
                BY <2>2, <3>2, LenProperties, PumpAssumption
            <4> QED
                BY <2>1, <2>2, <2>3, <3>1, <3>2, <4>1 DEF TypeOK
        <3>6. UpdateFirst'
            BY <3>1, <3>3 DEF UpdateFirst
        <3>7. outq' # <<>> => outq'[1] = Content
            <4>1. Tail(all) # <<>> => 1 \in 1..Len(Tail(all))
                BY <3>2, EmptySeq
            <4> QED
                BY <3>1, <3>3, <4>1
        <3>8. Tracked'
            BY <1>1, <2>1, <3>4, <3>7, EventKinds DEF Tracked, Outstanding
        <3> QED
            BY <1>1, <2>1, <3>5, <3>6, <3>8 DEF Phases, Reported, OrderlyEnd, NoSilentLoss
    <2> QED
        BY <2>4, <2>5
<1> QED
    BY <1>2, <1>3

LEMMA PublishOneStep == Inv /\ PublishOne => Inv'
<1> SUFFICES ASSUME Inv, PublishOne PROVE Inv'
    OBVIOUS
<1> USE DEF Inv, Shape
<1>1. /\ pc = "publishing" /\ outq # <<>> /\ outq' = Tail(outq) /\ TryPublish(Head(outq))
      /\ dropped' = IF Room \/ op = "send" THEN dropped ELSE dropped + 1
      /\ UNCHANGED <<op, pc, known, lastState, snapshot, attempt, iterErr, doneErr,
                     ctx, sessCtx, waitedOut, received>>
    BY DEF PublishOne
<1>2. outq \in Seq(Events) /\ Len(outq) <= MaxContent + 1 /\ dropped \in Nat
    BY DEF TypeOK
<1>3. /\ Head(outq) = outq[1] /\ Head(outq) \in Events /\ Tail(outq) \in Seq(Events)
      /\ Len(Tail(outq)) = Len(outq) - 1 /\ Len(outq) \in Nat /\ 1 \in 1..Len(outq)
      /\ \A i \in 1..Len(Tail(outq)) : Tail(outq)[i] = outq[i + 1]
    BY <1>1, <1>2, HeadTailProperties, EmptySeq
<1>4. Head(outq) \in Updates \cup {Content}
    BY <1>3 DEF UpdateFirst
<1>5. /\ queued' \in 0..EventBufferSize
      /\ trail' \in Seq(Events) /\ Len(trail') <= 2
      /\ NoDone'
      /\ shown' = IF Room /\ Head(outq) \in Updates THEN Head(outq).state ELSE shown
    <2>1. Head(outq).kind # "done" /\ (Head(outq).kind = "update" <=> Head(outq) \in Updates)
        BY <1>4, EventKinds DEF Content, Report
    <2> QED
        BY <1>1, <1>3, <2>1, PublishKeeps DEF OrderlyEnd, NoDone
<1>6. shown' \in States \cup {"none"}
    BY <1>3, <1>5, EventKinds DEF TypeOK
<1>7. TypeOK'
    <2>1. Len(Tail(outq)) <= MaxContent + 1
        BY <1>2, <1>3, PumpAssumption
    <2> QED
        BY <1>1, <1>2, <1>3, <1>5, <1>6, <2>1 DEF TypeOK
<1>8. \A i \in 1..Len(outq') : outq'[i] = Content
    BY <1>1, <1>3 DEF UpdateFirst
<1>9. UpdateFirst' /\ (outq' # <<>> => outq'[1] = Content)
    <2>1. Tail(outq) # <<>> => 1 \in 1..Len(Tail(outq))
        BY <1>3, EmptySeq
    <2> QED
        BY <1>1, <1>8, <2>1 DEF UpdateFirst
<1>10. Tracked'
    <2>1. CASE op \in PumpOps /\ dropped' = 0
        <3>1. Room /\ dropped = 0
            BY <1>1, <1>2, <2>1 DEF PumpOps
        <3>2. Outstanding' = shown' /\ shown' = Outstanding
            BY <1>1, <1>3, <1>5, <1>9, <3>1, EventKinds DEF Outstanding
        <3> QED
            BY <1>1, <2>1, <3>1, <3>2 DEF Tracked
    <2> QED
        BY <1>1, <2>1 DEF Tracked
<1> QED
    BY <1>1, <1>5, <1>7, <1>9, <1>10 DEF Phases, Reported, OrderlyEnd, NoDone, NoSilentLoss

\* Steps that publish nothing and observe nothing.
Quiet == \/ Published \/ EndParked \/ Resubscribe \/ CanceledInBackoff \/ Environment
         \/ \E err \in {"none", "transient", "fatal"} : StreamEnd(err)

LEMMA QuietStep == Inv /\ Quiet => Inv'
<1> SUFFICES ASSUME Inv, Quiet PROVE Inv'
    OBVIOUS
<1> USE DEF Inv, Shape
<1>1. UNCHANGED <<op, known, lastState, outq, dropped, attempt, shown, trail, waitedOut, received>>
    BY DEF Quiet, Published, EndParked, Resubscribe, CanceledInBackoff, Environment, Consume,
           Cancel, CancelSession, StreamEnd, channel
<1>2. /\ pc' \in {"range", "ended", "compacting"} \/ pc' = pc
      /\ pc' # pc => pc # "exited" /\ outq = <<>>
    BY DEF Quiet, Published, EndParked, Resubscribe, CanceledInBackoff, Environment, Consume,
           Cancel, CancelSession, StreamEnd, Finish, Phases
<1>3. TypeOK'
    <2>1. queued' \in 0..EventBufferSize
        BY PumpAssumption
           DEF TypeOK, Quiet, Published, EndParked, Resubscribe, CanceledInBackoff, Environment,
               Consume, Cancel, CancelSession, StreamEnd, channel
    <2>2. /\ snapshot' \in BOOLEAN /\ iterErr' \in {"none", "transient", "fatal"}
          /\ doneErr' \in {"none", "failed", "canceled"}
          /\ ctx' \in {"live", "canceled"} /\ sessCtx' \in {"live", "canceled"}
        BY DEF TypeOK, Quiet, Published, EndParked, Resubscribe, CanceledInBackoff, Environment,
               Consume, Cancel, CancelSession, StreamEnd, Finish
    <2> QED
        BY <1>1, <1>2, <2>1, <2>2 DEF TypeOK
<1>4. Phases'
    BY <1>1 DEF Phases, TypeOK, Quiet, Published, EndParked, Resubscribe, CanceledInBackoff,
                Environment, Consume, Cancel, CancelSession, StreamEnd, Finish, PumpOps
<1>5. pc = "exited" => UNCHANGED doneErr
    BY DEF Quiet, Published, EndParked, Resubscribe, CanceledInBackoff, Environment, Consume,
           Cancel, CancelSession, StreamEnd
<1> QED
    BY <1>1, <1>2, <1>3, <1>4, <1>5
       DEF UpdateFirst, Tracked, Outstanding, Reported, OrderlyEnd, Latest, NoSilentLoss

\* Steps that tell of an error or of another attempt.
Tells == SendFails \/ EndHopeless \/ TryAgain

LEMMA TellsStep == Inv /\ Tells => Inv'
<1> SUFFICES ASSUME Inv, Tells PROVE Inv'
    OBVIOUS
<1> USE DEF Inv, Shape
<1>1. /\ UNCHANGED <<op, known, lastState, snapshot, outq, dropped, iterErr, ctx, sessCtx,
                     waitedOut, received>>
      /\ pc \in {"range", "ended"} /\ pc' \in {"compacting", "backoff"}
      /\ doneErr' \in {"none", "failed", "canceled"}
    BY DEF Tells, SendFails, EndHopeless, TryAgain, Finish, TypeOK
<1>2. \/ UNCHANGED channel
      \/ \E k \in {"error", "reconnecting"} : TryPublish(Report(k))
    BY DEF Tells, SendFails, EndHopeless, TryAgain
<1>3. /\ queued' \in 0..EventBufferSize
      /\ trail' \in Seq(Events) /\ Len(trail') <= 2 /\ NoDone' /\ shown' = shown
    <2>1. ASSUME NEW k \in {"error", "reconnecting"}, TryPublish(Report(k)) PROVE <1>3
        <3>1. Report(k) \in Events /\ Report(k).kind \notin {"done", "update"}
            BY DEF Events, Report
        <3> QED
            BY <1>1, <2>1, <3>1, PublishKeeps DEF OrderlyEnd, NoDone
    <2>2. CASE UNCHANGED channel
        BY <1>1, <2>2 DEF channel, TypeOK, OrderlyEnd, NoDone
    <2> QED
        BY <1>2, <2>1, <2>2
<1>4. /\ attempt' \in 0..(ReconnectAttempts + 1)
      /\ pc' = "backoff" => attempt' <= ReconnectAttempts /\ op \in PumpOps
    BY <1>1, PumpAssumption DEF Tells, SendFails, EndHopeless, TryAgain, Finish, TypeOK, Phases
<1>5. TypeOK'
    BY <1>1, <1>3, <1>4 DEF TypeOK
<1>6. Phases'
    <2>1. op \in PumpOps /\ lastState \in Terminal => FALSE
        BY <1>1 DEF Phases
    <2> QED
        BY <1>1, <1>4, <2>1 DEF Phases
<1> QED
    BY <1>1, <1>3, <1>5, <1>6
       DEF UpdateFirst, Tracked, Outstanding, Reported, OrderlyEnd, NoDone, NoSilentLoss

\* finish: the report of a loss goes right before the end.
LEMMA ReportCompactionStep == Inv /\ ReportCompaction => Inv'
<1> SUFFICES ASSUME Inv, ReportCompaction PROVE Inv'
    OBVIOUS
<1> USE DEF Inv, Shape
<1>1. /\ pc = "compacting" /\ pc' = "finishing"
      /\ UNCHANGED <<op, known, lastState, snapshot, outq, dropped, attempt, iterErr,
                     doneErr, ctx, sessCtx, received>>
    BY DEF ReportCompaction
<1>2. Report("compacted") \in Events /\ Report("compacted").kind \notin {"update", "done"}
    BY DEF Events, Report
<1>3. CASE dropped > 0 /\ Room /\ Accept(Report("compacted")) /\ UNCHANGED waitedOut
    <2>1. /\ queued' \in 0..EventBufferSize
          /\ trail' \in Seq(Events) /\ Len(trail') \in 1..2
          /\ trail'[Len(trail')] = Report("compacted")
          /\ \A i \in 1..Len(trail') :
               trail'[i] = Report("compacted") \/ \E j \in 1..Len(trail) : trail'[i] = trail[j]
          /\ shown' = shown
        BY <1>2, <1>3, Accepted
    <2>2. NoDone' /\ trail' # <<>> /\ Len(trail') <= 2
        <3>1. DOMAIN trail = 1..Len(trail) /\ DOMAIN trail' = 1..Len(trail')
            BY <2>1, LenProperties DEF TypeOK
        <3>2. \A j \in 1..Len(trail) : trail[j].kind # "done"
            BY <1>1, <3>1 DEF OrderlyEnd
        <3>3. NoDone'
            BY <1>2, <2>1, <3>1, <3>2 DEF NoDone
        <3> QED
            BY <2>1, <3>3, EmptySeq
    <2>3. TypeOK'
        BY <1>1, <1>3, <2>1, <2>2 DEF TypeOK
    <2> QED
        BY <1>1, <1>3, <2>1, <2>2, <2>3
           DEF UpdateFirst, Phases, Tracked, Outstanding, Reported, OrderlyEnd, NoDone, NoSilentLoss
<1>4. CASE UNCHANGED channel /\ (dropped > 0 => waitedOut' = TRUE) /\ waitedOut' \in BOOLEAN
    <2>1. TypeOK'
        BY <1>1, <1>4 DEF TypeOK, channel
    <2> QED
        BY <1>1, <1>4, <2>1
           DEF UpdateFirst, Phases, Tracked, Outstanding, Reported, OrderlyEnd, NoSilentLoss, channel
<1> QED
    BY <1>3, <1>4 DEF ReportCompaction, PublishWait, TypeOK

LEMMA ReportDoneStep == Inv /\ ReportDone => Inv'
<1> SUFFICES ASSUME Inv, ReportDone PROVE Inv'
    OBVIOUS
<1> USE DEF Inv, Shape
<1>1. /\ pc = "finishing" /\ pc' = "exited" /\ outq = <<>>
      /\ UNCHANGED <<op, known, lastState, snapshot, outq, dropped, attempt, iterErr,
                     doneErr, ctx, sessCtx, received>>
    BY DEF ReportDone, Phases
<1>2. Done(doneErr) \in Events /\ Done(doneErr).kind = "done"
    BY DEF Events, Done, TypeOK
<1>3. CASE Room /\ Accept(Done(doneErr)) /\ UNCHANGED waitedOut
    <2>1. /\ queued' \in 0..EventBufferSize
          /\ trail' \in Seq(Events) /\ Len(trail') \in 1..2
          /\ trail'[Len(trail')] = Done(doneErr)
          /\ trail # <<>> => Len(trail') = 2 /\ trail'[1] = trail[Len(trail)]
          /\ shown' = shown
        BY <1>2, <1>3, Accepted
    <2>2. trail' # <<>> /\ Len(trail') <= 2 /\ Latest(1)' = Done(doneErr)'
        BY SMTT(30), <1>1, <2>1, EmptySeq DEF Latest, Done
    <2>3. TypeOK'
        BY <1>1, <1>3, <2>1, <2>2 DEF TypeOK
    <2>4. op \in PumpOps /\ dropped > 0 /\ ~waitedOut
            => Len(trail') = 2 /\ trail'[1] = Report("compacted")
        BY <1>1, <2>1 DEF Reported
    <2>5. op \in PumpOps /\ dropped > 0 /\ ~waitedOut
            => Len(trail') = 2 /\ Latest(2)'.kind = "compacted" /\ 1 \in DOMAIN trail'
        <3>1. Len(trail') = 2 => Latest(2)' = trail'[1] /\ 1 \in DOMAIN trail'
            BY <2>1, LenProperties DEF Latest
        <3> QED
            BY <2>4, <3>1 DEF Report
    <2>6. op \in PumpOps /\ dropped = 0 => shown' = lastState
        BY <1>1, <2>1 DEF Tracked, Outstanding
    <2>7. OrderlyEnd'
        BY <1>1, <1>3, <2>2, <2>3, <2>5 DEF OrderlyEnd
    <2>8. NoSilentLoss'
        <3>1. dropped = 0 \/ dropped > 0
            BY DEF TypeOK
        <3> QED
            BY <1>1, <1>3, <2>4, <2>5, <2>6, <3>1 DEF NoSilentLoss, Report
    <2> QED
        BY <1>1, <1>3, <2>1, <2>3, <2>7, <2>8 DEF UpdateFirst, Phases, Tracked, Outstanding, Reported
<1>4. CASE UNCHANGED channel /\ waitedOut' = TRUE
    <2>1. TypeOK'
        BY <1>1, <1>4 DEF TypeOK, channel
    <2> QED
        BY <1>1, <1>4, <2>1
           DEF UpdateFirst, Phases, Tracked, Outstanding, Reported, OrderlyEnd, NoSilentLoss, channel
<1> QED
    BY <1>3, <1>4 DEF ReportDone, PublishWait

LEMMA StutterStep == Inv /\ UNCHANGED vars => Inv'
BY DEF Inv, Shape, TypeOK, UpdateFirst, Phases, Tracked, Outstanding, Reported, OrderlyEnd, Latest,
       NoSilentLoss, vars

LEMMA InitInv == Init => Inv
<1> SUFFICES ASSUME Init PROVE Inv
    OBVIOUS
<1>1. TypeOK
    <2>1. <<>> \in Seq(Events) /\ Len(<<>>) <= MaxContent + 1 /\ Len(<<>>) <= 2
        BY EmptySeq, PumpAssumption
    <2>2. 0 \in 0..(ReconnectAttempts + 1) /\ 0 \in 0..EventBufferSize
          /\ 0 \in 0..MaxAgentEvents
        BY PumpAssumption
    <2>3. known \in BOOLEAN
        BY DEF Init
    <2> QED
        BY <2>1, <2>2, <2>3 DEF Init, TypeOK
<1> QED
    BY <1>1, PumpAssumption
       DEF Init, Inv, Shape, UpdateFirst, Phases, Tracked, Outstanding, Reported, OrderlyEnd,
           NoSilentLoss, PumpOps, Terminal

LEMMA InvHolds == Spec => []Inv
<1>1. Inv /\ [Next]_vars => Inv'
    <2> SUFFICES ASSUME Inv, [Next]_vars PROVE Inv'
        OBVIOUS
    <2>1. CASE AgentSends
        BY <2>1, ReceiveStep DEF AgentSends
    <2>2. CASE AgentEnds
        BY <2>2, QuietStep, TellsStep DEF AgentEnds, Quiet, Tells
    <2>3. CASE Pump
        BY <2>3, PublishOneStep, QuietStep, TellsStep, ReportCompactionStep, ReportDoneStep
           DEF Pump, Quiet, Tells
    <2>4. CASE Environment
        BY <2>4, QuietStep DEF Quiet
    <2>5. CASE UNCHANGED vars
        BY <2>5, StutterStep
    <2> QED
        BY <2>1, <2>2, <2>3, <2>4, <2>5 DEF Next
<1> QED
    BY <1>1, InitInv, PTL DEF Spec

------------------------------------------------------------------------------
(* Theorems.                                                                 *)

\* Dropping, deduplicating and reconnecting together never hide the outcome of a
\* stream (pump, dedupeSnapshot, finish).
THEOREM NothingLostSilently == Spec => []NoSilentLoss
<1>1. Inv => NoSilentLoss
    BY DEF Inv
<1> QED
    BY <1>1, InvHolds, PTL

\* Every variable keeps its type, and however the operation ends, its
\* StreamDoneEvent comes last and the report of a loss right before it (finish).
THEOREM EndsInOrder == Spec => []OrderlyEnd
<1>1. Inv => OrderlyEnd
    BY DEF Inv
<1> QED
    BY <1>1, InvHolds, PTL

\* Once pump has observed a terminal state it reads nothing more and never
\* resubscribes, whatever the server does (pump, publishAll).
THEOREM TerminalEnds == Spec => TerminalIsFinal
<1> DEFINE Final == op \in PumpOps /\ lastState \in Terminal
                      => UNCHANGED <<received, attempt, lastState>> /\ pc' # "backoff"
<1>1. Inv /\ [Next]_vars => [Final]_vars
    <2> SUFFICES ASSUME Inv, Next, op \in PumpOps, lastState \in Terminal
                 PROVE  UNCHANGED <<received, attempt, lastState>> /\ pc' # "backoff"
        OBVIOUS
    <2>1. op # "send" /\ pc \in {"publishing", "compacting", "finishing", "exited"}
        BY DEF Inv, Shape, Phases, PumpOps
    <2> QED
        BY <2>1
           DEF Next, AgentSends, AgentEnds, Pump, Environment, Receive, SendFails, StreamEnd,
               PublishOne, Published, EndParked, EndHopeless, TryAgain, Resubscribe,
               CanceledInBackoff, ReportCompaction, ReportDone, Consume, Cancel, CancelSession,
               Finish
<1> QED
    BY <1>1, InvHolds, PTL DEF Spec, TerminalIsFinal

\* The head of a resubscription does not announce what is shown already
\* (dedupeSnapshot).
THEOREM HeadsNotRepeated == Spec => HeadNotRepeated
<1> DEFINE New == snapshot /\ ~snapshot' /\ dropped = 0 /\ shown # "none"
                    => outq' = <<>> \/ Head(outq') # Update(shown)
<1>1. Inv /\ [Next]_vars => [New]_vars
    <2> SUFFICES ASSUME Inv, Next, snapshot, ~snapshot', dropped = 0,
                        outq' # <<>>, Head(outq') = Update(shown)
                 PROVE  FALSE
        OBVIOUS
    <2> USE DEF Inv, Shape
    <2>1. PICK ev \in AgentEvents : Receive(ev) /\ snapshot' = FALSE
        BY DEF Next, AgentSends, AgentEnds, Pump, Environment, SendFails, StreamEnd,
               PublishOne, Published, EndParked, EndHopeless, TryAgain, Resubscribe,
               CanceledInBackoff, ReportCompaction, ReportDone, Consume, Cancel, CancelSession,
               Receive
    <2> DEFINE all == EventsFor(ev)
    <2>2. outq = <<>> /\ outq' = DedupeSnapshot(all, lastState)
        BY <2>1 DEF Receive, Phases
    <2>3. shown = lastState
        BY <2>2 DEF Tracked, Outstanding, Phases
    <2>4. /\ all \in Seq(Events)
          /\ \A i \in 1..Len(all) :
               all[i] = IF i = 1 /\ ev.state # "none" THEN Update(ev.state) ELSE Content
        BY EventsForShape
    <2> HIDE DEF all
    <2>5. CASE all # <<>> /\ all[1] = Update(lastState)
        <3>1. /\ outq' = Tail(all) /\ Tail(all) \in Seq(Events) /\ Len(Tail(all)) = Len(all) - 1
              /\ \A i \in 1..Len(Tail(all)) : Tail(all)[i] = all[i + 1]
            BY <2>2, <2>4, <2>5, HeadTailProperties DEF DedupeSnapshot
        <3>2. 1 \in 1..Len(Tail(all)) /\ Head(outq') = Tail(all)[1]
            BY <3>1, EmptySeq
        <3>3. Tail(all)[1] = Content
            BY <2>4, <3>1, <3>2, LenProperties
        <3> QED
            BY <3>2, <3>3 DEF Content, Report, Update
    <2>6. CASE ~(all # <<>> /\ all[1] = Update(lastState))
        BY <2>2, <2>3, <2>6 DEF DedupeSnapshot
    <2> QED
        BY <2>5, <2>6
<1> QED
    BY <1>1, InvHolds, PTL DEF Spec, HeadNotRepeated
==============================================================================
