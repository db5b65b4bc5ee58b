------------------------------- MODULE Compat03 -------------------------------
(****************************************************************************)
(* The client of A2A 0.3 agents, src/internal/compat03: the blocking calls  *)
(* and the stream of events of client.go, the reader of server-sent events  *)
(* and its idle watchdog of sse.go.                                         *)
(*                                                                          *)
(* The agent sends a stream line by line.  A frame is what it means to say  *)
(* with an event: a result, a null result, an error or junk; one data line  *)
(* carries it, or two, and only together are they its JSON.  Bytes are     *)
(* counted in lines: MaxEventLines stands for maxEventBytes, a huge line    *)
(* for one over maxLineBytes.  Read buffering only decides which lines are  *)
(* still read once the body is closed: any number.                          *)
(****************************************************************************)
EXTENDS Translate03, FiniteSets, SequencesExt

CONSTANTS
    Frames,        \* what an agent says with an event
    Long,          \* those that take it two data lines
    Answers,       \* what an agent answers to a blocking call
    PushConfigs,   \* configs the client registers
    MaxLines,      \* lines an agent sends (bound)
    MaxAhead,      \* lines it is ahead of the reader (bound)
    MaxEventLines, \* data lines of one event
    MaxEvents,     \* maxEventsPerStream
    IdleTicks      \* idleReadTimeout

ASSUME Compat03Assumption ==
    /\ MaxParts \in Nat \ {0} /\ MaxArtifacts \in Nat \ {0}
    /\ {MaxLines, MaxAhead, MaxEventLines, MaxEvents} \subseteq Nat
    /\ IdleTicks \in Nat \ {0}
    /\ Long \subseteq Frames
    /\ \A a \in Answers :
         /\ a.came \in {"refused", "huge", "cut", "whole"}
         /\ a.came = "whole" => a.says \in {"result", "null", "error", "junk"}
    /\ \A p \in PushConfigs :
         /\ p = [url |-> p.url, auth |-> p.auth]
         /\ p.auth = <<>> \/ p.auth = <<[scheme |-> p.auth[1].scheme]>>

\* What an agent may say: whatever members a result has, json.Unmarshal accepts them; a
\* wrapped value is a JSON value itself.
IsJson(v) ==
    /\ v.json \in {"null", "scalar", "object"}
    /\ v.json = "object" /\ DOMAIN v.members = {"value"} =>
         v.members.value.json \in {"null", "scalar", "object"}
IsPart(w) == Member(w, "compat", FALSE) \in BOOLEAN /\ IsJson(Member(w, "data", Null))
IsList(s, Is(_)) == s \in Seq(Range(s)) /\ \A i \in DOMAIN s : Is(s[i])
HasParts(w) == IsList(Member(w, "parts", <<>>), IsPart)
IsStatus(s) == IsList(Member(s, "message", <<>>), HasParts)
IsResult(w) ==
    /\ HasParts(w)
    /\ IsStatus(Member(w, "status", NoStatus))
    /\ IsList(Member(w, "artifacts", <<>>), HasParts)
    /\ HasParts(Member(w, "artifact", [artifactId |-> ""]))

ASSUME WordsAssumption ==
    /\ \A f \in Frames : f.says = "result" => IsResult(f.result)
    /\ \A a \in Answers : a.came = "whole" /\ a.says = "result" => IsResult(a.result)

VARIABLES
    pc,       \* where the goroutine of the stream is
    wire,     \* the lines the agent sent
    peer,     \* the agent's end: "open", "eof", or "cut" by an error
    rd,       \* how many lines readLine returned
    dataLines,\* the data lines of the event being read
    last,     \* the frame in hand was flushed at the end of the body
    events,   \* frames counted
    out,      \* the events handed to the consumer
    verdict,  \* how the stream ended, "" before
    canceled, \* the context
    body,     \* resp.Body
    timer,    \* ticks since the watchdog was kicked, or Off
    fired,    \* idleWatchdog.fired
    got       \* the last blocking call: its method, answer and outcome

Off == IdleTicks + 1
readerVars == <<rd, dataLines, last>>
watchVars == <<body, timer, fired>>
clientVars == <<pc, wire, peer, readerVars, events, out, verdict, canceled, watchVars, got>>

Data1(f) == [line |-> "data", frame |-> f, half |-> 0]
Half(f, i) == [line |-> "data", frame |-> f, half |-> i]
Blank == [line |-> "blank"]
\* Comments, event:, id: and retry: lines, and lines without a colon.
Ignored == [line |-> "ignored"]
Huge == [line |-> "huge"]

(* ------------------------------ the agent ------------------------------- *)

Say(line) ==
    /\ body = "open" /\ peer = "open"
    /\ Len(wire) < MaxLines /\ Len(wire) < rd + MaxAhead
    /\ wire' = Append(wire, line)
    /\ UNCHANGED <<pc, peer, readerVars, events, out, verdict, canceled, watchVars, got>>

\* Second halves follow their first; an end of event may be missing.
Owes(f) == wire # <<>> /\ Last(wire) = Half(f, 1)
AgentSays ==
    \/ Say(Blank) \/ Say(Ignored) \/ Say(Huge)
    \/ \E f \in Frames \ Long : Say(Data1(f))
    \/ \E f \in Long : Say(Half(f, 1)) \/ (Owes(f) /\ Say(Half(f, 2)))

\* The agent closes its end, or the connection breaks.
AgentEnds(how) ==
    /\ body = "open" /\ peer = "open"
    /\ peer' = how
    /\ UNCHANGED <<pc, wire, readerVars, events, out, verdict, canceled, watchVars, got>>

(* ----------------------------- the watchdog ----------------------------- *)

Tick ==
    /\ timer < IdleTicks
    /\ timer' = timer + 1
    /\ UNCHANGED <<pc, wire, peer, readerVars, events, out, verdict, canceled, body, fired, got>>

\* The timer's own goroutine: the flag, then the body.
Fire ==
    /\ timer = IdleTicks /\ ~fired
    /\ fired' = TRUE
    /\ UNCHANGED <<pc, wire, peer, readerVars, events, out, verdict, canceled, body, timer, got>>

WatchdogFlags == fired /\ body = "open" /\ UNCHANGED clientVars           \* (variant)
WatchdogCloses ==
    /\ fired /\ body = "open"
    /\ body' = "closed"
    /\ UNCHANGED <<pc, wire, peer, readerVars, events, out, verdict, canceled, timer, fired, got>>

\* kick looks at the flag first; a timer that fires right then is armed again,
\* and closes a closed body.
Kicked == IF fired THEN timer ELSE 0

(* ------------------------------ the stream ------------------------------ *)

Ended(v) == pc' = "closing" /\ verdict' = v
Goes(p) == pc' = p /\ UNCHANGED verdict

\* stream: the request, and an answer that is no stream of events.
Open ==
    /\ pc = "idle"
    /\ pc' = "check" /\ body' = "open" /\ timer' = 0
    /\ got' = <<>>
    /\ UNCHANGED <<wire, peer, readerVars, events, out, verdict, canceled, fired>>

OpenFails ==
    /\ pc = "idle"
    /\ Ended(IF canceled THEN "canceled" ELSE "error")
    /\ got' = <<>>
    /\ UNCHANGED <<wire, peer, readerVars, events, out, canceled, watchVars>>

\* The context is looked at before every line.
CheckContext ==
    /\ pc = "check"
    /\ IF canceled THEN Ended("canceled") ELSE Goes("read")
    /\ UNCHANGED <<wire, peer, readerVars, events, out, canceled, watchVars, got>>

HasLine == rd < Len(wire)
NextLine == wire[rd + 1]
ReadsOn ==
    /\ pc = "read"
    /\ timer' = Kicked
    /\ UNCHANGED <<wire, peer, events, out, canceled, body, fired, got>>

ReadIgnored ==
    /\ HasLine /\ NextLine = Ignored
    /\ ReadsOn
    /\ rd' = rd + 1
    /\ Goes("check")
    /\ UNCHANGED <<dataLines, last>>

\* flush: the event in hand, if any, goes to stream.
ReadBlank ==
    /\ HasLine /\ NextLine = Blank
    /\ ReadsOn
    /\ rd' = rd + 1
    /\ Goes(IF dataLines = <<>> THEN "check" ELSE "frame")
    /\ UNCHANGED <<dataLines, last>>

ReadData ==
    /\ HasLine /\ NextLine.line = "data"
    /\ ReadsOn
    /\ rd' = rd + 1
    /\ IF Len(dataLines) = MaxEventLines
         THEN Ended("error") /\ UNCHANGED dataLines
         ELSE Goes("check") /\ dataLines' = Append(dataLines, NextLine)
    /\ UNCHANGED last

ReadHuge ==
    /\ HasLine /\ NextLine = Huge
    /\ ReadsOn
    /\ rd' = rd + 1
    /\ Ended(IF fired THEN "idle" ELSE "error")
    /\ UNCHANGED <<dataLines, last>>

\* The end of the body dispatches what is pending, a line cut short included.
ReadEOF ==
    /\ ~HasLine /\ peer = "eof" /\ body = "open"
    /\ ReadsOn
    /\ IF dataLines = <<>> THEN Ended("ended") /\ UNCHANGED last
       ELSE Goes("frame") /\ last' = TRUE
    /\ UNCHANGED <<rd, dataLines>>

\* readError: the watchdog's flag, whatever else went wrong.
ReadFails ==
    /\ body = "closed" \/ peer = "cut" \/ canceled
    /\ ReadsOn
    /\ Ended(IF fired THEN "idle" ELSE IF canceled THEN "canceled" ELSE "error")
    /\ UNCHANGED readerVars

(* ----------------------------- a frame's way ---------------------------- *)

\* The data lines joined are JSON only if they are one frame, and all of it.
Whole(lines) ==
    \/ Len(lines) = 1 /\ lines[1].half = 0
    \/ Len(lines) = 2 /\ lines[1] = Half(lines[1].frame, 1) /\ lines[2] = Half(lines[1].frame, 2)

InFrame ==
    /\ pc = "frame"
    /\ UNCHANGED <<wire, peer, rd, last, canceled, watchVars, got>>

FrameRefused ==
    /\ InFrame
    /\ dataLines' = <<>>
    /\ events' = events + 1
    /\ \/ canceled /\ Ended("canceled")
       \/ /\ ~canceled
          /\ \/ events = MaxEvents
             \/ ~Whole(dataLines)
             \/ dataLines[1].frame.says \in {"error", "junk"}
             \/ dataLines[1].frame.says = "result"
                  /\ ResultKind(dataLines[1].frame.result) = "unknown"
          /\ Ended("error")
    /\ UNCHANGED out

Speaks == ~canceled /\ events < MaxEvents /\ Whole(dataLines)
AfterFrame == IF last THEN Ended("ended") ELSE Goes("check")

FrameNull ==
    /\ InFrame /\ Speaks /\ dataLines[1].frame.says = "null"
    /\ dataLines' = <<>>
    /\ events' = events + 1
    /\ AfterFrame
    /\ UNCHANGED out

FrameEventKeeping ==                                               \* (variant)
    /\ InFrame /\ Speaks /\ dataLines[1].frame.says = "result"
    /\ LET w == dataLines[1].frame.result
       IN /\ ResultKind(w) # "unknown"
          /\ out' = Append(out, [event |-> EventFromResult(w), final |-> FinalOf(w)])
    /\ events' = events + 1
    /\ Goes("yield")
    /\ UNCHANGED dataLines
FrameEvent ==
    /\ InFrame /\ Speaks /\ dataLines[1].frame.says = "result"
    /\ LET w == dataLines[1].frame.result
       IN /\ ResultKind(w) # "unknown"
          /\ out' = Append(out, [event |-> EventFromResult(w), final |-> FinalOf(w)])
    /\ dataLines' = <<>>
    /\ events' = events + 1
    /\ Goes("yield")

\* The consumer has taken the event, and goes on or not.
ConsumerTakes ==
    /\ pc = "yield"
    /\ IF Last(out).final THEN Ended("final") ELSE AfterFrame
    /\ UNCHANGED <<wire, peer, readerVars, events, out, canceled, watchVars, got>>

ConsumerStops ==
    /\ pc = "yield"
    /\ Ended("stopped")
    /\ UNCHANGED <<wire, peer, readerVars, events, out, canceled, watchVars, got>>

Cancel ==
    /\ pc # "done" /\ ~canceled
    /\ canceled' = TRUE
    /\ UNCHANGED <<pc, wire, peer, readerVars, events, out, verdict, watchVars, got>>

\* The deferred calls of Frames: watchdog.stop, then Body.Close.
CloseLeaking ==                                                    \* (variant)
    /\ pc = "closing"
    /\ pc' = "done"
    /\ timer' = IF verdict \in {"final", "stopped"} THEN timer ELSE Off
    /\ body' = IF body = "none" THEN "none" ELSE "closed"
    /\ UNCHANGED <<wire, peer, readerVars, events, out, verdict, canceled, fired, got>>
Close ==
    /\ pc = "closing"
    /\ pc' = "done"
    /\ timer' = Off
    /\ body' = IF body = "none" THEN "none" ELSE "closed"
    /\ UNCHANGED <<wire, peer, readerVars, events, out, verdict, canceled, fired, got>>

(* ---------------------------- blocking calls ---------------------------- *)

Failed(e) == [ok |-> FALSE, error |-> e]
Success(v) == [ok |-> TRUE, value |-> v]

\* post: an error envelope is one whatever the HTTP status says.
PostTrustingStatus(a) ==                                           \* (variant)
    CASE a.came \in {"refused", "huge", "cut"} -> Failed("transport")
      [] a.came = "whole" /\ a.http # 200 ->
           Failed(IF a.says = "error" THEN "agent" ELSE "http")
      [] a.came = "whole" /\ a.http = 200 ->
           IF a.says = "junk" THEN Failed("decode") ELSE Success(a)
Post(a) ==
    CASE a.came \in {"refused", "huge", "cut"} -> Failed("transport")
      [] a.came = "whole" /\ a.says = "error" -> Failed("agent")
      [] a.came = "whole" /\ a.says # "error" /\ a.http # 200 -> Failed("http")
      [] a.came = "whole" /\ a.says # "error" /\ a.http = 200 ->
           IF a.says = "junk" THEN Failed("decode") ELSE Success(a)

\* message/send: a result that must be a task or a message.
SendResult(a) ==
    IF a.says # "result" \/ ResultKind(a.result) \notin {"task", "message"}
      THEN Failed("invalid") ELSE Success(EventFromResult(a.result))
\* tasks/get and tasks/cancel: a task; null is one without id (decodeResult).
TaskDecoded(a) == Success(TaskFromWire(IF a.says = "result" THEN a.result ELSE <<>>))

Then(outcome, Decode(_)) == IF outcome.ok THEN Decode(outcome.value) ELSE outcome
Outcome(method, a) ==
    CASE method = "message/send" -> Then(Post(a), SendResult)
      [] method \in {"tasks/get", "tasks/cancel"} -> Then(Post(a), TaskDecoded)
      [] method \in {"tasks/list", "extendedCard"} -> Failed("unsupported")

CallMethods == {"message/send", "tasks/get", "tasks/cancel", "tasks/list", "extendedCard"}
BlockingCall(method, a) ==
    /\ pc = "idle"
    /\ got' = <<[method |-> method, answer |-> a, outcome |-> Outcome(method, a)]>>
    /\ UNCHANGED <<pc, wire, peer, readerVars, events, out, verdict, canceled, watchVars>>

\* tasks/pushNotificationConfig/set, of an agent that answers with the config
\* it was sent.
CreatePush(p) ==
    /\ pc = "idle"
    /\ got' = <<[method |-> "push/set", answer |-> p,
                 outcome |-> Success(PushFromWire(PushToWire(p)))]>>
    /\ UNCHANGED <<pc, wire, peer, readerVars, events, out, verdict, canceled, watchVars>>

(* ------------------------------------------------------------------------ *)

ClientInit ==
    /\ pc = "idle" /\ verdict = "" /\ got = <<>>
    /\ wire = <<>> /\ peer = "open" /\ rd = 0 /\ dataLines = <<>> /\ last = FALSE
    /\ events = 0 /\ out = <<>> /\ canceled = FALSE
    /\ body = "none" /\ timer = Off /\ fired = FALSE

Reader ==
    \/ Open \/ OpenFails \/ CheckContext
    \/ ReadIgnored \/ ReadBlank \/ ReadData \/ ReadHuge \/ ReadEOF \/ ReadFails
    \/ FrameRefused \/ FrameNull \/ FrameEvent \/ Close
Watchdog == Tick \/ Fire \/ WatchdogCloses

ClientNext ==
    \/ Reader \/ Watchdog
    \/ ConsumerTakes \/ ConsumerStops \/ Cancel
    \/ AgentSays \/ \E how \in {"eof", "cut"} : AgentEnds(how)
    \/ \E m \in CallMethods, a \in Answers : BlockingCall(m, a)
    \/ \E p \in PushConfigs : CreatePush(p)

\* The goroutine of the stream and the timer run; the session takes the events
\* it is handed.
Fairness ==
    /\ WF_clientVars(Reader) /\ WF_clientVars(Watchdog)
    /\ WF_clientVars(ConsumerTakes \/ ConsumerStops)
ClientSpec == ClientInit /\ [][ClientNext]_clientVars /\ Fairness

(* ------------------------------ properties ------------------------------ *)

\* What an agent said in lines: the data lines between two blank ones are an event, a
\* null result, or stray.
IsEvent(g) == Whole(g) /\ g[1].frame.says = "result" /\ ResultKind(g[1].frame.result) # "unknown"
IsNull(g) == Whole(g) /\ g[1].frame.says = "null"
Finished(h) ==
    IF h.group = <<>> THEN h
    ELSE [events |-> IF IsEvent(h.group)
                       THEN Append(h.events, EventFromResult(h.group[1].frame.result))
                       ELSE h.events,
          stray  |-> IF IsEvent(h.group) \/ IsNull(h.group) THEN h.stray
                       ELSE h.stray \union {h.group},
          group  |-> <<>>]
Reads(h, l) ==
    IF l.line = "data" THEN [h EXCEPT !.group = Append(@, l)]
    ELSE IF l = Blank THEN Finished(h) ELSE h

Nothing == [events |-> <<>>, stray |-> {}, group |-> <<>>]
Lines == {Blank, Ignored, Huge} \union {Data1(f) : f \in Frames}
         \union {Half(f, i) : f \in Long, i \in {1, 2}}
Heard[lines \in Seq(Lines)] ==
    IF lines = <<>> THEN Nothing ELSE Reads(Heard[Front(lines)], Last(lines))

Meant(lines) == Finished(Heard[lines])
Given == [i \in DOMAIN out |-> out[i].event]

\* The program is handed what the agent said, in order, and nothing made of
\* half an event or of two, wherever lines, the connection, the context or the
\* watchdog cut in; a stream that ends without an error has lost nothing.
NothingMadeUp ==
    /\ IsPrefix(Given, Meant(wire).events)
    /\ verdict = "ended" => Given = Meant(wire).events
    /\ verdict = "final" => out # <<>> /\ Last(out).final
    /\ verdict \in {"ended", "final"} => Meant(SubSeq(wire, 1, rd)).stray = {}

\* A stream that is over holds neither its connection nor a timer, and nothing
\* comes after the event that ended it.
Released ==
    /\ pc = "done" => body # "open" /\ timer = Off
    /\ \A i \in DOMAIN out : out[i].final => i = Len(out) /\ pc \in {"yield", "closing", "done"}

\* A stream ends although its agent has fallen silent without closing it (MaxLines
\* makes every agent fall silent), and whatever its consumer does; an agent may keep
\* a stream open for as long as it sends lines, be they empty.
StreamsEnd == (pc = "read") ~> (pc = "done")

\* What was decoded can be said again: encoded for the wire and decoded, it is
\* the same, but for a role or a value 0.3 has no words for, and for a wrapped
\* object that looks like a wrapper itself; a value that gets its wrapper only
\* now keeps its content and gains the flag.
Unspeakable(p) ==
    p.content = "data" /\ \/ p.value.json = "null"
                          \/ p.compat /\ p.value.json = "object" /\ DOMAIN p.value.members = {"value"}
NewlyWrapped(p) == p.content = "data" /\ ~p.compat /\ p.value.json = "scalar"
SameContent(p, q) ==
    IF p.content = "data" THEN q.content = "data" /\ q.value = p.value ELSE q = p
PartsOf(e) ==
    CASE e.kind = "task" ->
           UNION ({Range(a.parts) : a \in Range(e.artifacts)}
                  \union {Range(m.parts) : m \in Range(e.status.message)})
      [] e.kind = "status-update" -> UNION {Range(m.parts) : m \in Range(e.status.message)}
      [] e.kind = "artifact-update" -> Range(e.artifact.parts)
      [] e.kind = "message" -> Range(e.parts)
RolesOf(e) ==
    CASE e.kind = "message" -> {e.role}
      [] e.kind \in {"task", "status-update"} -> {m.role : m \in Range(e.status.message)}
      [] OTHER -> {}
SaidAgain(e) ==
    \/ \E p \in PartsOf(e) : Unspeakable(p)
    \/ "unspecified" \in RolesOf(e)
    \/ /\ \A p \in PartsOf(e) : SameContent(p, PartFromWire(PartToWire(p)))
       /\ \/ \E p \in PartsOf(e) : NewlyWrapped(p)
          \/ EventFromResult(EventToWire(e)) = e
Faithful ==
    /\ \A i \in DOMAIN out : SaidAgain(out[i].event)
    /\ \A g \in Range(got) :
         g.method # "push/set" /\ g.outcome.ok => SaidAgain(g.outcome.value)

\* No error of an agent or of the connection is taken for an answer; an answer
\* that is an answer is given, but for a null task, which is given as a task
\* without id.
NoErrorSwallowed ==
    \A g \in Range(got) :
      IF g.method = "push/set" THEN g.outcome = Success(g.answer)
      ELSE g.outcome.ok <=>
             /\ g.method \in {"message/send", "tasks/get", "tasks/cancel"}
             /\ g.answer.came = "whole" /\ g.answer.http = 200
             /\ g.answer.says \in {"result", "null"}
             /\ g.method = "message/send" =>
                  g.answer.says = "result" /\ ResultKind(g.answer.result) \in {"task", "message"}
=============================================================================
