# A TLA+ model of a2a-tui

`a2a-tui` is a terminal client for A2A agents: it resolves an agent's card,
opens a connection (A2A 1.0 through the SDK, A2A 0.3 through a client of its
own), sends blocking or streaming turns, follows tasks, and shows messages,
artifacts, task states and A2UI forms in a transcript. This directory holds
models of its parts, the TLC configurations that check them, and theorems about
them with proofs for TLAPS.

## 1. The system

| Part | Source (`src/internal/…`) | State | Operations | Talks to |
| --- | --- | --- | --- | --- |
| Session lifecycle | `agent/session.go` | `cancels` (key → cancel), `wg`, `ctx`, `once` | `Send*`, `Subscribe`, `CancelActive`, `Shutdown` | called by the app; one goroutine per operation |
| Stream pump | `agent/session.go` (`pump`, `finish`, `publish*`, `dedupeSnapshot`, `backoffSleep`) | per operation: task ID, last state, drops, attempt | receive, publish, reconnect, give up, finish | reads an SDK event sequence, writes the session's bounded channel |
| Push notifications | `agent/session.go`, `pushsrv/` | webhook server, URL, token, registered tasks | `StartPush`, `StopPush`, `taskObserved`, `deliverPush` | HTTP server goroutines; the session's channel |
| Task registry | `agent/registry.go` | task metadata | `Observe`, `List`, `Get` | pumps and push write, panes read |
| App bridge | `tui/app.go`, `tui/bridge.go`, `tui/view_chat.go` | `session`, `connecting`, `listening`, `inflight` | `/connect`, `/disconnect`, turns, Esc, event handling | Bubble Tea's update loop and Cmd goroutines |
| Chat turn | `tui/app.go`, `tui/view_chat.go` | `pending`, `lastTaskID`, the states on screen | turns, `/task`, `/history`, `/cancel` | late RPC results |
| Tasks pane | `tui/view_tasks.go` | rows, cursor, detail | keys, `Sync` | registry; task RPCs |
| Keyboard | `tui/app.go` (`Update`, `handleCommand`), panes | pane, help, draft | keys, commands, events that change a pane | all panes |
| Transcript | `chat/transcript.go`, `chat/block.go`, `chat/split.go` | entries, sequence, render cache | `Append`, `ReplaceByID`, `RemoveByID`, `MoveToEnd`, `Render` | written by the event handlers |
| Wire log | `wirelog/`, `tui/view_wire.go` | ring of exchanges; the pane's cache | capture, commit, read, clear | every HTTP round trip |
| JSON-RPC console | `rpcconsole/`, `tui/view_console.go` | target, in-flight flag, form, history | send, presets, history, results | HTTP through the wire log |
| A2UI engine | `a2ui/engine.go`, `surface.go`, `envelope.go`, `jsonptr/` | surfaces, data models, components | `Apply` of envelope batches | splitter, surface pane |
| Widgets and surface pane | `a2ui/widget/`, `tui/view_surface.go` | focus ring, edits, prompt | keys, `Sync`, actions | engine; session |
| A2A 0.3 client | `compat03/` | SSE reader, watchdog | calls, streams, translation | HTTP |
| Card resolution | `agent/resolve.go`, `agent/card.go`, `agent/connv1/` | – | candidates, protocol detection, dialling | HTTP |
| Configuration | `config/`, `/agent` | two JSON files | load, save, upsert, remove | file system, other running programs |
| Programs | `cmd/a2a-tui` | flags, the mode | start | configuration, app |
| Layout | `a2ui/render/`, `md/`, card, help, styles | – | – | – |

What is hard here, and hardly reached by tests:

- goroutines of one session (operations, Shutdown, push) and the update loop
  share the `cancels` map, the wait group and a bounded channel that may have
  no reader any more;
- streams break, are resubscribed, repeat themselves, and never need to end;
- messages of different Cmds reach the update loop in any order, those of a
  session that has been replaced included;
- updates of one task reach the transcript from streams, subscriptions, push and
  fetched snapshots, in any order, and are drawn through a cache;
- what is read from the network is cut, broken off, capped or silent at any byte;
- one keyboard serves six panes and a help overlay, which events open and close
  between two keys;
- several programs edit one configuration file, and may die while they do.

`PROJECT.json` lists the hazards at their lines with the properties that cover
them, or says why none does.

## 2. Modules

| Module | What it models |
| --- | --- |
| `Session` | the life of all operations of one session, Esc and Shutdown |
| `SessionProofs` | theorems about `Session` and `Connect` |
| `StreamPump` | one operation in detail: what it reads, publishes, drops, retries |
| `PumpProofs` | theorems about `StreamPump` |
| `EventFeed` | abstract: a feed hands each event over once and in order |
| `AppBridge` | the app with several sessions: connections, listeners, in-flight counter; implements `EventFeed` for the first connection |
| `AppBridgeProofs` | theorems about `AppBridge`, the refinement of `EventFeed` among them |
| `Transcript` | the transcript and its render cache under the handlers |
| `PushNotify` | push notifications of one session: webhook server, registration, delivery, against `/push` and Shutdown |
| `PushProofs` | theorems about `PushNotify` |
| `A2UIEngine` | operators: surfaces, their data models, batches of envelopes |
| `SurfacePane` | the engine, the form in the pane and its editors under the agent and the user |
| `ChatTurn` | what the app remembers of the conversation and its tasks: reply target, last task, states on screen, registry, dashboard; late answers over several connections |
| `ChatProofs` | theorems about `ChatTurn` |
| `Keyboard` | who gets a key: panes, help, chat input, commands, the form of the console, and the events that change a pane |
| `TuiProofs` | theorems about `Keyboard` |
| `WireLog` | the capturing transport, its ring, the wire pane and its cache |
| `RpcConsole` | the console's calls as exchanges of `WireLog` (which it extends), their caps and their late results |
| `ConsoleProofs` | theorems about `WireLog` and `RpcConsole` |
| `Translate03` | operators: A2A 0.3 objects to 1.x objects and back |
| `Compat03` | the 0.3 client over `Translate03`: SSE reader, watchdog, stream of events, blocking calls |
| `FoldProofs` | theorems about `Compat03`, `Transcript` and `SurfacePane`; induction along sequences |
| `Connect` | start of the program, saved agents edited by several programs, card resolution, dialling |
| `SessionMC`, `AppBridgeMC`, `TranscriptMC`, `PushMC`, `SurfacePaneMC`, `ChatMC`, `KeyboardMC`, `ConsoleMC`, `Compat03MC`, `ConnectMC` | instances for TLC |

Definitions marked *(variant)* are faulty versions of the definition below
them. No behaviour of the models uses them; they exist to show that a property
notices the fault.

### Session

An operation `o` goes through `idle → running → reporting → releasing →
unwinding → exited`, the statements of `SendRaw`'s goroutine and of `pump` with
its two deferred calls: the work, `publishWait(StreamDoneEvent)`, `release`
(first deferred, so last registered), `wg.Done`. `Start` is `register`, `wg.Add`
and `go`, which nothing can interleave with: all calls come from the update
loop, and the app drops its reference before it spawns `Shutdown` (`Retire`).
`KeyOf` gives the operation key: sends and streams use a fresh message ID,
subscriptions use the task ID, so two subscriptions to one task share it.
Operation contexts derive from `context.Background()`, not from the session's
context; only `publishWait` watches the latter. Shutdown is four steps: cancel
the session, cancel and drain the map, join or expire, destroy.

### StreamPump

`pc` follows the code: `range` (waiting in the `for … range seq`), `publishing`
(the loop over the translated events), `ended` (the decisions after the range),
`backoff`, `compacting` and `finishing` (the two `publishWait` of `finish`). The
agent is arbitrary: any event, any head after a resubscription, any end. Task
states are one working, one parked and one terminal state; messages and
artifacts are `content`. A clean end in a parked state ends the operation, the
other ends resubscribe unless there is no task or the error is fatal. `shown` is
the state of the last update the channel accepted; as the channel is a FIFO,
this is what the view shows once it has drained it. `trail` keeps the last two
accepted events. Nil events and task events without a state are left out.

### AppBridge and EventFeed

One action per message the update loop handles, one per step of a goroutine.
A session is its channel, the listeners blocked on it (`waiting`), the events
they have taken and that are on their way to the update loop (`held`, a set: the
loop may get them in any order), and whether its `Done` channel is closed.
Events carry the number under which the session published them. The channel is
unbounded here; fullness is the subject of `Session` and `StreamPump`, and the
update loop is taken never to stall for `publishTimeout`. `EventFeed` is the
promise: pending numbers and the last one handled. The mapping puts the event in
hand in front of the channel. It is checked for the first connection,
whatever is connected next: the listener that a late event of an old session adds
to a new one breaks the promise for later connections (section 4).

### Transcript

Entries, sequence, cache and eviction queue are those of the code, and
`ReplaceByID` keeps the shape of its loop (the range is fixed at first, removal
shifts the rest), because that shape matters. Each handler is one action that
ends in `refreshTranscript`. `screen` is what was drawn. Block contents are small
values; a surface block draws the version the surface has at that moment. If an
index runs past the end, `crashed` is set and nothing happens any more.
`fetched` remembers that the result of a `tasks/get` has been appended: from then
on the code shows an artifact twice and can panic (`TranscriptReplace`), so
`VerdictLast` and `NeverPanics` (in `EventsKeepOrder`) are about transcripts fed by
events alone.

### PushNotify

`stage` says where the update loop and the goroutine of Shutdown are: both stop
the server by the same three steps (`StopPush` up to the unlock, closing the
listener, draining the requests for at most `shutdownTimeout`), and while
`/push off` drains, the update loop does nothing else. What happens between two
unlocks of `Session.mu` is one action. A server is a number, which is also its
URL and its token; 0 is nil and the empty string. `call` is an operation as far as
it observes a task, `registrar` the goroutine that registers the task, `request`
a goroutine of the HTTP server. The agent answers as it likes, or never; a request
whose token is not the server's is refused and leaves no trace, so only the
others are modelled. `overdue` remembers which bound has expired.

### A2UIEngine and SurfacePane

`A2UIEngine` has no variables: `Apply` takes an engine record and a batch and
returns the engine afterwards, envelope by envelope; an envelope the code refuses
with an error leaves the record as it was. Surfaces are numbered objects, because
a widget keeps a pointer to the one it was opened on: `live` says which object an
identifier has now, and an object stays in `heap` as long as the engine or the
widget points to it. Time stamps are abstracted to what they are used for:
`recent` orders the live identifiers by `UpdatedAt`, `synced` says whose stamp the
pane has seen. A data model has fields and one list; a path is a field or a row,
and `Blocked` stands for a field whose parent is no object, so that writing it
fails. Components with no identifier, models that are too deep, protocol versions
and renderer functions change nothing and are left out.

In `SurfacePane` every action is one message of the update loop, with all its
calls: `handleAgentEvent` applies the envelopes, runs `Sync`, updates the count of
surfaces and may open the new form. `handleTaskResult` applies the history of the
task twice, as the code does (for the transcript, and in `SetDetail`); the request itself
changes nothing and may have been made at any time, so it is not an action. An
answer that arrives after the session has been replaced is in `ChatTurn`. Text fields
are `text` or, if they hold a number, `number`: the code has one editor for both (`Type`),
and a field may change from one to the other under an edit. Date fields (`date`) have an editor of their
own; it and that of numbers write only what parses (`Strict`). Check boxes, pickers and
sliders are `choice`. `stray` is a history mark of an editor: its text is not that of
an edit that reached the model, because the write failed or the input became one of another
type while the user's value was gone (section 4). A template is one level deep, and a
row has one relative binding. Whether an event or a local call answers a button is
part of the component; its checks, and the other reasons for an automatic opening
not to happen (a draft, a parked question), are left to chance.

### ChatTurn

A session is its registry and a queue of published events; `truth` is the state
the agent has a task in. `Observed` is `Registry.Observe` followed by a publish
that succeeds or drops, `ReportDropped` the `StreamCompactedEvent` of a finishing
pump. A task RPC (`calls`) is asked of one session, answered at some moment with
the state the task then has, and its result is a message to the update loop, which
handles it whatever is connected by then. `TaskUpdated`, `StreamCompacted`,
`TaskResult` and `TasksRefreshed` are the handlers with all they do to `pending`,
`lastTask`, the pill, the dashboard and its detail. `Retired` is a replaced session:
its queue is no longer read, except for the event a listener has in hand.
The history variables say what the code has no record of: which tasks have asked
and were not answered (`asked`), which changed or failed without an update that
could have shown it (`unsure`), whether a message of an earlier session has been handled
since the last connect (`late`). The context ID follows the reply target and is
left out; `/stream` and `/clear` touch none of this.

### Keyboard

The actions are the branches of `App.Update` in their order: the help overlay
takes some keys, then esc and pane chords, then the pane, then the chat input.
Keys are told apart only as far as this routing does, the chat input is empty, a
text or a command, and a form is live, in the pane, or asks for a confirmation.
`chosen` remembers whether the user's own key showed the pane. Events are those
that change a pane or a guard: forms arrive and go, a question or the end of a
turn, fetched details, the results of a connect and of the console.
Enter reaches the chat input from the card and from beneath the help, too, where
the input is not drawn: the code routes it there.

### WireLog and RpcConsole

`Start` is the first half of `RoundTrip`: it decides whether to capture, and copies or drains
the body of the request. `Read`, `ReadEnd`, `ReadError` and `Close` are
`captureReadCloser`'s, which commits once, at the end or at the closing. Bytes are
counted. `clock` stands for `time.Now()`. `ShowWire` is `Sync` and `View` of the pane
with its cache key (number, time and state of the last entry).
In `RpcConsole` an exchange belongs to a call of the console or to the session;
`CallReads` and the like are the reader of a response under `io.LimitReader` or
of SSE frames under `MaxFrames`, `Verdict` is what `readCapped` makes of where the reader
stopped. A result carries no console: `ApplyResult` applies it to the pane as it is.

### Translate03 and Compat03

A wire object is a record of the members it has. What the code passes unchanged
(texts, names, times) is left out; parts, data values with the wrapping flag,
states, roles, artifacts, statuses, push credentials, and the caps are there.
`Compat03` reads a stream line by line, as `readLine` and `next` do. The agent says frames on
one data line or two, blank lines, lines without meaning, huge ones, and it falls
silent, closes or breaks. The watchdog is a timer, then its flag, then the closing
of the body, as three steps between those of the reader. Once the body is closed
the reader may still get what was buffered: any number of lines. `BlockingCall`
is a call with any answer of `Answers`: refused, cut, too large, any status, a
result of any kind, null, an error, junk.

### Connect

`/agent save`, `remove` and `default` read the file, change it in memory and write
it: staged in a temp file, synced, renamed. `file` is what programs read,
`durable` what a power loss may leave behind, `synced` whether the bytes are on the
disk. One program is modelled whole; of the others only that they edit the file.
`Launch` and `StartConnect` are the two ways to an attempt: a saved name is looked up by
`main` before the program starts, or by `expandRef` in the goroutine of the attempt.
`FetchNew` and `FetchLegacy` are the two halves of `Resolve`, `Dial` is `NewConn` with
the handling of the result. What an agent serves is one of a few
documents per path, and may change.

## 3. Runs

| Run | Asks | Bounds |
| --- | --- | --- |
| `SessionAll` | `Cancelable`: what is in flight can be canceled. `DestroyAfterJoin`: the connection outlives the goroutines. `AllLeave`: canceled operations leave, Shutdown ends everything | 3 operations under distinct keys, channel of 2 |
| `PumpAll` | `NoSilentLoss`, `OrderlyEnd`, `HeadNotRepeated`. `OperationsEnd`: cancellation, settled tasks and used-up attempts end the operation, terminal is final | channel of 2, 2 reconnects, 3 agent events with up to one content each |
| `BridgeAll` | `NeverDeaf`, `InflightExact`. `FeedDelivers`: the first connection implements `EventFeed`, events are taken, listeners leave | 2 connections, 2 chats, 1 subscription, 1 content each |
| `TranscriptAll` | `CacheSound`: what is drawn is what is there, the cache is bounded. `EventsKeepOrder`: one pill per task, verdict below its turn, no index past the end | 1 task, 2 widths, cache of 3, 4 blocks, 7 instance IDs, 1 surface version |
| `TranscriptReplace` | *violated*: collapsing duplicates panics | as `TranscriptAll` |
| `PushNotifyAll` | `QuietAfterShutdown`, `RegistrationSettles` | 3 operations, 2 of them on one task, 2 servers, 1 request |
| `SurfacesAll` | `FormTrue`: the form has the inputs of its surface, editors show what the agent will get, the dirty mark is exact. `UserUndisturbed`: the agent neither types over the user nor moves the focus | 2 surfaces, 1 field, 2 rows or 3, 3 texts, 7 messages, 2 focusable inputs, 1 message of the task |
| `ChatAll` | `OwnState`: what keys act on is the present agent's. `PendingIsOpen`: the reply goes to a task that asked and has neither been answered nor ended. `LagExplained`: what the screen shows is the agent's state or the difference is on its way. `DashboardCurrent`, `SavesAgentInUse` | 2 connections, 3 tasks, queue of 1, 2 updates, RPCs only start while none is out (`r` starts two), half page of 1 |
| `KeysAll` | `CancelsInView`: Esc cancels only with the input in view. `DraftKept`: a draft leaves only as a turn. `FocusDefers`: a form never opens over a draft. `NothingOfTheDead`: no pane, prompt or method of a session that is over | both dialects, 3 presets, 1 turn, 1 recorded exchange |
| `WireAll` | `LogExact`, `CaptureTransparent`, `FramesShownTrue` (the pane's cache), `OneCallAtATime`, `WholeOrTold` (a capped answer says so), `LoggedBeforeAnswered` | 2 exchanges, ring of 1, captured body of 1, drained body of 2, answers up to 2, cap of 1, 2 targets, 1 clearing or switch |
| `CompatAll` | `NothingMadeUp`: events are what was said, in order, never half. `Released`, `StreamsEnd`. `Faithful`: translating there and back. `NoErrorSwallowed` | 5 lines, reader one line behind, 2 data lines per event, 2 events, 2 parts, 1 artifact, 1 tick of idleness, every kind of answer |
| `ConnectAll` | `FileSound`, `SavesKept`, `SpeaksItsCard`, `ModeTrue` | 2 programs, 2 commands, 2 names (one that looks like a URL), 1 URL, 2 attempts, 1 fault |

Why the bounds are enough to be interesting: a channel of 2 is full after one
update and one content, so losses, reports that wait and reports that are lost
all occur; 2 reconnects give a first, a repeated and a refused one; two
connections are the least that lets an event of an old session meet a new one;
a cache of 3 with 4 blocks evicts during a single refresh, and two widths make
keys that differ only in the width; two focusable inputs, where the list alone
would have three, make a row that goes bring another into view; two servers are what `/push off` and `/push
on` need to leave registrations at the old one behind. A queue of 1 drops the second of two updates, and
two tasks of one agent are what the dashboard's order and a reply target that is overtaken by another need. A
ring of 1 evicts on the second commit; bodies and answers go one byte past every cap. Two
data lines make half an event, five lines two events and what separates them;
one tick lets the watchdog meet every line. Two commands are what loses an
update of the file.

The one-fault bound of `ConnectAll` means that no two of a crash, a power loss, a failing step and an
upgrade meet in one behaviour, though any of them may come at any moment.

Several properties are conjunctions of named parts, which the modules define
separately with their comments. Deadlock is checked in `ChatAll` and `KeysAll` (there is always
a key to press). Elsewhere the modelled part may rightly stop: a session
that has been shut down, an operation or a stream that is over, bounds that are
used up.

`TranscriptReplace` checks a sentence of the repository against the code
(`transcript.go:73`): `ReplaceByID` panics when it collapses a duplicate that is
followed by another block (`transcript.go:70`). Duplicates arise when a fetched task
shows an artifact that the stream has shown already; the next update of the
artifact crashes the program.

### Fairness

- `Session`: goroutines that can run do, a canceled context ends the
  transport's read (the SDK's and `net/http`'s contract), Shutdown proceeds and
  its grace timer fires. The agent need not answer and nobody need read the
  channel: that is the point of `publishTimeout`.
- `StreamPump`: the same for one operation. `GivesUp` says what it needs beyond
  that: `StreamsKeepEnding`, no stream stays open for ever.
- `AppBridge`: the update loop takes the messages it is sent, and listeners run.
  The user, the agent and the operations owe nothing.
- `PushNotify`: goroutines run and timers fire (`pushRegisterTimeout`,
  `publishTimeout`, `shutdownTimeout`, `shutdownGrace`). The agent owes no
  answer, no request and no end of an operation.
- `Compat03`: the reader's goroutine runs, the watchdog's timer fires, and the
  consumer, which is the pump's range loop, takes an event or stops. The agent owes
  nothing; as it says at most `MaxLines` lines, what `StreamsEnd` shows is that a
  silent agent cannot hold a stream.
- `ChatTurn`, `Keyboard`, `RpcConsole`, `Connect`, `Transcript` and `SurfacePane` state no
  fairness and no liveness.

## 4. Seen while modelling

Behaviour of the code that is not what its text or its user would expect, without a run
of its own. Properties that it limits say so.

Sessions and push
- Two subscriptions to one task share an entry of `cancels` (`session.go:262`):
  Shutdown and Esc then miss the older one. `Session`'s reach properties are
  checked and proved for distinct keys.
- The goroutine that registers a task reads the webhook's URL later than the
  decision to register (`session.go:390`): with `/push off` or Shutdown in
  between it registers an empty URL. A task known before `/push off` is not registered
  again after `/push on` (`session.go:372`). `/push off` drains on the update loop, so a
  request with a slow body holds the keys (`view_chat.go:446`).
- `ErrorEvent`s do not wait for room (`session.go:600`, against the comment at
  `session.go:87`). A blocking send does not look whether its updates were accepted
  (`session.go:222`). When `publishWait` gives up on a `StreamDoneEvent`
  (`session.go:826`), `inflight` stays too high.
- `dedupeSnapshot` compares with the last state observed, not published
  (`session.go:552`), so after a drop the head that would have repaired the view is
  removed too; `NoSilentLoss` still holds because the loss is reported and the view
  fetches the task.

The update loop
- A late event of a replaced session re-arms a listener on the new one
  (`app.go:354`, `bridge.go:11`); two listeners may swap events.
- Ends of subscriptions are subtracted from `inflight` although never added
  (`view_chat.go:175`), so Esc may be ignored while a stream runs (`README.md:107` of the
  repository); and replacing a session leaves `inflight` as it was (`app.go:529`), so the
  spinner does not stop (`view_chat.go:277`).
- Messages do not name their session: a late event or result of an earlier one
  sets the reply target, the last task and the open detail of the new
  (`OwnState` allows this only after such a message), and a late compaction report
  makes the new session fetch the old one's task.
- A snapshot fetched earlier replaces a newer pill (`unsure` in `LagExplained`). Neither
  the result of `/cancel` nor a "working" update clears the reply target. A question
  that is only seen in a fetched task does not set it, and with two parked tasks it is
  the later one (against `README.md:169` of the repository).
- `/disconnect` does not call off an attempt to connect. The results of task RPCs are not
  observed by the registry. Page down in an empty list leaves the cursor at −1 until the
  next `Sync`.
- Enter on the card pane, or beneath the help, submits the draft the user cannot
  see (`app.go:372`). A form may open by itself beneath the help.

Transcript and forms
- `ReplaceByID` skips the element after one it removes; see `TranscriptReplace`.
- Surface snapshots are appended, not replaced (`view_chat.go:144`, against
  `block.go:490`); one that was appended before a deletion stays as it is, and a cached
  one shows the surface as it was when it was drawn.
- `Sync` compares the time stamp of the surface that is live under the identifier
  and then refreshes the widget over the object it was opened on
  (`view_surface.go:196-204`). After a `deleteSurface` and a `createSurface` of one
  identifier in one message these differ: the user fills in a form whose data
  model nobody reads.
- `BlocksForTask` runs the history of a fetched task through the engine
  (`view_chat.go:302`), and `SetDetail` once more (`view_chat.go:323`): old
  envelopes take effect after newer ones, and a form the agent has deleted is back.
- When the agent deletes the surface under an `openUrl` prompt, `Sync` drops the
  widget and leaves the prompt: `Update` then ignores every key, and Esc, which
  expects the prompt to take it (`app.go:270-273`), does nothing; pane chords still work.
- `maybeAutoFocusSurface` compares numbers of surfaces (`view_chat.go:210`): a form
  that takes the place of another in one message is not opened.
- Two editors bound to one path: the other one shows the old value until the next
  event of the session. `EditorsTrue` and `UserTextSurvives` are about editors that
  are alone on their path. Editors of template rows go by the index of the row.
- `adopt` copies the dirty mark and the last written value before it looks at the kind
  (`model.go:401-407`, against its "component changed type: start fresh"). The user picks A in
  a picker; the agent makes it a number field and clears the value; the new
  editor is empty and counts as edited. When the value A comes back, the editor is taken for one the
  user has typed into, and stays empty over a model that holds A. The same mark keeps a text whose write failed:
  a field under a path that cannot be written, dirty before anything was written, keeps it through
  every refresh. Both are the exception `stray` in `EditorsTrue`; without it TLC finds the first.

Console and wire log
- The answer of a call made before the target changed is shown as the new
  target's, and clears its in-flight flag (`strayed` in `OneCallAtATime`).
- A response of exactly `MaxFrames` frames is reported as cut (the safe side of
  `WholeOrTold`). Recalling an exchange without params keeps the params of the form;
  the place in the history shifts when the ring is full.
- A body whose reading fails and that is never closed is never committed. Clearing hides by the
  time of the start, so an exchange that started earlier and ends later stays hidden. A
  body over `readHardCap` that cannot be replayed is sent cut while the capture is on
  (the exception in `CaptureTransparent`). The error hint of the console may quote another exchange.

The 0.3 client
- A stream ends on `final` only, not on a terminal state (against the comment at
  `client.go:106`). A null result of `tasks/get` or `tasks/cancel` is given as a task without an ID
  (the exception in `NoErrorSwallowed`). The watchdog counts the time its consumer takes, too
  (against `sse.go:52`). A flagged data object that looks like a wrapper decodes to
  its inside when it is sent again (the exception in `Faithful`).

Connecting
- Launched with the name of a pinned agent, the program holds every later `/connect` to that dialect
  (`main.go:42`; the exception in `ModeTrue`, against `README.md:149` of the repository). An
  explicit `--protocol auto` overrides a pin at the start only. Saved names with a dot or
  slash work for `--agent`, not for `/connect`.
- `Resolve` falls back to 0.3 after any failure of the first fetch, a network
  error included (the comment above it says 404, parse failure or no 1.x
  interface), and `/agent save` then pins 0.3. A card whose only 1.x interface is not JSON-RPC is taken and then
  refused by the dialler, without trying 0.3.
- Two programs that edit `config.json` at once lose one of the changes (the
  exception in `SavesKept`). The directory is not synced after the rename, a crash leaves the temp file. The default agent is stored and
  listed, never used; `credentials.json` is never used.

## 5. Proofs

Checked with TLAPS for every value of the constants that satisfies the named `ASSUME`
of its module. Every run property a theorem states, TLC checks on the small instance
as well; the inductive invariants were model-checked, too, before they were proved. Some
theorems state what no run lists: the type invariants of `Session`, `AppBridge` and `PushNotify`,
`Lifecycle`, `EscCancelsAll`, `NoOrphanServer`, `RegisteredOnce`, `DrainComplete`,
`ClosedWithSurface`, and `TerminalIsFinal` and `FeedSpec`, which are parts of
`OperationsEnd` and `FeedDelivers`.

What is assumed of the constants: bounds are numbers, `None` and its like are no member of
the set they complete, capacities are not zero where the code has a positive
constant. Beyond that, `ChatAssumption` says that there are finitely many tasks (`r` asks
for all rows at once) and that each is of one agent, `WireLogAssumption` that a body can be captured
to `MaxBody` only if it may be drained that far, `ConnectAssumption` that names and
URLs are told apart, and `KeyboardAssumption` that the console has at least one preset in
each dialect. `Compat03Assumption` says what an answer or a push config consists of,
`WordsAssumption` which members of a result `json.Unmarshal` accepts, and
`TranscriptAssumption` that no task has the name of a block of no task.
`EngineAssumption` and `PaneAssumption` tell paths, values and texts apart, and
`MessagesAssumption` says what an envelope is: any components, as long as a root is a column
and an input has a path, and any data model of values.

`SessionProofs`
- `TypeCorrect`: `Spec => []TypeOK`. Inductive as it stands, except that `wg` must
  not go below zero, which needs that the wait group counts the goroutines.
- `LifecycleHolds`: `Spec => []Lifecycle`, however calls share keys. Lifecycle
  together with the type is inductive: a step moves one operation, and the
  cardinality of the counted set follows it up and down by one.
- `JoinBeforeDestroy`: from `wg = Cardinality(Counted)`, a join at zero means an
  empty set, and after the session has been retired nothing starts.
- `EveryCallCancelable`, `DrainIsComplete`, `EscReachesAll` assume
  `DistinctKeys`. They chain: a release under a key that nobody else uses removes
  only its own entry, so live operations stay in the map, so draining the map
  leaves none.
- `ConfigIsSound`: a file is `Whole` if it has its type and its default agent is in it. This holds
  of the file read, of the one a power loss would leave, and of what every command
  under way is about to write (`UpsertWhole`, `RemoveWhole`, `DefaultWhole`), and what is
  renamed has been synced.
- `ReportedSavesStay`: a command changes one name (`Changes`); `kept` forgets a name when
  a rename of another program, or of a file read earlier, may take it away, and otherwise the base
  file already had it.
- `DialectOfTheCard` and `ModeAsked`: `Steps` records what an attempt has learnt when it
  reaches each step: a 1.x document only with a mode that allows it, a 0.3 document by choice only
  behind a failed 1.x one.

`PumpProofs`
- `NothingLostSilently` and `EndsInOrder`, from one inductive invariant. `Tracked` is its
  heart: as long as nothing has been dropped, the update still in hand, or else the
  state shown last, is the state observed last. A loss makes `dropped` positive, and it
  never goes back; `Reported` then carries the report from `compacting` to the end. `Phases`
  says where the goroutine may be with which task and how many attempts, and `UpdateFirst`
  that an agent event puts its update before its content, so that no second update hides
  behind the first.
- `TerminalEnds` is the action property `TerminalIsFinal`: by `Phases`, a settled task
  never reaches the steps that read or resubscribe.
- `HeadsNotRepeated`: only publishing the head of a resubscription could repeat, and
  then `dedupeSnapshot` has let it through, because its state is not `lastState`; by
  `Tracked` that is what is shown, or something has been dropped.

`AppBridgeProofs`
- `BridgeTypeCorrect` and `SessionNeverDeaf`. The inductive invariant adds to
  `NeverDeaf` that the events in hand are finite in number, that the latch is
  clear when there is no session, and that the session in use is one that was
  made.
- `InflightIsExact`: `inflight` is the number of operations under way or whose end is in
  the channel or in hand. Each step moves an operation, or an end, from one of these sets to
  the next; the counts of ends in a sequence are followed by lemmas about `Append` and `Tail`.
- `BridgeImplementsFeed`: `Spec => FeedSpec`, the refinement of `EventFeed` for the first
  connection. `FirstInv` says what makes it true: session 1 never has more than one listener, so
  at most one event is in hand, and events are numbered without a gap from the one handled last
  through that in hand to the end of the channel. Each action is then a `Publish`, a
  `Take`, or a stutter of the feed; a late event cannot come from before the first session. The
  fairness that completes `FeedDelivers` stays with TLC.

`PushProofs`
- `PushTypeCorrect`, `ServersAccountedFor`, `OneRegistrationPerTask` and
  `ShutdownLeavesQuiet`, all from one inductive invariant. `Shape`: the update loop
  is gone exactly when Shutdown has begun, so the two never stop a server at the
  same time; server, URL and token change together; whoever has stopped a server
  left none in the session; an operation that registers a task has marked it; the
  wait group counts operations and registrations. `Handled`: a request in hand is at
  a server that listens or is being drained, unless a drain was given up. `Joined`:
  after a join at zero nobody is left and nobody comes. For `ShutdownLeavesQuiet`
  the last two meet: no server in the session and nobody closing one means that
  none listens, so no request is left.

`TuiProofs`
- `FormsDefer` and `NothingLeftOver`, from one inductive invariant over the keys. A form opens
  by itself only over the transcript with an empty draft, and as long as it shows, keys do
  not reach the input (`FocusDefers` needs no more than the types of the flags). Without a session
  nothing of one is on screen, remembered or out (`Left`, `OfTheDialect`): every step that
  changes the session resets the console, and presets and the history only move within
  what the console holds (`CyclesRound` and its neighbours, over the modular index).
- `EscInView` and `DraftsAreKept` are action properties: of all keys only esc with the
  transcript or the wire log in view cancels, and only the chat input's keys and enter change
  the draft.

`ChatProofs`
- `NothingOfOtherAgents`, `RepliesToTheAsking`, `DashboardFollows`, `SavesTheAgentInUse` and
  `LagIsExplained`. `Sound` says whose everything is: what a session has queued and
  registered is about its own agent's tasks, a task RPC knows which session it asked, and
  nothing is known of a session that has not been made. With it the first four
  properties are inductive.
- `LagExplained` is not: that something about a task is queued does not say that
  it is the right thing. `LastWords` strengthens it: the last event queued for a task is its true
  state or a report, or nothing is queued and the screen shows the truth or a fetch is out, or
  the task is among those whose loss is to be reported or that changed unannounced. A new
  event becomes the last word, a drop or an unannounced change puts the task among the excepted, and
  taking the last event shows its state.

`FoldProofs`
- `StreamsLetGo` and `ErrorsAreErrors`. `StreamTyped` is the type of a stream's state, with the
  event in hand at the steps that need one; `Released` is inductive with it, since only
  `Close` reaches the end. An outcome is judged when its call is made (`OutcomesAreJudged`, over
  the ways an answer comes), and a push config comes back from the wire as it went
  (`PushComesBack`).
- `WordsAreTheAgents`: `Heard` folds the lines read into the events they mean, what is stray in
  them and the event begun. `Following` is the invariant: between lines, what the client holds
  is exactly that (`InHand = Sofar`), and with an event in hand it becomes that as soon as the event is
  over; the flush at the end of the body counts as one more blank line. A stream that breaks
  off has handed over a beginning. The lines not read only add to what is meant (`HeardGrows`).
- The theorem needs to know that `Heard` exists, and what it is along a sequence. The induction
  theorems of the library take an operator, which the provers cannot instantiate; so induction is
  stated about sets, from the well-foundedness of `<` (`NatSteps`, `SeqSteps`), and
  `FoldExists` builds the fold of any step function.
- `ScreenShowsTheTranscript`: an operation either takes an entry over or gives it an instance
  ID that none had before (`Renews`), and the IDs stay distinct (`Sound`); that is why what the cache
  holds under an ID remains true (`CacheTrue`, `CacheCarried`), also of blocks that were
  replaced, moved or cleared, and why the blocks drawn one by one are those of the transcript
  (`DrawnOne`, `RenderedAll`). A cache keyed by an ID that is used again breaks just this.
- `EventsLeaveOrder`: a pill has no double, ever (`KeepsIds`), so replacing one never runs past
  the end; artifacts have none while no snapshot has been fetched (`Tidy`). `TidyBut` is the order
  between the replacement of a pill and its move to the end: everything but that task is in order,
  and the move (`MovedTidy`) or the state `working` (`WorkingTidy`) settles the task too. The
  loops of `ReplaceByID`, `RemoveByID` and `Render` are recursive functions, and `RunExists` says that they
  are what their equations say (`VisitedLoops`, `KeptPicks`, `RenderedAll`).

- `DecodedComesBack`: a part has one of four shapes (`Decoded`), and unless it is `Unspeakable`
  it comes back (`PartSaidAgain`). Lists come back because they were capped by
  the same bound when they were decoded (`PartsSaidAgain`), so messages, artifacts, statuses and events
  do, if their parts and roles do; an encoded event is of its own kind again. That every
  event and every outcome is such a one is inductive: nothing is decoded from anything but
  what an agent may say (`WordsAssumption`), or from null.
- `FormsTellTheTruth`: `PaneSpec => []FormTrue`, from the inductive invariant `PaneInv`, and the
  theorem with the longest way to it. Its parts are these.
  The engine is in order after any batch (`Apply` is a recursive function, so `RunExists`
  applies): no object has two identifiers, `recent` has the live ones, data have their
  types, and there is always an object to spare for `applyCreate`. The object a widget is over
  is never given away (`held`), and if its content is no longer what the form was made of,
  then the identifier is not live any more or its object is not the one in `synced`, so `Sync`
  notices (`Noticed`, through any batch: `FollowsOn`).
  What a form consists of (`Displayed`, `Inputs`, `collect`) has one editor to a key, no more than
  the limit, and is a function of the components and the number of rows; a write by
  the user changes neither, so the form still has the inputs of its surface.
  And every editor is sincere: its text is what the model holds, or what it wrote last, which
  the model still holds, or does not parse, or is stray; `adopt` keeps this whatever the old
  editor was and wherever it stood.
- `AgentsKeepOut`: `UserUndisturbed`, whose halves are `CursorFollowsTheField` and `TextsStay`. The
  agent reaches a form only through `Sync`, and a refresh looks for the key that had the focus;
  a form opens by itself only from another pane. An editor that is edited and sincere wrote
  what the model holds, so `adopt` keeps its text as long as the value is the same.
- `FormsEndWithTheirSurface`: after `Sync` the widget is over a live surface or gone, whatever has
  been applied.

`ConsoleProofs`
- All six properties of `WireAll`, from one inductive invariant. Every step of an exchange,
  the console's or the session's, is a `Turn(x, r)`: it gives one exchange one new
  record and commits it when it ends. What a turn preserves is proved once, and each
  action is shown to be one.
- `LogTellsWhatHappened`: the ring is the end of the log (`Ringed`), and the log has each ended
  capture once (`Logged`). `CaptureChangesNothing` is `Exact` of each record.
- `CacheKeySuffices`: each exchange starts at a time of its own (`Timed`). If the cached
  document is no longer that of the entries, then the entry that was the newest
  at its key has been followed by another, and no later log can have it as its
  newest again (`Cached`): the key cannot match.
- `OneCallPerConsole`: unless a late answer has cleared the flag, two calls out are the
  same call, and none is out while the flag is clear (`Alone`). `AnswersAreWhole` and
  `AnswersAreLogged`: an answer shown belongs to an exchange that is over, hence in the log
  if it was captured (`Attended`).

Only model-checked: liveness, which needs fairness and ENABLED: `AllLeave`,
`RegistrationSettles`, `StreamsEnd`, and the temporal parts of `OperationsEnd` and `FeedDelivers`.
Every invariant and every action property that a run checks is proved.

## 6. Not modelled

- Layout and wording (`a2ui/render`, `widget/view.go`, `md`, card, help, styles):
  functions from a state to text, without a state of their own.
- The fixture agent: the agents of the models may say what it says and more. The
  SDK is represented by an arbitrary agent in `StreamPump`.
- The catalogue functions of A2UI (formatting and validation of one value), and
  JSON pointers and templates nested deeper than one level: a further level is the same
  step again.
- Of the registry, what an entry collects for display; of a card, its summary; of
  `compat03`, the push calls nobody makes; `credentials.json`, which only tests read.
- Flag parsing, headers and their redaction, scrolling, text cursors, the line budget
  of the transcript.

## 7. Plan

The components that keep state are modelled, and their safety properties are proved. What
would add most next:

1. Composition of `StreamPump` and `AppBridge` over one bounded channel.
2. A `SurfacePane` whose templates nest, with paths that are sequences.
