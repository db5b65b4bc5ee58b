------------------------------ MODULE ChatTurn ------------------------------
(***************************************************************************)
(* What the application remembers about the conversation (internal/tui:    *)
(* app.go, view_chat.go, view_tasks.go) and about the agent's tasks        *)
(* (internal/agent/registry.go): the task a reply goes to, the last task,  *)
(* the states on screen, the tasks dashboard with its cursor and detail.   *)
(* The user may type, enter commands and press keys of the dashboard at    *)
(* any time: which pane has the keyboard is left to Keyboard.              *)
(*                                                                         *)
(* Three things run apart from the update loop and answer late: the        *)
(* session, which records an update in the registry and then publishes it  *)
(* or drops it; the task RPCs, whose answer is a message of its own; and   *)
(* the connection attempt.  Messages do not say which session they are of. *)
(*                                                                         *)
(* A session is its registry and its queue of published events; StreamPump *)
(* and AppBridge model how events get into and out of that queue.          *)
(***************************************************************************)
EXTENDS Integers, Sequences, SequencesExt, FiniteSets

CONSTANTS
    Ids,          \* the tasks there are
    Owner,        \* the session whose agent has the task: [Ids -> Sessions]
    NoTask,       \* the empty task ID
    MaxSessions,  \* bound: connections made
    MaxQueue,     \* capacity of a session's event channel
    MaxUpdates,   \* bound: task updates in one run of the program
    MaxCalls,     \* bound: task RPCs under way when another one starts
    HalfPage      \* rows that page up and page down move by

Sessions == 1..MaxSessions
None     == 0

ASSUME ChatAssumption ==
    /\ IsFiniteSet(Ids) /\ NoTask \notin Ids
    /\ MaxSessions \in Nat /\ MaxUpdates \in Nat
    /\ Owner \in [Ids -> Sessions]
    /\ MaxQueue \in Nat \ {0} /\ HalfPage \in Nat \ {0}

VARIABLES
    session, made,         \* App.session; sessions created so far
    connecting,            \* App.connecting
    conn,                  \* App.conn: whose card and URL /agent save would keep
    pending,               \* App.pending: the task the next message replies to
    lastTask,              \* App.lastTaskID
    shown,                 \* the state of a task's pill in the transcript
    asked,                 \* tasks that asked and have not been answered (history)
    list, cursor, detail,  \* TasksPane.tasks, .cursor (from 0), .detailID
    registry,              \* Registry.List() of each session, latest update first
    truth,                 \* the state the agent has a task in
    queue,                 \* Session.events
    dropped,               \* tasks with a dropped update that was not reported yet
    calls,                 \* task RPCs: asked of session at, answered with got
    unsure,                \* tasks that changed, or failed, without an update (history)
    late,                  \* a message of an earlier session was handled (history)
    updates                \* updates so far

connection == <<session, made, connecting, conn>>
chat       == <<pending, lastTask, shown, asked, unsure, late>>
dashboard  == <<list, cursor, detail>>
agentSide  == <<registry, truth, queue, dropped, updates>>
vars       == <<connection, chat, dashboard, agentSide, calls>>

States     == {"none", "working", "input", "done"}
Of(s)      == {id \in Ids : Owner[id] = s}
Update(id, state) == [kind |-> "update", id |-> id, state |-> state]
Compacted(id)     == [kind |-> "compacted", id |-> id, state |-> "none"]
Entries           == [kind : {"update", "compacted"}, id : Ids, state : States]
Ops        == {"get", "cancel", "list"}
Call(op, id)      == [op |-> op, id |-> id, at |-> session, got |-> "out"]

Init ==
    /\ session = None /\ made = 0
    /\ connecting = FALSE /\ conn = None
    /\ pending = NoTask /\ lastTask = NoTask
    /\ shown = [id \in Ids |-> "none"] /\ truth = [id \in Ids |-> "none"]
    /\ asked = {} /\ unsure = {} /\ late = FALSE
    /\ list = <<>> /\ cursor = 0 /\ detail = NoTask
    /\ registry = [s \in Sessions |-> <<>>]
    /\ queue = [s \in Sessions |-> <<>>]
    /\ dropped = {} /\ calls = {} /\ updates = 0

------------------------------------------------------------------------------
(* The registry.                                                           *)

\* The registry is a map by ID, so that a task is in the list once at most.
Without(tasks, id) ==
    IF id \in Range(tasks) THEN RemoveAt(tasks, CHOOSE i \in DOMAIN tasks : tasks[i] = id)
    ELSE tasks

\* Observe: the task is entered if it is new, and was updated last.
Observe(tasks, id) == <<id>> \o Without(tasks, id)

\* Observing what ListTasks returned, every task of the agent in some order.
ObserveAll(s) == SetToSeqs({id \in Of(s) : truth[id] # "none"})

------------------------------------------------------------------------------
(* The dashboard.                                                          *)

Clamped(tasks) == IF cursor < Len(tasks) THEN cursor
                  ELSE IF tasks = <<>> THEN 0 ELSE Len(tasks) - 1

\* (variant) The list is left alone behind an open detail view.
SyncListOnly ==
    IF session = None \/ detail # NoTask
    THEN UNCHANGED <<list, cursor>>
    ELSE list' = registry[session] /\ cursor' = Clamped(registry[session])

\* Sync, from the registry of the session in use.
Sync ==
    IF session = None
    THEN UNCHANGED <<list, cursor>>
    ELSE list' = registry[session] /\ cursor' = Clamped(registry[session])

Selected == IF cursor + 1 \in DOMAIN list THEN list[cursor + 1] ELSE NoTask

NewTasksPane == list' = <<>> /\ cursor' = 0 /\ detail' = NoTask

------------------------------------------------------------------------------
(* The session, in its goroutines.                                         *)

\* An update is recorded and then published; a full channel drops it.
Observed(id, state) ==
    /\ session # None /\ id \in Of(session)
    /\ updates < MaxUpdates
    /\ truth[id] # "done" /\ state # truth[id]
    /\ updates' = updates + 1
    /\ truth' = [truth EXCEPT ![id] = state]
    /\ registry' = [registry EXCEPT ![session] = Observe(@, id)]
    /\ IF Len(queue[session]) < MaxQueue
       THEN queue' = [queue EXCEPT ![session] = Append(@, Update(id, state))] /\ UNCHANGED dropped
       ELSE dropped' = dropped \cup {id} /\ UNCHANGED queue
    /\ UNCHANGED <<connection, chat, dashboard, calls>>

\* The report of dropped updates waits for room.
ReportDropped(id) ==
    /\ session # None /\ id \in dropped \cap Of(session)
    /\ Len(queue[session]) < MaxQueue
    /\ queue' = [queue EXCEPT ![session] = Append(@, Compacted(id))]
    /\ dropped' = dropped \ {id}
    /\ UNCHANGED <<connection, chat, dashboard, calls, registry, truth, updates>>

\* The agent answers a task RPC.  It knows no task of another agent, and cancels
\* no task that has finished.
Answer(c) ==
    /\ c \in calls /\ c.op # "list" /\ c.got = "out"
    /\ \E got \in {"error"} \cup (IF c.id \in Of(c.at) THEN States \ {"none"} ELSE {}) :
         /\ calls' = (calls \ {c}) \cup {[c EXCEPT !.got = got]}
         /\ \/ got = "error" /\ UNCHANGED <<truth, unsure>>
            \/ /\ c.op = "cancel" /\ got = "done" /\ truth[c.id] \notin {"none", "done"}
               /\ truth' = [truth EXCEPT ![c.id] = "done"]
               /\ unsure' = unsure \cup {c.id}
            \/ c.op # "cancel" /\ got = truth[c.id] /\ UNCHANGED <<truth, unsure>>
    /\ UNCHANGED <<connection, dashboard, registry, queue, dropped, updates,
                   pending, lastTask, shown, asked, late>>

\* The answer to ListTasks goes into the registry before the message is sent; an
\* agent of A2A 0.3 has no such method, and its error is swallowed.
AnswerList(c) ==
    /\ c \in calls /\ c.op = "list" /\ c.got = "out"
    /\ calls' = (calls \ {c}) \cup {[c EXCEPT !.got = "listed"]}
    /\ \/ \E order \in ObserveAll(c.at) : registry' = [registry EXCEPT ![c.at] = order]
       \/ UNCHANGED registry
    /\ UNCHANGED <<connection, chat, dashboard, truth, queue, dropped, updates>>

------------------------------------------------------------------------------
(* Messages to the update loop.                                            *)

\* With this state on screen, and with q and cs still to come, the task is shown as
\* it is.
Settles(id, state, q, cs) ==
    /\ state = truth[id] /\ id \notin dropped
    /\ \A i \in DOMAIN q : q[i].id # id
    /\ \A c \in cs : c.id # id

Late(s) == late' = (late \/ s # session)

\* The reply target after an update: the task that asks; nothing once it is over.
ReplyAfter(e) == CASE e.state = "input" -> e.id
                   [] e.state = "done" /\ pending = e.id -> NoTask
                   [] OTHER -> pending

\* handleAgentEvent for a task update, of whichever session.
TaskUpdated(s) ==
    /\ queue[s] # <<>> /\ Head(queue[s]).kind = "update"
    /\ LET e == Head(queue[s])
       IN /\ lastTask' = e.id
          /\ shown' = [shown EXCEPT ![e.id] = e.state]
          /\ pending' = ReplyAfter(e)
          /\ asked' = IF e.state = "input" THEN asked \cup {e.id}
                      ELSE IF e.state = "done" THEN asked \ {e.id} ELSE asked
          /\ unsure' = IF Settles(e.id, e.state, Tail(queue[s]), calls) THEN unsure \ {e.id} ELSE unsure
    /\ queue' = [queue EXCEPT ![s] = Tail(@)]
    /\ Late(s)
    /\ Sync /\ UNCHANGED detail
    /\ UNCHANGED <<connection, calls, registry, truth, dropped, updates>>

\* (variant) The report of a compaction is only a line in the transcript.
StreamCompactedUnfetched(s) ==
    /\ queue[s] # <<>> /\ Head(queue[s]).kind = "compacted"
    /\ queue' = [queue EXCEPT ![s] = Tail(@)]
    /\ Late(s)
    /\ Sync /\ UNCHANGED detail
    /\ UNCHANGED <<connection, registry, truth, dropped, updates,
                   calls, pending, lastTask, shown, asked, unsure>>

\* handleAgentEvent for a compaction: the task is fetched, over the session in
\* use, whichever session reported it.
StreamCompacted(s) ==
    /\ queue[s] # <<>> /\ Head(queue[s]).kind = "compacted"
    /\ Cardinality(calls) < MaxCalls
    /\ calls' = IF session = None THEN calls
                ELSE calls \cup {Call("get", Head(queue[s]).id)}
    /\ queue' = [queue EXCEPT ![s] = Tail(@)]
    /\ Late(s)
    /\ Sync /\ UNCHANGED detail
    /\ UNCHANGED <<connection, registry, truth, dropped, updates,
                   pending, lastTask, shown, asked, unsure>>

\* handleTaskResult.  A snapshot takes the place of the pill and opens the detail
\* view of the dashboard; it neither sets nor clears the reply target, and the
\* registry does not learn of it.
TaskResult(c) ==
    /\ c \in calls /\ c.op # "list" /\ c.got # "out"
    /\ calls' = calls \ {c}
    /\ Late(c.at)
    /\ IF c.got = "error"
       THEN /\ unsure' = unsure \cup {c.id}
            /\ UNCHANGED <<lastTask, shown, dashboard>>
       ELSE /\ lastTask' = c.id
            /\ shown' = [shown EXCEPT ![c.id] = c.got]
            /\ unsure' = IF c.got = truth[c.id]
                         THEN IF Settles(c.id, c.got, queue[Owner[c.id]], calls \ {c})
                              THEN unsure \ {c.id} ELSE unsure
                         ELSE unsure \cup {c.id}
            /\ detail' = c.id
            /\ Sync
    /\ UNCHANGED <<connection, agentSide, pending, asked>>

\* A tasksRefreshedMsg.
TasksRefreshed(c) ==
    /\ c \in calls /\ c.op = "list" /\ c.got # "out"
    /\ calls' = calls \ {c}
    /\ Sync /\ UNCHANGED detail
    /\ UNCHANGED <<connection, chat, agentSide>>

\* handleConnectResult with an error: the session in use, if any, stays.
ConnectFailed ==
    /\ connecting
    /\ connecting' = FALSE /\ conn' = None
    /\ UNCHANGED <<session, made, chat, dashboard, agentSide, calls>>

\* When a session is retired its listener may hold one event more.
Retired == [s \in Sessions |-> IF s = session /\ queue[s] # <<>> THEN <<Head(queue[s])>> ELSE queue[s]]

\* (variant) The reply target survives the connection.
ConnectedReplying ==
    /\ connecting /\ made < MaxSessions
    /\ connecting' = FALSE /\ conn' = made + 1
    /\ made' = made + 1 /\ session' = made + 1
    /\ lastTask' = NoTask
    /\ late' = FALSE
    /\ NewTasksPane
    /\ queue' = Retired
    /\ UNCHANGED <<pending, shown, asked, unsure, calls, registry, truth,
                   dropped, updates>>

\* handleConnectResult with a session: the old one is retired, and what was
\* remembered of its tasks is forgotten.
Connected ==
    /\ connecting /\ made < MaxSessions
    /\ connecting' = FALSE /\ conn' = made + 1
    /\ made' = made + 1 /\ session' = made + 1
    /\ lastTask' = NoTask /\ pending' = NoTask
    /\ late' = FALSE
    /\ NewTasksPane
    /\ queue' = Retired
    /\ UNCHANGED <<shown, asked, unsure, calls, registry, truth, dropped, updates>>

------------------------------------------------------------------------------
(* Keys and commands.                                                      *)

\* (variant) The reply target is kept for the next message too.
SendTextKeeping ==
    /\ session # None
    /\ asked' = asked \ {pending}
    /\ UNCHANGED <<connection, pending, lastTask, shown, unsure, late, dashboard, agentSide, calls>>

\* submit and sendText: a message goes out, as the reply to the pending task if
\* there is one; without a session it stays in the input box.
SendText ==
    /\ session # None
    /\ pending' = NoTask
    /\ asked' = asked \ {pending}
    /\ UNCHANGED <<connection, lastTask, shown, unsure, late, dashboard, agentSide, calls>>

\* /connect, refused while a connection is being made.
StartConnect ==
    /\ ~connecting
    /\ connecting' = TRUE
    /\ UNCHANGED <<session, made, conn, chat, dashboard, agentSide, calls>>

\* (variant) /disconnect forgets to clear the connection.
DisconnectKeeping ==
    /\ session' = None
    /\ pending' = NoTask /\ lastTask' = NoTask /\ late' = FALSE
    /\ NewTasksPane
    /\ queue' = Retired
    /\ UNCHANGED <<made, connecting, conn, shown, asked, unsure, calls, registry, truth, dropped, updates>>

\* /disconnect.  A connection being made is not called off.
Disconnect ==
    /\ session' = None /\ conn' = None
    /\ pending' = NoTask /\ lastTask' = NoTask /\ late' = FALSE
    /\ NewTasksPane
    /\ queue' = Retired
    /\ UNCHANGED <<made, connecting, shown, asked, unsure, calls, registry, truth, dropped, updates>>

\* /task, /history and /cancel, with a task the user knows or the last one.
TaskCommand(op, id) ==
    /\ session # None
    /\ id = lastTask \/ shown[id] # "none"
    /\ Cardinality(calls) < MaxCalls
    /\ calls' = calls \cup {Call(op, id)}
    /\ UNCHANGED <<connection, chat, dashboard, agentSide>>

\* openTasksPane: ctrl+k or /tasks.
OpenTasksPane ==
    /\ Sync
    /\ UNCHANGED <<connection, chat, detail, agentSide, calls>>

\* Esc in the detail view.
CloseDetail ==
    /\ detail # NoTask
    /\ detail' = NoTask
    /\ UNCHANGED <<connection, chat, list, cursor, agentSide, calls>>

InList == detail = NoTask

\* Moving the cursor: up and down by one, by a page, to either end.  Page down
\* in an empty list leaves it at -1.
MoveCursor ==
    /\ InList
    /\ cursor' \in {IF cursor > 0 THEN cursor - 1 ELSE cursor,
                    IF cursor < Len(list) - 1 THEN cursor + 1 ELSE cursor,
                    IF cursor < HalfPage THEN 0 ELSE cursor - HalfPage,
                    IF Len(list) - 1 < cursor + HalfPage THEN Len(list) - 1 ELSE cursor + HalfPage,
                    0,
                    IF list = <<>> THEN 0 ELSE Len(list) - 1}
    /\ UNCHANGED <<connection, chat, list, detail, agentSide, calls>>

\* Enter and c: fetch or cancel the selected task.
ActOnSelected(op) ==
    /\ InList /\ session # None /\ Selected # NoTask
    /\ Cardinality(calls) < MaxCalls
    /\ calls' = calls \cup {Call(op, Selected)}
    /\ UNCHANGED <<connection, chat, dashboard, agentSide>>

\* r: list the agent's tasks, and fetch the selected one.
RefreshTasks ==
    /\ InList /\ session # None
    /\ Cardinality(calls) < MaxCalls
    /\ calls' = calls \cup {Call("list", NoTask)}
                      \cup (IF Selected = NoTask THEN {} ELSE {Call("get", Selected)})
    /\ UNCHANGED <<connection, chat, dashboard, agentSide>>

------------------------------------------------------------------------------
SessionSteps == \E id \in Ids : \/ \E state \in States \ {"none"} : Observed(id, state)
                                \/ ReportDropped(id)
Answers   == \E c \in calls : Answer(c) \/ AnswerList(c)
Events    == \E s \in Sessions : TaskUpdated(s) \/ StreamCompacted(s)
Results   == \E c \in calls : TaskResult(c) \/ TasksRefreshed(c)
Connects  == StartConnect \/ ConnectFailed \/ Connected \/ Disconnect
Keys      == \/ SendText \/ OpenTasksPane \/ CloseDetail \/ MoveCursor \/ RefreshTasks
             \/ \E op \in {"get", "cancel"} : ActOnSelected(op) \/ \E id \in Ids : TaskCommand(op, id)

Next == SessionSteps \/ Answers \/ Events \/ Results \/ Connects \/ Keys

Spec == Init /\ [][Next]_vars

------------------------------------------------------------------------------
(* Properties.                                                             *)

TypeOK ==
    /\ session \in 0..MaxSessions /\ made \in 0..MaxSessions /\ conn \in 0..MaxSessions
    /\ connecting \in BOOLEAN
    /\ pending \in Ids \cup {NoTask} /\ lastTask \in Ids \cup {NoTask}
    /\ detail \in Ids \cup {NoTask}
    /\ shown \in [Ids -> States] /\ truth \in [Ids -> States]
    /\ asked \subseteq Ids /\ unsure \subseteq Ids /\ dropped \subseteq Ids
    /\ list \in Seq(Ids) /\ cursor \in Int
    /\ registry \in [Sessions -> Seq(Ids)]
    /\ queue \in [Sessions -> Seq(Entries)]
    /\ calls \subseteq [op : Ops, id : Ids \cup {NoTask}, at : Sessions,
                        got : States \cup {"out", "error", "listed"}]
    /\ late \in BOOLEAN /\ updates \in 0..MaxUpdates

\* Whatever answers late, what the next key or message acts on belongs to the
\* agent in use: the rows of the dashboard always, and the reply target, the last
\* task and the open detail unless a message of an earlier session has come in
\* since this one was connected.
OwnTask(id) == id = NoTask \/ (session # None /\ id \in Of(session))
OwnState ==
    /\ TypeOK
    /\ \A i \in DOMAIN list : OwnTask(list[i])
    /\ late \/ (OwnTask(pending) /\ OwnTask(lastTask) /\ OwnTask(detail))

\* The task the next message replies to has asked for input, and since then it
\* has neither been answered nor ended.
PendingIsOpen == pending # NoTask => pending \in asked

\* What the transcript shows of a task is what the agent has, or the difference is
\* on its way: queued, dropped and to be reported, or being fetched.
OnItsWay(id) ==
    \/ \E i \in DOMAIN queue[Owner[id]] : queue[Owner[id]][i].id = id
    \/ id \in dropped
    \/ \E c \in calls : c.id = id /\ c.at = Owner[id]
LagExplained ==
    session # None => \A id \in Of(session) : shown[id] = truth[id] \/ id \in unsure \/ OnItsWay(id)

\* The rows of the dashboard are the registry's, latest first, or an event or a
\* listing that will bring them up to date is on its way, whether or not the
\* dashboard or the detail view is open.
DashboardCurrent ==
    session # None =>
        \/ list = registry[session]
        \/ queue[session] # <<>>
        \/ \E c \in calls : c.op = "list" /\ c.got = "listed"

\* However attempts to connect fail and overlap with /disconnect, what /agent save
\* would keep is the agent of the session in use.
SavesAgentInUse == conn \in {None, session}
==============================================================================
