------------------------------ MODULE PushNotify ------------------------------
(***************************************************************************)
(* Push notifications of one session (internal/agent/session.go and        *)
(* internal/pushsrv).  /push on starts a local webhook server and enables  *)
(* registration; from then on every task an operation observes for the     *)
(* first time has the webhook registered with the agent by a goroutine of  *)
(* its own; /push off and Shutdown stop the server.  The agent posts       *)
(* events, which the server's request goroutines hand to deliverPush.      *)
(*                                                                         *)
(* Session.mu guards the push fields: an action is what happens between    *)
(* two unlocks.  A server is a number; its URL and its token are that same *)
(* number, and 0 is a nil server and the empty string.                     *)
(***************************************************************************)
EXTENDS Integers, FiniteSets

CONSTANTS
    Calls,       \* operations, each of which observes at most one task
    Tasks,
    TaskOf,      \* the task an operation observes
    Requests,    \* requests the agent posts to the webhook
    MaxServers   \* bound: servers started

ASSUME PushAssumption ==
    /\ IsFiniteSet(Calls)
    /\ TaskOf \in [Calls -> Tasks]
    /\ MaxServers \in Nat \ {0}

\* Those who stop the server: the update loop (/push off), and Shutdown.
Stoppers == {"loop", "shutdown"}

VARIABLES
    pushSrv, pushURL, pushToken, pushEnabled, pushRegistered, pushNoted,
    started,    \* number of servers started
    listening,  \* the servers that accept requests
    stage,      \* where the update loop and the goroutine of Shutdown are
    holding,    \* the server each of them has taken out of the session
    call,       \* goroutine of each operation
    registrar,  \* goroutine that registers the task this operation observed
    sent,       \* the config it sends
    request,    \* goroutine of each request
    servedBy,   \* the server the request reached
    wg, sessCtx,
    overdue     \* bounds that expired: "drain" (3 s), "grace" (5 s)

fields   == <<pushSrv, pushURL, pushToken, pushEnabled, pushRegistered, pushNoted>>
servers  == <<started, listening, stage, holding>>
posts    == <<request, servedBy>>
control  == <<wg, sessCtx, overdue>>
vars     == <<fields, servers, call, registrar, sent, posts, control>>

CallStages      == {"idle", "running", "registering", "working", "exited"}
RegistrarStages == {"none", "started", "calling", "rejected", "noting", "noted",
                    "accepted", "failed"}
Ended           == {"noted", "accepted", "failed"}
RequestStages   == {"none", "reading", "delivering", "done"}
LoopStages      == {"idle", "enabling", "stop", "close", "drain", "stopped", "gone"}
ShutdownStages  == {"open", "stop", "close", "drain", "stopped", "joining", "destroyed"}

NoConfig == [url |-> 0, token |-> 0]
InHand   == {r \in Requests : request[r] \in {"reading", "delivering"}}

Init ==
    /\ pushSrv = 0 /\ pushURL = 0 /\ pushToken = 0
    /\ pushEnabled = FALSE /\ pushRegistered = {} /\ pushNoted = FALSE
    /\ started = 0 /\ listening = {}
    /\ stage = [p \in Stoppers |-> IF p = "loop" THEN "idle" ELSE "open"]
    /\ holding = [p \in Stoppers |-> 0]
    /\ call = [c \in Calls |-> "idle"]
    /\ registrar = [c \in Calls |-> "none"]
    /\ sent = [c \in Calls |-> NoConfig]
    /\ request = [r \in Requests |-> "none"]
    /\ servedBy = [r \in Requests |-> 0]
    /\ wg = 0 /\ sessCtx = "live" /\ overdue = {}

Goes(p, from, to) == stage[p] = from /\ stage' = [stage EXCEPT ![p] = to]

------------------------------------------------------------------------------
(* The update loop.                                                        *)

\* /push on, first half: StartPush keeps a server that runs, or starts one.
StartPush ==
    /\ Goes("loop", "idle", "enabling")
    /\ \/ pushSrv # 0 /\ UNCHANGED <<pushSrv, pushURL, pushToken, started, listening>>
       \/ /\ pushSrv = 0
          /\ started < MaxServers
          /\ started' = started + 1
          /\ listening' = listening \cup {started'}
          /\ pushSrv' = started' /\ pushURL' = started' /\ pushToken' = started'
    /\ UNCHANGED <<pushEnabled, pushRegistered, pushNoted, holding, call,
                   registrar, sent, posts, control>>

\* /push on, second half: SetPushEnabled(true).
EnablePush ==
    /\ Goes("loop", "enabling", "idle")
    /\ pushEnabled' = TRUE
    /\ UNCHANGED <<pushSrv, pushURL, pushToken, pushRegistered, pushNoted, started,
                   listening, holding, call, registrar, sent, posts, control>>

\* /push off: SetPushEnabled(false), then StopPush.
DisableAndStop ==
    /\ Goes("loop", "idle", "stop")
    /\ pushEnabled' = FALSE
    /\ UNCHANGED <<pushSrv, pushURL, pushToken, pushRegistered, pushNoted, started,
                   listening, holding, call, registrar, sent, posts, control>>

\* Send, SendStreaming: the operation joins the wait group and starts.
StartCall(c) ==
    /\ stage["loop"] = "idle"
    /\ call[c] = "idle"
    /\ call' = [call EXCEPT ![c] = "running"]
    /\ wg' = wg + 1
    /\ UNCHANGED <<fields, servers, registrar, sent, posts, sessCtx, overdue>>

\* The session is dropped and Shutdown runs on a goroutine of its own.
Retire ==
    /\ stage["loop"] = "idle"
    /\ stage["shutdown"] = "open"
    /\ stage' = [stage EXCEPT !["loop"] = "gone", !["shutdown"] = "stop"]
    /\ UNCHANGED <<fields, started, listening, holding, call, registrar, sent,
                   posts, control>>

------------------------------------------------------------------------------
(* StopPush and the server's Shutdown, on the update loop (/push off) or    *)
(* on the goroutine of Session.Shutdown.                                    *)

\* StopPush up to the unlock.
StopPush(p) ==
    /\ Goes(p, "stop", IF pushSrv = 0 THEN "stopped" ELSE "close")
    /\ holding' = [holding EXCEPT ![p] = pushSrv]
    /\ pushSrv' = 0 /\ pushURL' = 0 /\ pushToken' = 0 /\ pushEnabled' = FALSE
    /\ UNCHANGED <<pushRegistered, pushNoted, started, listening, call,
                   registrar, sent, posts, control>>

\* http.Server.Shutdown closes the listener first.
CloseListener(p) ==
    /\ Goes(p, "close", "drain")
    /\ listening' = listening \ {holding[p]}
    /\ UNCHANGED <<fields, started, holding, call, registrar, sent, posts, control>>

\* It then waits until no request is being served, at most shutdownTimeout.
Drain(p) ==
    /\ Goes(p, "drain", "stopped")
    /\ overdue' = IF \E r \in InHand : servedBy[r] = holding[p]
                  THEN overdue \cup {"drain"} ELSE overdue
    /\ holding' = [holding EXCEPT ![p] = 0]
    /\ UNCHANGED <<fields, started, listening, call, registrar, sent, posts,
                   wg, sessCtx>>

PushOffReturns ==
    /\ Goes("loop", "stopped", "idle")
    /\ UNCHANGED <<fields, started, listening, holding, call, registrar, sent,
                   posts, control>>

------------------------------------------------------------------------------
(* The rest of Session.Shutdown.                                           *)

ShutdownSession ==
    /\ Goes("shutdown", "stopped", "joining")
    /\ sessCtx' = "canceled"
    /\ UNCHANGED <<fields, started, listening, holding, call, registrar, sent,
                   posts, wg, overdue>>

\* The wait group is empty, or shutdownGrace is over: Destroy.
ShutdownDestroys ==
    /\ Goes("shutdown", "joining", "destroyed")
    /\ overdue' = IF wg = 0 THEN overdue ELSE overdue \cup {"grace"}
    /\ UNCHANGED <<fields, started, listening, holding, call, registrar, sent,
                   posts, wg, sessCtx>>

------------------------------------------------------------------------------
(* An operation.                                                           *)

Due(c) == pushEnabled /\ pushSrv # 0 /\ TaskOf[c] \notin pushRegistered

\* taskObserved, up to the unlock.
TaskObserved(c) ==
    /\ call[c] = "running"
    /\ call' = [call EXCEPT ![c] = IF Due(c) THEN "registering" ELSE "working"]
    /\ pushRegistered' = IF Due(c) THEN pushRegistered \cup {TaskOf[c]}
                                   ELSE pushRegistered
    /\ UNCHANGED <<pushSrv, pushURL, pushToken, pushEnabled, pushNoted, servers,
                   registrar, sent, posts, control>>

\* (variant) The goroutine itself is left to join the wait group, and does not.
RegisterPushConfigUncounted(c) ==
    /\ call[c] = "registering"
    /\ call' = [call EXCEPT ![c] = "working"]
    /\ registrar' = [registrar EXCEPT ![c] = "started"]
    /\ UNCHANGED <<fields, servers, sent, posts, control>>

\* registerPushConfig: wg.Add(1), go.
RegisterPushConfig(c) ==
    /\ call[c] = "registering"
    /\ call' = [call EXCEPT ![c] = "working"]
    /\ registrar' = [registrar EXCEPT ![c] = "started"]
    /\ wg' = wg + 1
    /\ UNCHANGED <<fields, servers, sent, posts, sessCtx, overdue>>

\* The operation ends, for whatever reason and with or without a task.
EndCall(c) ==
    /\ call[c] \in {"running", "working"}
    /\ call' = [call EXCEPT ![c] = "exited"]
    /\ wg' = wg - 1
    /\ UNCHANGED <<fields, servers, registrar, sent, posts, sessCtx, overdue>>

------------------------------------------------------------------------------
(* The goroutine that registers the config.                                *)

\* It reads URL and token under the lock, whatever they are by now.
ReadWebhook(c) ==
    /\ registrar[c] = "started"
    /\ registrar' = [registrar EXCEPT ![c] = "calling"]
    /\ sent' = [sent EXCEPT ![c] = [url |-> pushURL, token |-> pushToken]]
    /\ UNCHANGED <<fields, servers, call, posts, control>>

\* CreateTaskPushConfig succeeds, or fails with an error that is reported.
\* Both publish without waiting and leave.
AgentAnswers(c) ==
    /\ registrar[c] = "calling"
    /\ \E s \in {"accepted", "failed"} : registrar' = [registrar EXCEPT ![c] = s]
    /\ wg' = wg - 1
    /\ UNCHANGED <<fields, servers, call, sent, posts, sessCtx, overdue>>

\* (variant) Only the session's end interrupts the call.
CallCanceled(c) ==
    /\ registrar[c] = "calling" /\ sessCtx = "canceled"
    /\ registrar' = [registrar EXCEPT ![c] = "failed"]
    /\ wg' = wg - 1
    /\ UNCHANGED <<fields, servers, call, sent, posts, sessCtx, overdue>>

\* The session's context is canceled, or pushRegisterTimeout is over: the
\* goroutine leaves without a word.
CallInterrupted(c) ==
    /\ registrar[c] = "calling"
    /\ registrar' = [registrar EXCEPT ![c] = "failed"]
    /\ wg' = wg - 1
    /\ UNCHANGED <<fields, servers, call, sent, posts, sessCtx, overdue>>

\* ErrPushNotificationNotSupported.
AgentRejects(c) ==
    /\ registrar[c] = "calling"
    /\ registrar' = [registrar EXCEPT ![c] = "rejected"]
    /\ UNCHANGED <<fields, servers, call, sent, posts, control>>

\* disablePush: only the first rejection goes on to publish the note.
DisablePush(c) ==
    /\ registrar[c] = "rejected"
    /\ registrar' = [registrar EXCEPT ![c] = IF pushNoted THEN "failed" ELSE "noting"]
    /\ wg' = IF pushNoted THEN wg - 1 ELSE wg
    /\ pushNoted' = TRUE
    /\ pushEnabled' = FALSE
    /\ UNCHANGED <<pushSrv, pushURL, pushToken, pushRegistered, servers, call,
                   sent, posts, sessCtx, overdue>>

\* publishWait of the note, which gives up after publishTimeout.
PublishNote(c) ==
    /\ registrar[c] = "noting"
    /\ registrar' = [registrar EXCEPT ![c] = "noted"]
    /\ wg' = wg - 1
    /\ UNCHANGED <<fields, servers, call, sent, posts, sessCtx, overdue>>

------------------------------------------------------------------------------
(* The agent's requests.                                                   *)

\* The agent posts to a webhook under a config it has accepted.  The webhook
\* of an earlier server may lead to a later one, through a tunnel; a request
\* with a token of another server is answered 401 and changes nothing.
Post(r, s, c) ==
    /\ request[r] = "none"
    /\ s \in listening
    /\ registrar[c] = "accepted"
    /\ sent[c].token = s
    /\ request' = [request EXCEPT ![r] = "reading"]
    /\ servedBy' = [servedBy EXCEPT ![r] = s]
    /\ UNCHANGED <<fields, servers, call, registrar, sent, control>>

\* The body has been read and decoded: deliverPush drops the event of a
\* session that is over.
CheckSession(r) ==
    /\ request[r] = "reading"
    /\ request' = [request EXCEPT ![r] = IF sessCtx = "live" THEN "delivering" ELSE "done"]
    /\ UNCHANGED <<fields, servers, call, registrar, sent, servedBy, control>>

\* Observe and publish, neither of which waits.
Deliver(r) ==
    /\ request[r] = "delivering"
    /\ request' = [request EXCEPT ![r] = "done"]
    /\ UNCHANGED <<fields, servers, call, registrar, sent, servedBy, control>>

------------------------------------------------------------------------------
UpdateLoop == \/ StartPush \/ EnablePush \/ DisableAndStop \/ PushOffReturns \/ Retire
              \/ \E c \in Calls : StartCall(c)
Stopping(p) == StopPush(p) \/ CloseListener(p) \/ Drain(p)
Shutdown    == Stopping("shutdown") \/ ShutdownSession \/ ShutdownDestroys
Operation(c) == TaskObserved(c) \/ RegisterPushConfig(c) \/ EndCall(c)
Registrar(c) == \/ ReadWebhook(c) \/ AgentAnswers(c) \/ CallInterrupted(c)
                \/ AgentRejects(c) \/ DisablePush(c) \/ PublishNote(c)
Webhook(r) == \/ CheckSession(r) \/ Deliver(r)
              \/ \E s \in listening, c \in Calls : Post(r, s, c)

Next == \/ UpdateLoop \/ Stopping("loop") \/ Shutdown
        \/ \E c \in Calls : Operation(c) \/ Registrar(c)
        \/ \E r \in Requests : Webhook(r)

Spec == Init /\ [][Next]_vars

\* Goroutines that can run do, and timers fire.  The agent owes nothing: no
\* fairness on its answers, its requests, or the end of an operation.
Fairness ==
    /\ WF_vars(Stopping("loop")) /\ WF_vars(PushOffReturns) /\ WF_vars(Shutdown)
    /\ \A c \in Calls : /\ WF_vars(RegisterPushConfig(c))
                        /\ WF_vars(ReadWebhook(c))
                        /\ WF_vars(CallInterrupted(c))
                        /\ WF_vars(DisablePush(c))
                        /\ WF_vars(PublishNote(c))

FairSpec == Spec /\ Fairness

------------------------------------------------------------------------------
(* Properties.                                                             *)

TypeOK ==
    /\ pushSrv \in 0..MaxServers /\ pushURL \in 0..MaxServers
    /\ pushToken \in 0..MaxServers /\ started \in 0..MaxServers
    /\ pushEnabled \in BOOLEAN /\ pushNoted \in BOOLEAN
    /\ pushRegistered \subseteq Tasks
    /\ listening \subseteq 1..MaxServers
    /\ stage \in [Stoppers -> LoopStages \cup ShutdownStages]
    /\ stage["loop"] \in LoopStages /\ stage["shutdown"] \in ShutdownStages
    /\ holding \in [Stoppers -> 0..MaxServers]
    /\ call \in [Calls -> CallStages]
    /\ registrar \in [Calls -> RegistrarStages]
    /\ sent \in [Calls -> [url : 0..MaxServers, token : 0..MaxServers]]
    /\ request \in [Requests -> RequestStages]
    /\ servedBy \in [Requests -> 0..MaxServers]
    /\ wg \in Nat
    /\ sessCtx \in {"live", "canceled"}
    /\ overdue \subseteq {"drain", "grace"}

Closing == {holding[p] : p \in {q \in Stoppers : stage[q] = "close"}}

\* A server that listens is the session's own, or someone is about to close it;
\* and registration is never on without a server to register.
NoOrphanServer ==
    /\ listening = ({pushSrv} \cup Closing) \ {0}
    /\ pushEnabled => pushSrv # 0

\* session.go:148 "pushRegistered ... task ID -> config registered": two operations that observe one
\* task at the same time do not both register it, whatever /push does meanwhile.
RegisteredOnce ==
    \A c, d \in Calls : /\ c # d
                        /\ call[c] = "registering" \/ registrar[c] # "none"
                        /\ call[d] = "registering" \/ registrar[d] # "none"
                        => TaskOf[c] # TaskOf[d]

\* A Shutdown none of whose bounds expired destroys the connection with nothing
\* of the session left: no operation, no registration, no request.  In particular
\* no wg.Add of a registration slips in after wg.Wait has seen zero.
QuietAfterShutdown ==
    stage["shutdown"] = "destroyed" /\ overdue = {} =>
        /\ \A c \in Calls : /\ call[c] \in {"idle", "exited"}
                            /\ registrar[c] \in Ended \cup {"none"}
        /\ InHand = {}

\* A task marked as registered does not stay in between: the goroutine that
\* registers it ends, with an agent that never answers and a view that never reads.
RegistrationSettles ==
    \A c \in Calls : call[c] = "registering" ~> registrar[c] \in Ended
==============================================================================
