------------------------------ MODULE PushProofs ------------------------------
(* Proofs about PushNotify, for any number of operations, tasks, requests    *)
(* and servers.                                                              *)
EXTENDS PushNotify, FiniteSetTheorems, TLAPS

\* The application makes no call on a session it has handed to Shutdown.
Turns == stage["loop"] # "gone" <=> stage["shutdown"] = "open"

PastStop(p) == stage[p] \in {"close", "drain", "stopped", "joining", "destroyed"}

\* Server, URL and token are set and cleared together; whoever has taken the
\* server out of the session leaves none behind.
ServerFields ==
    /\ pushURL = pushSrv /\ pushToken = pushSrv
    /\ \A p \in Stoppers : PastStop(p) => pushSrv = 0
    /\ \A p \in Stoppers : stage[p] = "close" => holding[p] # 0
    /\ stage["loop"] = "enabling" => pushSrv # 0
    /\ NoOrphanServer

\* An operation that registers its task, or has done so, has marked it.
Claims(c) == call[c] = "registering" \/ registrar[c] # "none"
Marked ==
    /\ \A c \in Calls : Claims(c) => TaskOf[c] \in pushRegistered
    /\ \A c \in Calls : call[c] \in {"idle", "running", "registering"} => registrar[c] = "none"
    /\ RegisteredOnce

\* The wait group counts operations and registrations.
Busy        == {c \in Calls : call[c] \in {"running", "registering", "working"}}
Registering == {c \in Calls : registrar[c] \in {"started", "calling", "rejected", "noting"}}
Counted     == wg = Cardinality(Busy) + Cardinality(Registering)

\* Requests in hand are at a server that listens or is being drained.
Draining == {holding[p] : p \in {q \in Stoppers : stage[q] = "drain"}}
Handled  == "drain" \in overdue \/ \A r \in InHand : servedBy[r] \in listening \cup Draining

Joined == stage["shutdown"] = "destroyed" /\ overdue = {} => Busy = {} /\ Registering = {}

Shape == TypeOK /\ Turns /\ ServerFields /\ Marked /\ Counted
Inv   == Shape /\ Handled /\ Joined

------------------------------------------------------------------------------
(* The next-state relation, sorted by what a step can disturb.              *)

\* Steps of the update loop and of Shutdown that move the servers.
ServerStep == \/ StartPush \/ EnablePush \/ DisableAndStop \/ PushOffReturns \/ Retire
              \/ ShutdownSession \/ ShutdownDestroys
              \/ \E p \in Stoppers : Stopping(p)

LEMMA StepKinds ==
    ASSUME Next
    PROVE  \/ ServerStep
           \/ \E c \in Calls : StartCall(c) \/ Operation(c) \/ Registrar(c)
           \/ \E r \in Requests : Webhook(r)
BY DEF Next, UpdateLoop, Shutdown, ServerStep, Stoppers

\* Outside ServerStep the servers and the two stages stand still.
LEMMA GoroutinesKeepServers ==
    ASSUME NEW c \in Calls, StartCall(c) \/ Operation(c) \/ Registrar(c)
    PROVE  UNCHANGED <<pushSrv, pushURL, pushToken, servers, posts, sessCtx, overdue>>
BY DEF StartCall, Operation, TaskObserved, RegisterPushConfig, EndCall, Registrar,
       ReadWebhook, AgentAnswers, CallInterrupted, AgentRejects, DisablePush,
       PublishNote, fields, servers, posts, control

LEMMA WebhookKeeps ==
    ASSUME NEW r \in Requests, Webhook(r)
    PROVE  UNCHANGED <<fields, servers, call, registrar, sent, control>>
BY DEF Webhook, CheckSession, Deliver, Post

LEMMA ServerStepKeeps ==
    ASSUME ServerStep
    PROVE  UNCHANGED <<pushRegistered, pushNoted, call, registrar, sent, posts, wg>>
BY DEF ServerStep, StartPush, EnablePush, DisableAndStop, PushOffReturns, Retire,
       ShutdownSession, ShutdownDestroys, Stopping, StopPush, CloseListener, Drain,
       fields, posts, control

------------------------------------------------------------------------------
(* The wait group.                                                          *)

LEMMA CountsFinite ==
    /\ IsFiniteSet(Busy) /\ Cardinality(Busy) \in Nat
    /\ IsFiniteSet(Registering) /\ Cardinality(Registering) \in Nat
<1>1. Busy \subseteq Calls /\ Registering \subseteq Calls
    BY DEF Busy, Registering
<1> QED
    BY <1>1, FS_Subset, FS_CardinalityType, PushAssumption

\* Nobody in a set of goroutines that counts zero.
LEMMA ZeroMeansNobody ==
    ASSUME Counted, wg = 0
    PROVE  Busy = {} /\ Registering = {}
BY CountsFinite, FS_EmptySet DEF Counted

\* An operation starts (SendRaw): wg.Add(1).
LEMMA StartCounted ==
    ASSUME TypeOK, Counted, NEW c \in Calls, StartCall(c)
    PROVE  Counted' /\ wg' \in Nat
<1> USE DEF StartCall
<1>1. c \notin Busy /\ Busy' = Busy \cup {c} /\ Registering' = Registering
    BY DEF TypeOK, Busy, Registering
<1>2. Cardinality(Busy') = Cardinality(Busy) + 1
    BY <1>1, CountsFinite, FS_AddElement
<1> QED
    BY <1>1, <1>2, CountsFinite DEF Counted

\* An operation observes a task, registers it, or ends.
LEMMA OperationCounted ==
    ASSUME TypeOK, Counted, Marked, NEW c \in Calls, Operation(c)
    PROVE  Counted' /\ wg' \in Nat
<1>1. CASE TaskObserved(c)
    <2>1. Busy' = Busy /\ Registering' = Registering /\ wg' = wg
        BY <1>1 DEF TaskObserved, TypeOK, Busy, Registering, control
    <2> QED
        BY <2>1 DEF Counted, TypeOK
<1>2. CASE RegisterPushConfig(c)
    <2>1. /\ Busy' = Busy /\ wg' = wg + 1
          /\ c \notin Registering /\ Registering' = Registering \cup {c}
        BY <1>2 DEF RegisterPushConfig, TypeOK, Marked, Busy, Registering
    <2>2. Cardinality(Registering') = Cardinality(Registering) + 1
        BY <2>1, CountsFinite, FS_AddElement
    <2> QED
        BY <2>1, <2>2, CountsFinite DEF Counted
<1>3. CASE EndCall(c)
    <2>1. /\ c \in Busy /\ Busy' = Busy \ {c} /\ wg' = wg - 1
          /\ Registering' = Registering
        BY <1>3 DEF EndCall, TypeOK, Busy, Registering
    <2>2. Cardinality(Busy') = Cardinality(Busy) - 1
        BY <2>1, CountsFinite, FS_RemoveElement
    <2>3. Cardinality(Busy) # 0
        BY <2>1, CountsFinite, FS_EmptySet
    <2> QED
        BY <2>1, <2>2, <2>3, CountsFinite DEF Counted
<1> QED
    BY <1>1, <1>2, <1>3 DEF Operation

\* A registration moves on, or ends with wg.Done.
LEMMA RegistrarCounted ==
    ASSUME TypeOK, Counted, NEW c \in Calls, Registrar(c)
    PROVE  Counted' /\ wg' \in Nat
<1>1. Busy' = Busy
    BY DEF Registrar, ReadWebhook, AgentAnswers, CallInterrupted, AgentRejects,
           DisablePush, PublishNote, Busy
<1>2. \/ wg' = wg /\ Registering' = Registering
      \/ wg' = wg - 1 /\ c \in Registering /\ Registering' = Registering \ {c}
    <2>1. CASE ReadWebhook(c) \/ AgentRejects(c)
        BY <2>1 DEF ReadWebhook, AgentRejects, TypeOK, Registering, control
    <2>2. CASE AgentAnswers(c) \/ CallInterrupted(c) \/ PublishNote(c)
        BY <2>2 DEF AgentAnswers, CallInterrupted, PublishNote, TypeOK, Registering
    <2>3. CASE DisablePush(c)
        BY <2>3 DEF DisablePush, TypeOK, Registering
    <2> QED
        BY <2>1, <2>2, <2>3 DEF Registrar
<1>3. CASE wg' = wg /\ Registering' = Registering
    BY <1>1, <1>3 DEF Counted, TypeOK
<1>4. CASE wg' = wg - 1 /\ c \in Registering /\ Registering' = Registering \ {c}
    <2>1. Cardinality(Registering') = Cardinality(Registering) - 1
        BY <1>4, CountsFinite, FS_RemoveElement
    <2>2. Cardinality(Registering) # 0
        BY <1>4, CountsFinite, FS_EmptySet
    <2> QED
        BY <1>1, <1>4, <2>1, <2>2, CountsFinite DEF Counted
<1> QED
    BY <1>2, <1>3, <1>4

------------------------------------------------------------------------------
(* Shape is preserved, kind of step by kind of step.                        *)

LEMMA ServerStepShape ==
    ASSUME Shape, ServerStep
    PROVE  TypeOK' /\ Turns' /\ ServerFields'
<1> USE DEF Shape, Goes
<1>b. MaxServers \in Nat \ {0}
    BY PushAssumption
<1>s. Stoppers = {"loop", "shutdown"}
    BY DEF Stoppers
<1>1. CASE StartPush
    <2> USE <1>1 DEF StartPush
    <2>1. TypeOK'
        <3>1. /\ stage' \in [Stoppers -> LoopStages \cup ShutdownStages]
              /\ stage'["loop"] \in LoopStages /\ stage'["shutdown"] \in ShutdownStages
            BY <1>s DEF TypeOK, LoopStages, ShutdownStages
        <3>2. /\ pushSrv' \in 0..MaxServers /\ pushURL' \in 0..MaxServers
              /\ pushToken' \in 0..MaxServers /\ started' \in 0..MaxServers
            BY <1>b DEF TypeOK
        <3>3. listening' \subseteq 1..MaxServers
            <4>1. CASE listening' = listening
                BY <4>1 DEF TypeOK
            <4>2. CASE listening' = listening \cup {started'}
                <5>1. started' \in 1..MaxServers
                    BY <1>b, <3>2, <4>2 DEF TypeOK
                <5> QED
                    BY <4>2, <5>1 DEF TypeOK
            <4> QED
                BY <4>1, <4>2
        <3>4. UNCHANGED <<pushEnabled, pushRegistered, pushNoted, holding, call, registrar,
                          sent, request, servedBy, wg, sessCtx, overdue>>
            BY DEF posts, control
        <3> HIDE <1>1 DEF StartPush
        <3> QED
            BY <3>1, <3>2, <3>3, <3>4 DEF TypeOK
    <2>2. Turns' /\ stage["shutdown"] = "open"
        BY <1>s DEF TypeOK, Turns
    <2>3. Closing = {} /\ Closing' = {}
        BY <1>s, <2>2 DEF TypeOK, Closing
    <2>4. CASE pushSrv # 0
        <3>1. NoOrphanServer'
            BY <2>3, <2>4 DEF ServerFields, NoOrphanServer
        <3>2. /\ pushSrv' # 0 /\ pushURL' = pushSrv' /\ pushToken' = pushSrv'
              /\ ~PastStop("loop")' /\ ~PastStop("shutdown")'
            BY <1>s, <2>2, <2>4 DEF TypeOK, ServerFields, PastStop
        <3> HIDE <1>1 DEF StartPush
        <3> QED
            BY <1>s, <2>1, <2>2, <3>1, <3>2 DEF ServerFields, PastStop
    <2>5. CASE pushSrv = 0
        <3>1. pushSrv' # 0 /\ pushURL' = pushSrv' /\ pushToken' = pushSrv'
            BY <1>b, <2>5 DEF TypeOK
        <3>2. listening' = {pushSrv'}
            BY <2>3, <2>5 DEF ServerFields, NoOrphanServer
        <3>3. NoOrphanServer'
            BY <2>3, <3>1, <3>2 DEF NoOrphanServer
        <3> QED
            <4>1. ~PastStop("loop")' /\ ~PastStop("shutdown")'
                BY <1>s, <2>2 DEF TypeOK, PastStop
            <4> HIDE <1>1 DEF StartPush
            <4> QED
                BY <1>s, <2>1, <2>2, <3>1, <3>3, <4>1 DEF ServerFields, PastStop
    <2> QED
        BY <2>1, <2>2, <2>4, <2>5
<1>2. CASE EnablePush \/ DisableAndStop \/ PushOffReturns \/ Retire \/ ShutdownSession \/ ShutdownDestroys
    <2> USE <1>2 DEF EnablePush, DisableAndStop, PushOffReturns, Retire,
                     ShutdownSession, ShutdownDestroys
    <2>1. TypeOK'
        <3>1. /\ stage' \in [Stoppers -> LoopStages \cup ShutdownStages]
              /\ stage'["loop"] \in LoopStages /\ stage'["shutdown"] \in ShutdownStages
            BY <1>s DEF TypeOK, LoopStages, ShutdownStages
        <3>2. /\ UNCHANGED <<pushSrv, pushURL, pushToken, pushRegistered, pushNoted, started,
                             listening, holding, call, registrar, sent, posts, wg>>
              /\ pushEnabled' \in BOOLEAN /\ sessCtx' \in {"live", "canceled"}
              /\ overdue' \subseteq {"drain", "grace"}
            BY DEF TypeOK, fields, control
        <3> QED
            BY <3>1, <3>2 DEF TypeOK, posts
    <2>2. Turns'
        BY <1>s DEF TypeOK, Turns
    <2>3. Closing' = Closing /\ UNCHANGED <<pushSrv, pushURL, pushToken, listening, holding>>
        BY <1>s DEF TypeOK, Closing, fields
    <2>4. pushEnabled' => pushSrv # 0
        BY DEF ServerFields, NoOrphanServer, fields
    <2>5. \A p \in Stoppers : /\ PastStop(p)' => pushSrv = 0
                              /\ stage'[p] = "close" => holding[p] # 0
        BY <1>s DEF TypeOK, ServerFields, PastStop
    <2>6. stage'["loop"] # "enabling"
        BY <1>s DEF TypeOK, Turns
    <2> QED
        <3>1. NoOrphanServer'
            BY <2>3, <2>4 DEF ServerFields, NoOrphanServer
        <3> HIDE <1>2 DEF EnablePush, DisableAndStop, PushOffReturns, Retire,
                          ShutdownSession, ShutdownDestroys
        <3>2. pushURL' = pushSrv' /\ pushToken' = pushSrv'
            BY <2>3 DEF ServerFields
        <3>3. \A p \in Stoppers : /\ PastStop(p)' => pushSrv' = 0
                                  /\ stage'[p] = "close" => holding'[p] # 0
            BY <2>3, <2>5 DEF PastStop
        <3>4. ServerFields'
            <4>1. \A p \in Stoppers : PastStop(p)' => pushSrv' = 0
                BY <3>3
            <4>2. \A p \in Stoppers : stage'[p] = "close" => holding'[p] # 0
                BY <3>3
            <4>3. stage'["loop"] = "enabling" => pushSrv' # 0
                BY <2>6
            <4> QED
                BY <3>1, <3>2, <4>1, <4>2, <4>3 DEF ServerFields
        <3> QED
            BY <2>1, <2>2, <3>4
<1>3. ASSUME NEW p \in Stoppers, Stopping(p)
      PROVE  TypeOK' /\ Turns' /\ ServerFields'
    <2> DEFINE q == IF p = "loop" THEN "shutdown" ELSE "loop"
    <2>1. TypeOK'
        <3>1. /\ stage' \in [Stoppers -> LoopStages \cup ShutdownStages]
              /\ stage'["loop"] \in LoopStages /\ stage'["shutdown"] \in ShutdownStages
            <4>1. \E to \in {"close", "drain", "stopped"} : stage' = [stage EXCEPT ![p] = to]
                BY <1>3 DEF Stopping, StopPush, CloseListener, Drain
            <4> QED
                BY <1>3, <1>s, <4>1 DEF TypeOK, LoopStages, ShutdownStages
        <3>2. /\ pushSrv' \in 0..MaxServers /\ pushURL' \in 0..MaxServers
              /\ pushToken' \in 0..MaxServers /\ pushEnabled' \in BOOLEAN
              /\ UNCHANGED <<pushRegistered, pushNoted, started>>
            <4>1. CASE StopPush(p)
                <5>1. pushSrv' = 0 /\ pushURL' = 0 /\ pushToken' = 0 /\ pushEnabled' = FALSE
                    BY <4>1 DEF StopPush
                <5>2. UNCHANGED <<pushRegistered, pushNoted, started>>
                    BY <4>1 DEF StopPush
                <5>3. 0 \in 0..MaxServers
                    BY <1>b
                <5> QED
                    BY <5>1, <5>2, <5>3
            <4>2. CASE CloseListener(p) \/ Drain(p)
                <5>1. UNCHANGED fields /\ started' = started
                    BY <4>2 DEF CloseListener, Drain
                <5> QED
                    BY <5>1 DEF TypeOK, fields
            <4> QED
                BY <1>3, <4>1, <4>2 DEF Stopping
        <3>3. /\ listening' \subseteq 1..MaxServers
              /\ holding' \in [Stoppers -> 0..MaxServers]
              /\ overdue' \subseteq {"drain", "grace"}
            <4>1. CASE StopPush(p)
                BY <1>3, <4>1 DEF StopPush, TypeOK, control
            <4>2. CASE CloseListener(p)
                BY <4>2 DEF CloseListener, TypeOK, control
            <4>3. CASE Drain(p)
                BY <1>3, <1>b, <4>3 DEF Drain, TypeOK
            <4> QED
                BY <1>3, <4>1, <4>2, <4>3 DEF Stopping
        <3>4. UNCHANGED <<call, registrar, sent, posts, wg, sessCtx>>
            BY <1>3 DEF Stopping, StopPush, CloseListener, Drain, control
        <3> QED
            BY <3>1, <3>2, <3>3, <3>4 DEF TypeOK, posts
    <2>2. Turns' /\ stage'[q] = stage[q]
        BY <1>3, <1>s DEF Stopping, StopPush, CloseListener, Drain, TypeOK, Turns
    <2>3. stage[q] \in {"open", "gone"} /\ Stoppers = {p, q}
        BY <1>3, <1>s DEF Stopping, StopPush, CloseListener, Drain, TypeOK, Turns
    <2>4. stage["loop"] # "enabling" /\ stage'["loop"] # "enabling"
        BY <1>3, <1>s, <2>2, <2>3 DEF Stopping, StopPush, CloseListener, Drain, TypeOK
    <2>5. CASE StopPush(p)
        <3>1. Closing = {}
            BY <1>3, <2>3, <2>5 DEF StopPush, Closing
        <3>2. Closing' = {pushSrv} \ {0}
            BY <1>3, <2>2, <2>3, <2>5 DEF StopPush, TypeOK, Closing
        <3>3. NoOrphanServer'
            BY <2>5, <3>1, <3>2 DEF StopPush, ServerFields, NoOrphanServer
        <3> QED
            BY <1>3, <2>1, <2>2, <2>3, <2>4, <2>5, <3>3
               DEF StopPush, TypeOK, ServerFields, PastStop
    <2>6. CASE CloseListener(p)
        <3>1. Closing = {holding[p]} /\ Closing' = {}
            BY <1>3, <2>2, <2>3, <2>6 DEF CloseListener, TypeOK, Closing
        <3>2. pushSrv = 0 /\ UNCHANGED fields
            BY <1>3, <2>6 DEF CloseListener, ServerFields, PastStop
        <3>3. NoOrphanServer'
            BY <2>6, <3>1, <3>2 DEF CloseListener, ServerFields, NoOrphanServer, fields
        <3> QED
            BY <1>3, <2>1, <2>2, <2>3, <2>4, <2>6, <3>2, <3>3
               DEF CloseListener, TypeOK, ServerFields, PastStop, fields
    <2>7. CASE Drain(p)
        <3>1. Closing = {} /\ Closing' = {}
            BY <1>3, <2>2, <2>3, <2>7 DEF Drain, TypeOK, Closing
        <3>2. pushSrv = 0 /\ UNCHANGED fields
            BY <1>3, <2>7 DEF Drain, ServerFields, PastStop
        <3>3. NoOrphanServer'
            BY <2>7, <3>1, <3>2 DEF Drain, ServerFields, NoOrphanServer, fields
        <3> QED
            BY <1>3, <2>1, <2>2, <2>3, <2>4, <2>7, <3>2, <3>3
               DEF Drain, TypeOK, ServerFields, PastStop, fields
    <2> QED
        BY <1>3, <2>5, <2>6, <2>7 DEF Stopping
<1> QED
    BY <1>1, <1>2, <1>3 DEF ServerStep

LEMMA GoroutineShape ==
    ASSUME Shape, NEW c \in Calls, StartCall(c) \/ Operation(c) \/ Registrar(c)
    PROVE  Shape'
<1> USE DEF Shape
<1>1. Counted' /\ wg' \in Nat
    BY StartCounted, OperationCounted, RegistrarCounted
<1>2. UNCHANGED <<pushSrv, pushURL, pushToken, servers, posts, sessCtx, overdue>>
    BY GoroutinesKeepServers
<1>3. /\ call' \in [Calls -> CallStages] /\ registrar' \in [Calls -> RegistrarStages]
      /\ sent' \in [Calls -> [url : 0..MaxServers, token : 0..MaxServers]]
    BY SMTT(30) DEF TypeOK, CallStages, RegistrarStages, StartCall, Operation, TaskObserved,
           RegisterPushConfig, EndCall, Registrar, ReadWebhook, AgentAnswers,
           CallInterrupted, AgentRejects, DisablePush, PublishNote
<1>4. /\ pushEnabled' \in BOOLEAN /\ pushNoted' \in BOOLEAN
      /\ pushRegistered' \subseteq Tasks /\ pushRegistered \subseteq pushRegistered'
      /\ pushEnabled' => pushEnabled
    <2>1. CASE TaskObserved(c)
        BY ZenonT(40), <2>1, PushAssumption DEF TaskObserved, TypeOK
    <2>2. CASE DisablePush(c)
        BY <2>2 DEF DisablePush, TypeOK
    <2>3. CASE ~TaskObserved(c) /\ ~DisablePush(c)
        <3>1. UNCHANGED fields
            BY <2>3 DEF StartCall, Operation, RegisterPushConfig, EndCall, Registrar,
                        ReadWebhook, AgentAnswers, CallInterrupted, AgentRejects,
                        PublishNote
        <3> QED
            BY <3>1 DEF TypeOK, fields
    <2> QED
        BY <2>1, <2>2, <2>3
<1>5. TypeOK'
    BY <1>1, <1>2, <1>3, <1>4 DEF TypeOK, servers, posts
<1>6. Turns' /\ ServerFields'
    BY <1>2, <1>4 DEF Turns, ServerFields, PastStop, NoOrphanServer, Closing, servers
<1>7. Marked'
    <2>1. \A d \in Calls \ {c} : Claims(d)' <=> Claims(d)
        BY DEF TypeOK, Claims, StartCall, Operation, TaskObserved, RegisterPushConfig,
               EndCall, Registrar, ReadWebhook, AgentAnswers, CallInterrupted,
               AgentRejects, DisablePush, PublishNote
    <2>2. /\ Claims(c)' => Claims(c) \/ (TaskOf[c] \notin pushRegistered /\ TaskOf[c] \in pushRegistered')
          /\ call'[c] \in {"idle", "running", "registering"} => registrar'[c] = "none"
        BY PushAssumption
           DEF TypeOK, Marked, Claims, Due, StartCall, Operation, TaskObserved,
               RegisterPushConfig, EndCall, Registrar, ReadWebhook, AgentAnswers,
               CallInterrupted, AgentRejects, DisablePush, PublishNote
    <2>3. \A d \in Calls \ {c} : call'[d] = call[d] /\ registrar'[d] = registrar[d]
        BY DEF TypeOK, StartCall, Operation, TaskObserved, RegisterPushConfig,
               EndCall, Registrar, ReadWebhook, AgentAnswers, CallInterrupted,
               AgentRejects, DisablePush, PublishNote
    <2>4. \A d \in Calls : Claims(d)' => TaskOf[d] \in pushRegistered'
        BY <1>4, <2>1, <2>2 DEF Marked
    <2>5. \A d \in Calls \ {c} : Claims(d)' /\ Claims(c)' => TaskOf[d] # TaskOf[c]
        BY <2>1, <2>2 DEF Marked, RegisteredOnce, Claims
    <2>6. RegisteredOnce'
        BY <2>1, <2>5 DEF Marked, RegisteredOnce, Claims
    <2> QED
        BY <2>2, <2>3, <2>4, <2>6 DEF Marked
<1> QED
    BY <1>1, <1>5, <1>6, <1>7

LEMMA ShapeStep == Shape /\ [Next]_vars => Shape'
<1> SUFFICES ASSUME Shape, [Next]_vars PROVE Shape'
    OBVIOUS
<1>1. CASE ServerStep
    <2>1. TypeOK' /\ Turns' /\ ServerFields'
        BY <1>1, ServerStepShape
    <2>2. UNCHANGED <<pushRegistered, pushNoted, call, registrar, sent, posts, wg>>
        BY <1>1, ServerStepKeeps
    <2> QED
        BY <2>1, <2>2 DEF Shape, Marked, Claims, RegisteredOnce, Counted, Busy, Registering
<1>2. CASE \E c \in Calls : StartCall(c) \/ Operation(c) \/ Registrar(c)
    BY <1>2, GoroutineShape
<1>3. ASSUME NEW r \in Requests, Webhook(r) PROVE Shape'
    <2>1. UNCHANGED <<fields, servers, call, registrar, sent, control>>
        BY <1>3, WebhookKeeps
    <2>2. request' \in [Requests -> RequestStages] /\ servedBy' \in [Requests -> 0..MaxServers]
        BY <1>3 DEF Shape, TypeOK, Webhook, CheckSession, Deliver, Post, RequestStages
    <2>3. TypeOK'
        BY <2>1, <2>2 DEF Shape, TypeOK, fields, servers, control
    <2> QED
        BY <2>1, <2>3 DEF Shape, Turns, ServerFields, PastStop, NoOrphanServer, Closing,
                          Marked, Claims, RegisteredOnce, Counted, Busy, Registering,
                          fields, servers, control
<1>4. CASE UNCHANGED vars
    BY <1>4 DEF Shape, TypeOK, Turns, ServerFields, PastStop, NoOrphanServer, Closing,
                Marked, Claims, RegisteredOnce, Counted, Busy, Registering,
                vars, fields, servers, posts, control
<1> QED
    BY <1>1, <1>2, <1>3, <1>4, StepKinds

LEMMA InitShape == Init => Inv
<1> SUFFICES ASSUME Init PROVE Inv
    OBVIOUS
<1> USE DEF Init
<1>s. Stoppers = {"loop", "shutdown"} /\ MaxServers \in Nat \ {0}
    BY PushAssumption DEF Stoppers
<1>1. TypeOK
    <2>1. /\ stage \in [Stoppers -> LoopStages \cup ShutdownStages]
          /\ stage["loop"] \in LoopStages /\ stage["shutdown"] \in ShutdownStages
        BY <1>s DEF LoopStages, ShutdownStages
    <2>2. /\ call \in [Calls -> CallStages] /\ registrar \in [Calls -> RegistrarStages]
          /\ request \in [Requests -> RequestStages]
        BY DEF CallStages, RegistrarStages, RequestStages
    <2>3. sent \in [Calls -> [url : 0..MaxServers, token : 0..MaxServers]]
        BY <1>s DEF NoConfig
    <2>4. /\ pushSrv \in 0..MaxServers /\ pushURL \in 0..MaxServers
          /\ pushToken \in 0..MaxServers /\ started \in 0..MaxServers
          /\ holding \in [Stoppers -> 0..MaxServers]
          /\ servedBy \in [Requests -> 0..MaxServers]
        BY <1>s
    <2> QED
        BY <2>1, <2>2, <2>3, <2>4 DEF TypeOK
<1>2. Turns /\ ServerFields
    BY <1>s DEF Turns, ServerFields, PastStop, NoOrphanServer, Closing
<1>3. Marked
    BY DEF Marked, Claims, RegisteredOnce
<1>4. Busy = {} /\ Registering = {}
    BY DEF Busy, Registering
<1>5. Counted
    BY <1>4, FS_EmptySet DEF Counted
<1>6. Handled /\ Joined
    BY <1>s DEF Handled, Joined, InHand
<1> QED
    BY <1>1, <1>2, <1>3, <1>5, <1>6 DEF Inv, Shape

------------------------------------------------------------------------------
(* Requests and the end of Shutdown.                                        *)

\* Stopping a server moves it from listening to draining to nothing; a request
\* left behind makes the drain overdue (http.Server.Shutdown).
LEMMA StoppingHandled ==
    ASSUME Shape, Handled, NEW p \in Stoppers, Stopping(p)
    PROVE  Handled'
<1> USE DEF Shape, Goes
<1>s. Stoppers = {"loop", "shutdown"}
    BY DEF Stoppers
<1>1. InHand' = InHand /\ servedBy' = servedBy
    BY DEF Stopping, StopPush, CloseListener, Drain, InHand, posts
<1>2. CASE StopPush(p)
    <2>1. Draining \subseteq Draining' /\ listening' = listening /\ overdue' = overdue
        BY <1>2, <1>s DEF StopPush, TypeOK, Draining, control
    <2> QED
        BY <1>1, <2>1 DEF Handled
<1>3. CASE CloseListener(p)
    <2>1. /\ Draining \cup {holding[p]} \subseteq Draining'
          /\ listening' = listening \ {holding[p]} /\ overdue' = overdue
        BY <1>3, <1>s DEF CloseListener, TypeOK, Draining, control
    <2> QED
        BY <1>1, <2>1 DEF Handled
<1>4. CASE Drain(p)
    <2>1. Draining \subseteq Draining' \cup {holding[p]} /\ listening' = listening
        BY <1>4, <1>s DEF Drain, TypeOK, Draining
    <2> QED
        BY <1>1, <1>4, <2>1 DEF Drain, Handled
<1> QED
    BY <1>2, <1>3, <1>4 DEF Stopping

LEMMA HandledStep == Shape /\ Handled /\ [Next]_vars => Handled'
<1> SUFFICES ASSUME Shape, Handled, [Next]_vars PROVE Handled'
    OBVIOUS
<1>1. ASSUME NEW p \in Stoppers, Stopping(p) PROVE Handled'
    BY <1>1, StoppingHandled
<1>2. CASE ServerStep /\ ~\E p \in Stoppers : Stopping(p)
    <2>1. InHand' = InHand /\ servedBy' = servedBy
        BY <1>2, ServerStepKeeps DEF InHand, posts
    <2>2. Draining' = Draining /\ listening \subseteq listening' /\ overdue \subseteq overdue'
        BY <1>2 DEF Shape, TypeOK, Goes, Stoppers, Draining, control, ServerStep, StartPush,
                    EnablePush, DisableAndStop, PushOffReturns, Retire, ShutdownSession,
                    ShutdownDestroys
    <2> QED
        BY <2>1, <2>2 DEF Handled
<1>3. CASE \E c \in Calls : StartCall(c) \/ Operation(c) \/ Registrar(c)
    BY <1>3, GoroutinesKeepServers DEF Handled, InHand, Draining, servers, posts
<1>4. ASSUME NEW r \in Requests, Webhook(r) PROVE Handled'
    <2>1. Draining' = Draining /\ listening' = listening /\ overdue' = overdue
        BY <1>4, WebhookKeeps DEF Draining, servers, control
    <2>2. \A x \in InHand' : \/ x \in InHand /\ servedBy'[x] = servedBy[x]
                             \/ servedBy'[x] \in listening
        BY <1>4 DEF Shape, TypeOK, Webhook, CheckSession, Deliver, Post, InHand
    <2> QED
        BY <2>1, <2>2 DEF Handled
<1>5. CASE UNCHANGED vars
    BY <1>5 DEF Handled, InHand, Draining, vars, servers, posts, control
<1> QED
    BY <1>1, <1>2, <1>3, <1>4, <1>5, StepKinds

\* A join at zero finds nobody, and nobody comes after it (session.go:492).
LEMMA JoinedStep == Shape /\ Joined /\ [Next]_vars => Joined'
<1> SUFFICES ASSUME Shape, Joined, [Next]_vars, stage'["shutdown"] = "destroyed", overdue' = {}
             PROVE  Busy' = {} /\ Registering' = {}
    BY DEF Joined
<1>1. CASE ServerStep
    <2>1. Busy' = Busy /\ Registering' = Registering
        BY <1>1, ServerStepKeeps DEF Busy, Registering
    <2>2. CASE ShutdownDestroys
        BY <2>1, <2>2, ZeroMeansNobody DEF Shape, ShutdownDestroys
    <2>3. CASE ~ShutdownDestroys
        <3>1. stage["shutdown"] = "destroyed" /\ overdue = {}
            BY <1>1, <2>3 DEF Shape, TypeOK, Goes, Stoppers, control, ServerStep, StartPush,
                  EnablePush, DisableAndStop, PushOffReturns, Retire, ShutdownSession,
                  Stopping, StopPush, CloseListener, Drain
        <3> QED
            BY <2>1, <3>1 DEF Joined
    <2> QED
        BY <2>2, <2>3
<1>2. ASSUME NEW c \in Calls, StartCall(c) \/ Operation(c) \/ Registrar(c) PROVE FALSE
    <2>1. stage["shutdown"] = "destroyed" /\ overdue = {}
        BY <1>2, GoroutinesKeepServers DEF servers
    <2>2. stage["loop"] = "gone" /\ c \notin Busy /\ c \notin Registering
        BY <2>1 DEF Shape, Turns, Joined
    <2> QED
        BY <1>2, <2>2
           DEF Busy, Registering, StartCall, Operation, TaskObserved, RegisterPushConfig,
               EndCall, Registrar, ReadWebhook, AgentAnswers, CallInterrupted,
               AgentRejects, DisablePush, PublishNote
<1>3. ASSUME NEW r \in Requests, Webhook(r) PROVE Busy' = {} /\ Registering' = {}
    BY <1>3, WebhookKeeps DEF Joined, Busy, Registering, servers, control
<1>4. CASE UNCHANGED vars
    BY <1>4 DEF Joined, Busy, Registering, vars, servers, control
<1> QED
    BY <1>1, <1>2, <1>3, <1>4, StepKinds

\* With the server stopped and its drain in time, no request is left.
LEMMA InvMeansQuiet == Inv => QuietAfterShutdown
<1> SUFFICES ASSUME Inv, stage["shutdown"] = "destroyed", overdue = {}
             PROVE  /\ \A c \in Calls : /\ call[c] \in {"idle", "exited"}
                                        /\ registrar[c] \in Ended \cup {"none"}
                    /\ InHand = {}
    BY DEF QuietAfterShutdown
<1> USE DEF Inv, Shape
<1>1. Busy = {} /\ Registering = {}
    BY DEF Joined
<1>2. \A c \in Calls : /\ call[c] \in {"idle", "exited"}
                       /\ registrar[c] \in Ended \cup {"none"}
    BY <1>1 DEF Busy, Registering, TypeOK, CallStages, RegistrarStages, Ended
<1>3. pushSrv = 0 /\ stage["loop"] = "gone"
    BY DEF Turns, ServerFields, PastStop, Stoppers
<1>4. Closing = {} /\ Draining = {}
    BY <1>3 DEF Closing, Draining, Stoppers
<1>5. listening = {}
    BY <1>3, <1>4 DEF ServerFields, NoOrphanServer
<1>6. InHand = {}
    BY <1>4, <1>5 DEF Handled
<1> QED
    BY <1>2, <1>6

------------------------------------------------------------------------------
LEMMA InvHolds == Spec => []Inv
<1>1. Inv /\ [Next]_vars => Inv'
    BY ShapeStep, HandledStep, JoinedStep DEF Inv
<1> QED
    BY <1>1, InitShape, PTL DEF Spec

\* Types, for any number of operations, tasks, requests and servers.
THEOREM PushTypeCorrect == Spec => []TypeOK
<1>1. Inv => TypeOK
    BY DEF Inv, Shape
<1> QED
    BY <1>1, InvHolds, PTL

\* No server listens that the session or a stopper does not know of, and
\* registration is off without one (StartPush, StopPush).
THEOREM ServersAccountedFor == Spec => []NoOrphanServer
<1>1. Inv => NoOrphanServer
    BY DEF Inv, Shape, ServerFields
<1> QED
    BY <1>1, InvHolds, PTL

\* However many operations observe a task, one registers it (taskObserved).
THEOREM OneRegistrationPerTask == Spec => []RegisteredOnce
<1>1. Inv => RegisteredOnce
    BY DEF Inv, Shape, Marked
<1> QED
    BY <1>1, InvHolds, PTL

\* A Shutdown in time leaves no operation, registration or request behind.
THEOREM ShutdownLeavesQuiet == Spec => []QuietAfterShutdown
BY InvHolds, InvMeansQuiet, PTL
==============================================================================
