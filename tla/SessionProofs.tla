---------------------------- MODULE SessionProofs ----------------------------
(* Proofs about Session and Connect: how a session comes about, and its life, *)
(* for any operations, programs, saved agents, agents and faults.             *)
EXTENDS Session, Connect, FiniteSetTheorems, TLAPS

------------------------------------------------------------------------------
(* Session.  Inv1 holds however the keys are chosen; Inv2 adds what needs      *)
(* every call to have a key of its own.                                       *)


Inv1 == TypeOK /\ Lifecycle /\ DestroyAfterJoin
Inv2 == Inv1 /\ Cancelable /\ DrainComplete

------------------------------------------------------------------------------
\* The wait group over a step that moves one goroutine: what joins Counted is
\* added, what leaves it is subtracted (sync.WaitGroup in session.go).
LEMMA CountedFinite ==
    IsFiniteSet(Counted) /\ Cardinality(Counted) \in Nat
<1>1. Counted \subseteq Ops
    BY DEF Counted
<1> QED
    BY <1>1, FS_Subset, FS_CardinalityType, SessionAssumption

\* A step that leaves the goroutines' program counters inside the counted
\* stages leaves the count alone.
LEMMA CountKept ==
    ASSUME TypeOK, NEW o \in Ops, NEW from \in Stages \ {"idle", "exited"},
           NEW to \in Stages \ {"idle", "exited"}, Moves(o, from, to)
    PROVE  Counted' = Counted
BY DEF TypeOK, Moves, Counted

\* Starting an operation adds it to the counted ones, and wg.Add(1) follows.
LEMMA CountStarted ==
    ASSUME TypeOK, NEW o \in Ops, Moves(o, "idle", "running")
    PROVE  Cardinality(Counted') = Cardinality(Counted) + 1
<1>1. o \notin Counted /\ Counted' = Counted \cup {o}
    BY DEF TypeOK, Moves, Counted, Stages
<1> QED
    BY <1>1, CountedFinite, FS_AddElement

\* Leaving takes the operation out of the counted ones, and wg.Done follows.
LEMMA CountLeft ==
    ASSUME TypeOK, NEW o \in Ops, Moves(o, "unwinding", "exited")
    PROVE  Cardinality(Counted') = Cardinality(Counted) - 1 /\ Cardinality(Counted) > 0
<1>1. o \in Counted /\ Counted' = Counted \ {o}
    BY DEF TypeOK, Moves, Counted, Stages
<1>2. Cardinality(Counted) # 0
    BY <1>1, CountedFinite, FS_EmptySet
<1> QED
    BY <1>1, <1>2, CountedFinite, FS_RemoveElement

\* An empty wait group means that no goroutine of the session is left.
LEMMA JoinedMeansGone ==
    ASSUME TypeOK, wg = 0, wg = Cardinality(Counted)
    PROVE  Gone = Ops
<1>1. Counted = {}
    BY CountedFinite, FS_EmptySet
<1> QED
    BY <1>1 DEF TypeOK, Counted, Gone, Stages

------------------------------------------------------------------------------
LEMMA InitInv == Init => Inv2
<1> SUFFICES ASSUME Init PROVE Inv2
    OBVIOUS
<1> USE DEF Init
<1>a. queued \in 0..EventBufferSize
    BY SessionAssumption
<1>1. TypeOK
    BY <1>a DEF TypeOK, Stages, Contexts
<1>2. Counted = {}
    BY DEF Counted
<1>3. Lifecycle
    BY <1>2, FS_EmptySet DEF Lifecycle
<1>4. DestroyAfterJoin /\ Cancelable /\ DrainComplete
    BY DEF DestroyAfterJoin, Cancelable, DrainComplete, InFlight
<1> QED
    BY <1>1, <1>3, <1>4 DEF Inv1, Inv2

\* Canceling everybody: the map is emptied and every context it held is
\* canceled; the others keep theirs (CancelActive, Shutdown).
LEMMA CancelEveryoneTyped ==
    ASSUME TypeOK, CancelEveryone
    PROVE  /\ opCtx' \in [Ops -> Contexts]
           /\ cancels' \in [Keys -> Ops \cup {NoOp}]
           /\ \A o \in Ops : opCtx'[o] = "canceled" \/ opCtx'[o] = opCtx[o]
BY DEF TypeOK, CancelEveryone, Contexts

\* With a key per call, canceling everybody leaves nothing in flight live.
LEMMA CancelEveryoneReaches ==
    ASSUME TypeOK, Lifecycle, Cancelable, CancelEveryone
    PROVE  \A o \in Ops : opCtx'[o] # "live"
<1> SUFFICES ASSUME NEW o \in Ops, opCtx'[o] = "live" PROVE FALSE
    OBVIOUS
<1>1. opCtx[o] = "live" /\ ~Held(o)
    BY DEF TypeOK, CancelEveryone
<1>2. o \in InFlight
    BY <1>1 DEF TypeOK, Lifecycle, InFlight, Stages
<1>3. KeyOf[o] \in Keys /\ cancels[KeyOf[o]] = o
    BY <1>1, <1>2, SessionAssumption DEF Cancelable
<1> QED
    BY <1>1, <1>3 DEF Held

------------------------------------------------------------------------------
(* Inv1 is preserved by every step, one step of the proof per action.        *)

\* The calls of the application.
LEMMA StartInv1 ==
    ASSUME Inv1, NEW o \in Ops, Start(o)
    PROVE  Inv1'
<1> USE DEF Inv1, Start
<1>1. TypeOK'
    <2>1. pc' \in [Ops -> Stages] /\ opCtx' \in [Ops -> Contexts]
        BY DEF TypeOK, Stages, Contexts
    <2>2. cancels' \in [Keys -> Ops \cup {NoOp}]
        <3>1. KeyOf[o] \in Keys
            BY SessionAssumption
        <3> QED
            BY <3>1 DEF TypeOK
    <2>3. wg' \in Nat
        BY DEF TypeOK
    <2> QED
        BY <2>1, <2>2, <2>3 DEF TypeOK
<1>2. Cardinality(Counted') = Cardinality(Counted) + 1
    BY CountStarted DEF Moves
<1>3. wg' = Cardinality(Counted')
    BY <1>2 DEF TypeOK, Lifecycle
<1>4. \A k \in Keys : cancels'[k] # NoOp => cancels'[k] \in InFlight' /\ KeyOf[cancels'[k]] = k
    BY SessionAssumption DEF TypeOK, Lifecycle, InFlight
<1>5. Lifecycle'
    BY <1>3, <1>4 DEF TypeOK, Lifecycle
<1>6. DestroyAfterJoin'
    BY DEF Lifecycle, DestroyAfterJoin
<1> QED
    BY <1>1, <1>5, <1>6

\* Canceling everybody while the goroutines stand still (CancelActive and the
\* drain of Shutdown).
LEMMA CancelEveryoneLifecycle ==
    ASSUME TypeOK, Lifecycle, CancelEveryone, pc' = pc, wg' = wg,
           shutdown' # "open" => retired'
    PROVE  Lifecycle'
<1>1. Counted' = Counted
    BY DEF Counted
<1>2. ASSUME NEW o \in Ops PROVE pc[o] = "idle" <=> opCtx'[o] = "none"
    <2>1. Held(o) => pc[o] # "idle"
        BY SessionAssumption DEF Lifecycle, Held, InFlight
    <2> QED
        BY <2>1 DEF CancelEveryone, Lifecycle
<1>3. \A o \in Ops : pc[o] \in {"unwinding", "exited"} => opCtx'[o] = "canceled"
    BY CancelEveryoneTyped DEF Lifecycle
<1>4. \A k \in Keys : cancels'[k] = NoOp
    BY DEF CancelEveryone
<1> QED
    BY <1>1, <1>2, <1>3, <1>4 DEF Lifecycle

LEMMA CallerInv1 ==
    ASSUME Inv1, Caller
    PROVE  Inv1'
<1> USE DEF Inv1
<1>1. ASSUME CancelActive PROVE Inv1'
    <2>1. TypeOK' /\ Lifecycle'
        BY <1>1, CancelEveryoneTyped, CancelEveryoneLifecycle DEF CancelActive, TypeOK, Lifecycle
    <2> QED
        BY <1>1, <2>1 DEF CancelActive, DestroyAfterJoin, Gone
<1>2. ASSUME Retire PROVE Inv1'
    BY <1>2 DEF Retire, TypeOK, Lifecycle, DestroyAfterJoin, Gone, Counted, InFlight
<1>3. ASSUME Consume PROVE Inv1'
    <2>1. queued' \in 0..EventBufferSize
        BY <1>3, SessionAssumption DEF Consume, TypeOK
    <2> QED
        BY <1>3, <2>1 DEF Consume, TypeOK, Lifecycle, DestroyAfterJoin, Gone, Counted, InFlight
<1> QED
    BY <1>1, <1>2, <1>3, StartInv1 DEF Caller

\* The goroutine of an operation.
LEMMA GoroutineInv1 ==
    ASSUME Inv1, NEW o \in Ops, Goroutine(o)
    PROVE  Inv1'
<1> USE DEF Inv1
<1>1. ASSUME Publish(o) PROVE Inv1'
    <2>1. queued' \in 0..EventBufferSize
        BY <1>1, SessionAssumption DEF Publish, TypeOK
    <2> QED
        BY <1>1, <2>1 DEF Publish, TypeOK, Lifecycle, DestroyAfterJoin, Gone, Counted, InFlight
<1>2. ASSUME Moves(o, "running", "reporting"),
             UNCHANGED <<opCtx, cancels, wg, sessCtx, queued, retired, shutdown, graceOver>>
      PROVE  Inv1'
    <2>1. Counted' = Counted /\ InFlight' = InFlight /\ Gone' = Gone
        BY <1>2 DEF Moves, TypeOK, Counted, InFlight, Gone, Stages
    <2>2. TypeOK'
        BY <1>2 DEF Moves, TypeOK, Stages
    <2>3. Lifecycle' /\ DestroyAfterJoin'
        BY <1>2, <2>1 DEF Moves, TypeOK, Lifecycle, DestroyAfterJoin
    <2> QED
        BY <2>2, <2>3
<1>3. ASSUME ReportDone(o) PROVE Inv1'
    <2> USE <1>3 DEF ReportDone
    <2>1. Counted' = Counted /\ InFlight' = InFlight /\ Gone' = Gone
        BY DEF Moves, TypeOK, Counted, InFlight, Gone, Stages
    <2>2. queued' \in 0..EventBufferSize
        BY SessionAssumption DEF TypeOK
    <2>3. TypeOK'
        BY <2>2 DEF Moves, TypeOK, Stages
    <2>4. Lifecycle' /\ DestroyAfterJoin'
        BY <2>1 DEF Moves, TypeOK, Lifecycle, DestroyAfterJoin
    <2> QED
        BY <2>3, <2>4
<1>4. ASSUME Release(o) PROVE Inv1'
    <2> USE <1>4 DEF Release
    <2>1. Counted' = Counted /\ InFlight' = InFlight \ {o} /\ Gone' = Gone
        BY DEF Moves, TypeOK, Counted, InFlight, Gone, Stages
    <2>2. TypeOK'
        BY SessionAssumption DEF Moves, TypeOK, Stages, Contexts
    <2>3. \A k \in Keys : cancels'[k] # NoOp
             => cancels'[k] \in InFlight' /\ KeyOf[cancels'[k]] = k
        BY <2>1 DEF TypeOK, Lifecycle
    <2>4. Lifecycle' /\ DestroyAfterJoin'
        BY <2>1, <2>3 DEF Moves, TypeOK, Lifecycle, DestroyAfterJoin
    <2> QED
        BY <2>2, <2>4
<1>5. ASSUME Unwind(o) PROVE Inv1'
    <2> USE <1>5 DEF Unwind
    <2>1. Cardinality(Counted') = Cardinality(Counted) - 1 /\ Cardinality(Counted) > 0
        BY CountLeft
    <2>2. InFlight' = InFlight /\ Gone' = Gone \cup {o}
        BY DEF Moves, TypeOK, InFlight, Gone, Stages
    <2>3. wg' = Cardinality(Counted') /\ wg' \in Nat
        BY <2>1 DEF TypeOK, Lifecycle
    <2>4. TypeOK'
        BY <2>3 DEF Moves, TypeOK, Stages
    <2>5. Lifecycle' /\ DestroyAfterJoin'
        BY <2>2, <2>3 DEF Moves, TypeOK, Lifecycle, DestroyAfterJoin
    <2> QED
        BY <2>4, <2>5
<1> QED
    BY <1>1, <1>2, <1>3, <1>4, <1>5 DEF Goroutine, AgentEnds, CancelSeen

\* The goroutine of Shutdown.
LEMMA ShutdownInv1 ==
    ASSUME Inv1, Shutdown
    PROVE  Inv1'
<1> USE DEF Inv1
<1>1. Gone' = Gone /\ Counted' = Counted /\ InFlight' = InFlight
    BY DEF Shutdown, ShutdownSession, ShutdownDrain, ShutdownJoined, ShutdownExpired,
           Gone, Counted, InFlight
<1>2. ASSUME ShutdownSession PROVE Inv1'
    BY <1>1, <1>2 DEF ShutdownSession, TypeOK, Lifecycle, DestroyAfterJoin
<1>3. ASSUME ShutdownDrain PROVE Inv1'
    <2>1. TypeOK' /\ Lifecycle'
        BY <1>3, CancelEveryoneTyped, CancelEveryoneLifecycle DEF ShutdownDrain, TypeOK, Lifecycle
    <2> QED
        BY <1>3, <2>1 DEF ShutdownDrain, DestroyAfterJoin
<1>4. ASSUME ShutdownJoined PROVE Inv1'
    <2>1. Gone = Ops
        BY <1>4, JoinedMeansGone DEF ShutdownJoined, Lifecycle
    <2> QED
        BY <1>1, <1>4, <2>1 DEF ShutdownJoined, TypeOK, Lifecycle, DestroyAfterJoin
<1>5. ASSUME ShutdownExpired PROVE Inv1'
    BY <1>1, <1>5 DEF ShutdownExpired, TypeOK, Lifecycle, DestroyAfterJoin
<1> QED
    BY <1>2, <1>3, <1>4, <1>5 DEF Shutdown

LEMMA StepInv1 ==
    ASSUME Inv1, [Next]_vars
    PROVE  Inv1'
<1>1. CASE UNCHANGED vars
    BY <1>1 DEF vars, Inv1, TypeOK, Lifecycle, DestroyAfterJoin, Gone, Counted, InFlight
<1> QED
    BY <1>1, CallerInv1, GoroutineInv1, ShutdownInv1 DEF Next

------------------------------------------------------------------------------
(* Theorems that hold whatever the keys.                                     *)

LEMMA Inv1Always == Spec => []Inv1
<1>1. Init => Inv1
    BY InitInv DEF Inv2
<1>2. Inv1 /\ [Next]_vars => Inv1'
    BY StepInv1
<1> QED
    BY <1>1, <1>2, PTL DEF Spec

\* Every reachable state of a session is well formed (session.go).
THEOREM TypeCorrect == Spec => []TypeOK
<1>1. Inv1 => TypeOK
    BY DEF Inv1
<1> QED
    BY <1>1, Inv1Always, PTL

\* The cancels map never holds a stale entry and the wait group counts exactly
\* the goroutines that have not left (register, release, wg).
THEOREM LifecycleHolds == Spec => []Lifecycle
<1>1. Inv1 => Lifecycle
    BY DEF Inv1
<1> QED
    BY <1>1, Inv1Always, PTL

\* Shutdown that did not run out of grace destroys the connection only when all
\* goroutines have left, for any number of operations.
THEOREM JoinBeforeDestroy == Spec => []DestroyAfterJoin
<1>1. Inv1 => DestroyAfterJoin
    BY DEF Inv1
<1> QED
    BY <1>1, Inv1Always, PTL

------------------------------------------------------------------------------
(* Theorems that need a key per call.                                        *)

LEMMA StepInv2 ==
    ASSUME DistinctKeys, Inv2, [Next]_vars
    PROVE  Inv2'
<1> USE DEF Inv2, Inv1
<1>0. Inv1'
    BY StepInv1
<1>1. ASSUME NEW o \in Ops, Start(o) PROVE Cancelable' /\ DrainComplete'
    <2> USE <1>1 DEF Start
    <2>1. DrainComplete'
        BY DEF Lifecycle, DrainComplete
    <2>2. ASSUME NEW p \in InFlight', opCtx'[p] = "live" PROVE cancels'[KeyOf[p]] = p
        <3>1. CASE p = o
            BY <3>1, SessionAssumption DEF TypeOK
        <3>2. CASE p # o
            <4>1. p \in InFlight /\ opCtx[p] = "live" /\ cancels[KeyOf[p]] = p
                BY <2>2, <3>2 DEF TypeOK, InFlight, Cancelable
            <4>2. KeyOf[p] # KeyOf[o]
                BY <2>2, <3>2 DEF DistinctKeys, InFlight
            <4> QED
                BY <4>1, <4>2, SessionAssumption DEF TypeOK
        <3> QED
            BY <3>1, <3>2
    <2> QED
        BY <2>1, <2>2 DEF Cancelable
<1>2. ASSUME CancelActive \/ ShutdownDrain PROVE Cancelable' /\ DrainComplete'
    <2>1. \A o \in Ops : opCtx'[o] # "live"
        BY <1>2, CancelEveryoneReaches DEF CancelActive, ShutdownDrain
    <2> QED
        BY <2>1 DEF Cancelable, DrainComplete, InFlight
<1>3. ASSUME NEW o \in Ops, Release(o) PROVE Cancelable' /\ DrainComplete'
    <2> USE <1>3 DEF Release, Moves
    <2>1. DrainComplete'
        BY DEF TypeOK, DrainComplete
    <2>2. ASSUME NEW p \in InFlight', opCtx'[p] = "live" PROVE cancels'[KeyOf[p]] = p
        <3>1. p # o /\ p \in InFlight /\ opCtx[p] = "live" /\ cancels[KeyOf[p]] = p
            BY <2>2 DEF TypeOK, InFlight, Cancelable, Stages
        <3>2. KeyOf[p] # KeyOf[o]
            BY <3>1 DEF DistinctKeys, InFlight
        <3> QED
            BY <3>1, <3>2, SessionAssumption DEF TypeOK, InFlight
    <2> QED
        BY <2>1, <2>2 DEF Cancelable
<1>4. ASSUME NEW o \in Ops, AgentEnds(o) \/ CancelSeen(o) \/ ReportDone(o) \/ Unwind(o)
      PROVE  Cancelable' /\ DrainComplete'
    BY <1>4 DEF AgentEnds, CancelSeen, ReportDone, Unwind, Moves, TypeOK, Stages,
                Cancelable, DrainComplete, InFlight
<1>5. ASSUME UNCHANGED <<pc, opCtx, cancels>>, shutdown' = shutdown \/ shutdown' = "stopped"
                                            \/ shutdown = "waiting"
      PROVE  Cancelable' /\ DrainComplete'
    BY <1>5 DEF Cancelable, DrainComplete, InFlight
<1>6. CASE UNCHANGED vars
    BY <1>0, <1>5, <1>6 DEF vars
<1> QED
    BY <1>0, <1>1, <1>2, <1>3, <1>4, <1>5, <1>6
    DEF Next, Caller, Goroutine, Shutdown, Retire, Consume, Publish,
        ShutdownSession, ShutdownJoined, ShutdownExpired

LEMMA Inv2Always == ASSUME DistinctKeys PROVE Spec => []Inv2
<1>1. Init => Inv2
    BY InitInv
<1>2. Inv2 /\ [Next]_vars => Inv2'
    BY StepInv2
<1> QED
    BY <1>1, <1>2, PTL DEF Spec

\* With a key per call, whatever is in flight and live can be canceled
\* (register, release, CancelActive).
THEOREM EveryCallCancelable == ASSUME DistinctKeys PROVE Spec => []Cancelable
<1>1. Inv2 => Cancelable
    BY DEF Inv2
<1> QED
    BY <1>1, Inv2Always, PTL

\* With a key per call, nothing is live once Shutdown has drained the map.
THEOREM DrainIsComplete == ASSUME DistinctKeys PROVE Spec => []DrainComplete
<1>1. Inv2 => DrainComplete
    BY DEF Inv2
<1> QED
    BY <1>1, Inv2Always, PTL

\* With a key per call, Esc reaches everything in flight (session.go:270).
THEOREM EscReachesAll == ASSUME DistinctKeys PROVE Spec => EscCancelsAll
<1>1. Inv2 /\ [Next]_vars
          => [CancelActive => \A o \in InFlight : opCtx'[o] = "canceled"]_vars
    <2> SUFFICES ASSUME Inv2, CancelActive, NEW o \in InFlight
                 PROVE  opCtx'[o] = "canceled"
        OBVIOUS
    <2>1. opCtx'[o] # "live" /\ o \in Ops
        BY CancelEveryoneReaches DEF Inv2, Inv1, CancelActive, InFlight
    <2>2. opCtx'[o] \in {"live", "canceled"}
        BY <2>1 DEF Inv2, Inv1, CancelActive, CancelEveryone, TypeOK, Lifecycle, Contexts, InFlight
    <2> QED
        BY <2>1, <2>2
<1> QED
    BY <1>1, Inv2Always, PTL DEF Spec, EscCancelsAll

------------------------------------------------------------------------------
(* Connect.                                                                   *)

Docs   == {"v1", "grpc", "no1x", "v03", "foreign", "none", "glitch"}
Agents == [url : Urls, pin : {"", V1, V03}]
Files  == [agents : [Names -> Agents \union {None}], default : Names \union {None}]

\* A file that Load accepts and whose default agent is in it.
WholeFile(f) == f \in Files /\ (f.default # None => f.agents[f.default] # None)

\* A command changes a file in memory: the entry of one name, or the default.
Commands ==
    [at : {"staged", "synced"}, name : Names \union {None}, base : Files, next : Files]
Changes(c) ==
    /\ c \in Commands /\ WholeFile(c.next)
    /\ \A n \in Names : n # c.name => c.next.agents[n] = c.base.agents[n]

\* No file is ever seen, or left by a power loss, that is not whole.
FilesWhole ==
    /\ WholeFile(file) /\ WholeFile(durable) /\ synced = TRUE
    /\ cmd \in [Programs -> Commands \union {Idle}]
    /\ \A p \in Programs : cmd[p] # Idle => Changes(cmd[p])
    /\ kept \in [Names -> Agents \union {None}]

\* The mode of the program is the flag's if one was given.
Mode ==
    /\ explicit \in BOOLEAN /\ flag \in Modes /\ proto \in Modes
    /\ explicit => proto = flag
    /\ ~explicit => flag = AutoMode

\* What an attempt has learnt at each step.
Went == att.mode = AutoMode => att.skipped \notin {"", "v1", "grpc"}
Steps ==
    /\ att \in [at : {"idle", "ref", "new", "legacy", "dial"},
                ref : Names \union Urls \union {None}, url : Names \union Urls \union {None},
                mode : Modes, want : Modes, skipped : Docs \union {""}, doc : Docs]
    /\ att.at = "ref" /\ flag = AutoMode /\ proto = AutoMode => att.want = AutoMode
    /\ att.at = "new" => att.mode # V03
    /\ att.at = "legacy" => att.mode # V1 /\ Went
    /\ att.at = "dial" => \/ att.doc \in {"v1", "grpc"} /\ att.mode # V03
                          \/ att.doc = "v03" /\ att.mode # V1 /\ Went

ConnectInv == FilesWhole /\ SavesKept /\ Mode /\ Steps /\ SpeaksItsCard /\ ModeTrue

------------------------------------------------------------------------------
(* Saved agents.                                                             *)

LEMMA NoneIsNoAgent == ConnectAssumption => None \notin Agents /\ None \notin Names
BY DEF ConnectAssumption, Agents, V1, V03

LEMMA AgentType ==
    ASSUME NEW f \in Files, NEW n
    PROVE  Agent(f, n) \in Agents \union {None} /\ (n \in Names => Agent(f, n) = f.agents[n])
BY DEF Files, Agent

LEMMA WholeIsNotTorn ==
    ASSUME ConnectAssumption, NEW f, WholeFile(f)
    PROVE  f # Torn
<1>1. f.default # "torn"
    BY DEF WholeFile, Files, ConnectAssumption
<1>2. Torn.default = "torn"
    BY DEF Torn
<1> QED
    BY <1>1, <1>2

\* UpsertAgent writes one entry, and no default is lost by it.
LEMMA UpsertWhole ==
    ASSUME ConnectAssumption, NEW f, WholeFile(f), NEW n \in Names, NEW ag \in Agents
    PROVE  /\ WholeFile(UpsertAgent(f, n, ag))
           /\ \A m \in Names : m # n => UpsertAgent(f, n, ag).agents[m] = f.agents[m]
<1> DEFINE g == UpsertAgent(f, n, ag)
<1>1. f \in Files
    BY DEF WholeFile
<1>2. g \in Files /\ g.default = f.default
      /\ \A m \in Names : g.agents[m] = IF m = n THEN ag ELSE f.agents[m]
    BY <1>1 DEF Files, UpsertAgent
<1> HIDE DEF g
<1>3. g.default # None => g.agents[g.default] # None
    BY <1>1, <1>2, NoneIsNoAgent DEF WholeFile, Files
<1> QED
    BY <1>2, <1>3 DEF WholeFile, g

\* RemoveAgent takes the default with the agent.
LEMMA RemoveWhole ==
    ASSUME ConnectAssumption, NEW f, WholeFile(f), NEW n \in Names
    PROVE  /\ WholeFile(RemoveAgent(f, n))
           /\ \A m \in Names : m # n => RemoveAgent(f, n).agents[m] = f.agents[m]
<1> DEFINE g == RemoveAgent(f, n)
<1>1. f \in Files
    BY DEF WholeFile
<1>2. /\ g \in Files /\ g.default = IF f.default = n THEN None ELSE f.default
      /\ \A m \in Names : g.agents[m] = IF m = n THEN None ELSE f.agents[m]
    BY <1>1 DEF Files, RemoveAgent
<1> HIDE DEF g
<1>3. g.default # None => g.agents[g.default] # None
    BY <1>1, <1>2 DEF WholeFile, Files
<1> QED
    BY <1>2, <1>3 DEF WholeFile, g

\* SetDefault is given a name that is saved.
LEMMA DefaultWhole ==
    ASSUME ConnectAssumption, NEW f, WholeFile(f), NEW n \in Names, Agent(f, n) # None
    PROVE  WholeFile(SetDefault(f, n)) /\ SetDefault(f, n).agents = f.agents
<1> DEFINE g == SetDefault(f, n)
<1>1. f \in Files
    BY DEF WholeFile
<1>2. g \in Files /\ g.default = n /\ g.agents = f.agents
    BY <1>1 DEF Files, SetDefault
<1> HIDE DEF g
<1>3. f.agents[n] # None
    <2>1. Agent(f, n) = f.agents[n]
        BY <1>1, AgentType
    <2> QED
        BY <2>1
<1>4. g.agents[n] # None
    BY <1>2, <1>3
<1> QED
    BY <1>2, <1>4 DEF WholeFile, g

LEMMA UnderWay ==
    ASSUME FilesWhole, NEW p \in Programs, cmd[p].at \in {"staged", "synced"}
    PROVE  cmd[p] \in Commands /\ Changes(cmd[p])
<1>1. Idle.at = "idle"
    BY DEF Idle
<1>2. cmd[p] # Idle
    BY <1>1
<1> QED
    BY <1>2 DEF FilesWhole, Changes

\* /agent stages a file that is whole and differs from what it read in one name.
LEMMA BeginKeeps ==
    ASSUME FilesWhole, NEW p \in Programs, NEW name \in Names \union {None}, NEW next,
           Begin(p, name, next), WholeFile(next),
           \A n \in Names : n # name => next.agents[n] = file.agents[n]
    PROVE  FilesWhole'
<1> DEFINE c == [at |-> "staged", name |-> name, base |-> file, next |-> next]
<1>1. c \in Commands /\ Changes(c)
    BY DEF Commands, Changes, FilesWhole, WholeFile
<1>2. cmd' = [cmd EXCEPT ![p] = c] /\ UNCHANGED <<fileVars, kept>>
    BY DEF Begin
<1> HIDE DEF c
<1>3. cmd' \in [Programs -> Commands \union {Idle}]
    BY <1>1, <1>2 DEF FilesWhole
<1>4. \A q \in Programs : cmd'[q] # Idle => Changes(cmd'[q])
    BY <1>1, <1>2 DEF FilesWhole
<1> QED
    BY <1>2, <1>3, <1>4 DEF FilesWhole, fileVars

------------------------------------------------------------------------------
(* The file.                                                                 *)

\* The operations by what they do to the file, the commands and what was reported.
LEMMA FileChanges ==
    ASSUME [ConnectNext]_connectVars
    PROVE  \/ \E p \in Programs : Command(p) \/ Crash(p)
           \/ PowerLoss \/ Flush
           \/ UNCHANGED <<fileVars, cmd, kept>>
BY DEF ConnectNext, Command, connectVars, fileVars, appVars, Launch, StartConnect, Expand, FetchNew,
       FetchLegacy, Attempt, TimesOut, Dial, Disconnect, Upgrade

LEMMA StepFiles ==
    ASSUME ConnectAssumption, FilesWhole, [ConnectNext]_connectVars
    PROVE  FilesWhole'
<1>0. WholeFile(file) /\ file \in Files
    BY DEF FilesWhole, WholeFile
<1>1. ASSUME NEW p \in Programs, NEW n \in Names, SaveAgent(p, n) PROVE FilesWhole'
    <2>1. PICK u \in Urls, w \in {V1, V03} : Begin(p, n, UpsertAgent(file, n, [url |-> u, pin |-> w]))
        BY <1>1 DEF SaveAgent
    <2>2. [url |-> u, pin |-> w] \in Agents
        BY DEF Agents
    <2> DEFINE g == UpsertAgent(file, n, [url |-> u, pin |-> w])
    <2>3. WholeFile(g) /\ \A m \in Names : m # n => g.agents[m] = file.agents[m]
        BY <2>2, <1>0, UpsertWhole
    <2> HIDE DEF g
    <2> QED
        BY <2>1, <2>3, BeginKeeps DEF g
<1>2. ASSUME NEW p \in Programs, NEW n \in Names, Removes(p, n) PROVE FilesWhole'
    <2>1. Begin(p, n, RemoveAgent(file, n))
        BY <1>2 DEF Removes
    <2> DEFINE g == RemoveAgent(file, n)
    <2>2. WholeFile(g) /\ \A m \in Names : m # n => g.agents[m] = file.agents[m]
        BY <1>0, RemoveWhole
    <2> HIDE DEF g
    <2> QED
        BY <2>1, <2>2, BeginKeeps DEF g
<1>3. ASSUME NEW p \in Programs, NEW n \in Names, MakeDefault(p, n) PROVE FilesWhole'
    <2>1. Begin(p, None, SetDefault(file, n)) /\ Agent(file, n) # None
        BY <1>3 DEF MakeDefault
    <2> QED
        BY <2>1, <1>0, DefaultWhole, BeginKeeps
<1>4. ASSUME NEW p \in Programs, Sync(p) PROVE FilesWhole'
    <2>1. cmd[p] \in Commands /\ Changes(cmd[p])
        BY <1>4, UnderWay DEF Sync
    <2> DEFINE c == [cmd[p] EXCEPT !.at = "synced"]
    <2>2. c \in Commands /\ c.name = cmd[p].name /\ c.base = cmd[p].base /\ c.next = cmd[p].next
        BY <2>1 DEF Commands
    <2> HIDE DEF c
    <2>3. Changes(c)
        BY <2>1, <2>2 DEF Changes
    <2>4. cmd' = [cmd EXCEPT ![p] = c] /\ UNCHANGED <<fileVars, kept>>
        BY <1>4 DEF Sync, c
    <2> QED
        BY <2>2, <2>3, <2>4 DEF FilesWhole, fileVars
<1>5. ASSUME NEW p \in Programs, Rename(p) PROVE FilesWhole'
    <2>1. cmd[p] \in Commands /\ Changes(cmd[p])
        BY <1>5, UnderWay DEF Rename
    <2>2. /\ file' = cmd[p].next /\ durable' = durable /\ synced' = TRUE
          /\ cmd' = [cmd EXCEPT ![p] = Idle] /\ kept' = Outlasts(p)
        BY <1>5 DEF Rename, Replaces
    <2>3. WholeFile(file')
        BY <2>1, <2>2 DEF Changes
    <2>4. kept' \in [Names -> Agents \union {None}]
        <3>1. \A n \in Names : cmd[p].next.agents[n] \in Agents \union {None}
            BY <2>1 DEF Changes, WholeFile, Files
        <3> QED
            BY <3>1, <2>2 DEF Outlasts, FilesWhole
    <2> QED
        BY <2>2, <2>3, <2>4 DEF FilesWhole, WholeFile
<1>6. ASSUME NEW p \in Programs, SaveFails(p) \/ Crash(p) PROVE FilesWhole'
    BY <1>6 DEF SaveFails, Crash, FilesWhole, fileVars
<1>7. CASE PowerLoss
    BY <1>7 DEF PowerLoss, FilesWhole
<1>8. CASE Flush
    BY <1>8 DEF Flush, FilesWhole, appVars
<1>9. CASE UNCHANGED <<fileVars, cmd, kept>>
    BY <1>9 DEF FilesWhole, fileVars
<1> QED
    BY <1>1, <1>2, <1>3, <1>4, <1>5, <1>6, <1>7, <1>8, <1>9, FileChanges DEF Command

\* A commit leaves the entry it wrote, and those that stood when it read the file.
LEMMA StepKept ==
    ASSUME ConnectAssumption, FilesWhole, SavesKept, [ConnectNext]_connectVars
    PROVE  SavesKept'
<1>1. ASSUME NEW p \in Programs, Rename(p) PROVE SavesKept'
    <2>1. cmd[p] \in Commands /\ Changes(cmd[p])
        BY <1>1, UnderWay DEF Rename
    <2>2. file' = cmd[p].next /\ kept' = Outlasts(p)
        BY <1>1 DEF Rename, Replaces
    <2>3. SUFFICES ASSUME NEW n \in Names, kept'[n] # None
                   PROVE  file'.agents[n] = kept'[n]
        BY DEF SavesKept, Agent
    <2>4. CASE n = cmd[p].name
        BY <2>2, <2>4 DEF Outlasts
    <2>5. CASE n # cmd[p].name
        <3>1. cmd[p].base = file /\ kept'[n] = kept[n]
            BY <2>2, <2>3, <2>5 DEF Outlasts
        <3>2. file.agents[n] = kept[n]
            BY <3>1, <2>3 DEF SavesKept, Agent
        <3> QED
            BY <3>1, <3>2, <2>1, <2>2, <2>5 DEF Changes
    <2> QED
        BY <2>4, <2>5
<1>2. ASSUME NEW p \in Programs, Command(p) \/ Crash(p), ~Rename(p) PROVE UNCHANGED <<file, kept>>
    BY <1>2 DEF Command, SaveAgent, Removes, MakeDefault, Begin, Sync, SaveFails, Crash, fileVars
<1>3. CASE PowerLoss
    BY <1>3 DEF PowerLoss, SavesKept
<1>4. CASE UNCHANGED <<file, kept>>
    BY <1>4 DEF SavesKept, Agent
<1> QED
    BY <1>1, <1>2, <1>3, <1>4, FileChanges DEF Flush, fileVars

------------------------------------------------------------------------------
(* The attempt to connect.                                                   *)

\* The operations by what they do to the attempt, the modes and the connection.
LEMMA AttemptChanges ==
    ASSUME [ConnectNext]_connectVars
    PROVE  \/ \E given \in BOOLEAN, m \in Modes, ref \in Names \union Urls : Launch(given, m, ref)
           \/ \E ref \in Names \union Urls : StartConnect(ref)
           \/ \E loads \in BOOLEAN : Expand(loads)
           \/ \E doc \in Served \union {"none", "glitch"} : FetchNew(doc) \/ FetchLegacy(doc)
           \/ Dial
           \/ UNCHANGED <<explicit, flag, proto>>
                /\ (UNCHANGED att \/ att' = NoAttempt) /\ (UNCHANGED conn \/ conn' = None)
BY ZenonT(40) DEF ConnectNext, Command, connectVars, appVars, SaveAgent, Removes, MakeDefault, Begin, Sync, Rename, Replaces,
       SaveFails, Crash, Stops, PowerLoss, Flush, TimesOut, Attempt, AttemptFails, Disconnect, Upgrade

LEMMA PinnedMode ==
    ASSUME NEW mode \in Modes, NEW ag \in Agents
    PROVE  /\ Pinned(mode, ag) \in Modes
           /\ mode # AutoMode => Pinned(mode, ag) = mode
BY DEF Modes, Agents, Pinned

LEMMA NoAttemptIdle ==
    /\ NoAttempt.at = "idle" /\ NoAttempt.want = AutoMode /\ NoAttempt.mode = AutoMode
    /\ NoAttempt.skipped = "" /\ NoAttempt.doc = "none" /\ NoAttempt.ref = None /\ NoAttempt.url = None
BY DEF NoAttempt

AttemptSet == [at : {"idle", "ref", "new", "legacy", "dial"},
               ref : Names \union Urls \union {None}, url : Names \union Urls \union {None},
               mode : Modes, want : Modes, skipped : Docs \union {""}, doc : Docs]

LEMMA NoAttemptType == NoAttempt \in AttemptSet
BY DEF NoAttempt, AttemptSet, Modes, Docs

\* The program's mode is the flag's if one was given; no attempt changes it.
LEMMA StepMode ==
    ASSUME ConnectAssumption, FilesWhole, Mode, [ConnectNext]_connectVars
    PROVE  Mode'
<1>1. ASSUME NEW given \in BOOLEAN, NEW m \in Modes, NEW ref \in Names \union Urls, Launch(given, m, ref)
      PROVE  Mode'
    <2> DEFINE ag == IF file = Torn THEN None ELSE Agent(file, ref)
    <2>1. ag \in Agents \union {None}
        BY AgentType DEF FilesWhole, WholeFile
    <2>2. /\ explicit' = given /\ flag' = m /\ (given \/ m = AutoMode)
          /\ proto' = IF ag = None \/ given THEN m ELSE Pinned(AutoMode, ag)
        BY <1>1 DEF Launch
    <2> HIDE DEF ag
    <2>3. AutoMode \in Modes
        BY DEF Modes
    <2>4. proto' \in Modes
        BY <2>1, <2>2, <2>3, PinnedMode
    <2> QED
        BY <2>2, <2>4 DEF Mode
<1>2. CASE UNCHANGED <<explicit, flag, proto>>
    BY <1>2 DEF Mode
<1> QED
    BY <1>1, <1>2, AttemptChanges DEF StartConnect, Expand, FetchNew, FetchLegacy, Dial, Attempt, appVars

\* What an attempt has learnt when it takes the next step, and what it is to use.
LEMMA StepAttempt ==
    ASSUME ConnectAssumption, FilesWhole, Mode, Steps, ModeTrue, [ConnectNext]_connectVars
    PROVE  Steps' /\ ModeTrue'
<1>0. att \in AttemptSet /\ explicit \in BOOLEAN /\ flag \in Modes /\ proto \in Modes /\ AutoMode \in Modes
    BY DEF Steps, AttemptSet, Mode, Modes
<1>1. ASSUME att' \in AttemptSet, att'.at = "idle" PROVE Steps' /\ ModeTrue'
    BY <1>1 DEF Steps, ModeTrue, AttemptSet
<1>2. ASSUME NEW given \in BOOLEAN, NEW m \in Modes, NEW ref \in Names \union Urls, Launch(given, m, ref)
      PROVE  Steps' /\ ModeTrue'
    <2> DEFINE ag == IF file = Torn THEN None ELSE Agent(file, ref)
               want == Wanted(ref)
    <2>1. ag \in Agents \union {None}
        BY AgentType DEF FilesWhole, WholeFile
    <2>2. /\ explicit' = given /\ flag' = m /\ (given \/ m = AutoMode)
          /\ proto' = IF ag = None \/ given THEN m ELSE Pinned(AutoMode, ag)
          /\ att' = [NoAttempt EXCEPT !.at = "ref", !.want = want,
                       !.ref = IF ag = None THEN ref ELSE ag.url]
        BY <1>2 DEF Launch
    <2>3. want = IF given THEN m ELSE IF ag = None THEN AutoMode ELSE Pinned(AutoMode, ag)
        BY <2>2 DEF Wanted
    <2>4. ag # None => ag.url \in Urls
        BY <2>1 DEF Agents
    <2> HIDE DEF ag, want
    <2>5. want \in Modes
        BY <2>1, <2>3, <1>0, PinnedMode
    <2>6. att' \in AttemptSet /\ att'.at = "ref" /\ att'.want = want
        BY <2>2, <2>4, <2>5, NoAttemptType DEF AttemptSet
    <2>7. flag' = AutoMode /\ proto' = AutoMode => want = AutoMode
        BY <2>2, <2>3
    <2> QED
        BY <2>6, <2>7 DEF Steps, ModeTrue, AttemptSet
<1>3. ASSUME NEW ref \in Names \union Urls, StartConnect(ref) PROVE Steps' /\ ModeTrue'
    <2>1. att' = [NoAttempt EXCEPT !.at = "ref", !.ref = ref]
        BY <1>3 DEF StartConnect
    <2>2. att' \in AttemptSet /\ att'.at = "ref" /\ att'.want = AutoMode
        BY <2>1, NoAttemptType, NoAttemptIdle DEF AttemptSet
    <2> QED
        BY <2>2 DEF Steps, ModeTrue, AttemptSet
<1>4. ASSUME NEW loads \in BOOLEAN, Expand(loads) PROVE Steps' /\ ModeTrue'
    <2> DEFINE ag == IF loads /\ ~IsURLish(att.ref) /\ file # Torn THEN Agent(file, att.ref) ELSE None
               mode == IF ag = None THEN proto ELSE PinUnder(ag)
               want == IF flag # AutoMode THEN flag
                       ELSE IF ag = None THEN att.want ELSE Pinned(AutoMode, ag)
    <2>1. ag \in Agents \union {None}
        BY AgentType DEF FilesWhole, WholeFile
    <2>2. /\ att.at = "ref" /\ UNCHANGED <<explicit, flag, proto>>
          /\ att' = [att EXCEPT !.at = IF mode = V03 THEN "legacy" ELSE "new",
                                !.url = IF ag = None THEN att.ref ELSE ag.url,
                                !.mode = mode, !.want = want]
        BY <1>4 DEF Expand, appVars
    <2>3. ag # None => ag.url \in Urls
        BY <2>1 DEF Agents
    <2>4. mode = IF ag = None THEN proto ELSE Pinned(proto, ag)
        BY DEF PinUnder
    <2>5. flag = AutoMode /\ proto = AutoMode => att.want = AutoMode
        BY <2>2 DEF Steps
    <2> HIDE DEF ag
    <2>6. mode \in Modes /\ want \in Modes
        <3>1. att.want \in Modes
            BY <1>0 DEF AttemptSet
        <3>2. ag # None => Pinned(proto, ag) \in Modes /\ Pinned(AutoMode, ag) \in Modes
            BY <2>1, <1>0, PinnedMode
        <3>3. mode \in Modes
            BY <3>2, <2>4, <1>0
        <3>4. want \in Modes
            BY <3>1, <3>2, <1>0
        <3> QED
            BY <3>3, <3>4
    <2>7. mode = want \/ (~explicit /\ proto # AutoMode)
        <3>1. CASE flag # AutoMode
            BY <3>1, <2>1, <2>4, <1>0, PinnedMode DEF Mode
        <3>2. CASE flag = AutoMode /\ proto = AutoMode
            BY <3>2, <2>4, <2>5
        <3>3. CASE flag = AutoMode /\ proto # AutoMode
            BY <3>3 DEF Mode
        <3> QED
            BY <3>1, <3>2, <3>3
    <2> HIDE DEF mode, want
    <2>8. /\ att' \in AttemptSet /\ att'.mode = mode /\ att'.want = want
          /\ att'.at = IF mode = V03 THEN "legacy" ELSE "new"
        BY <2>2, <2>3, <2>6, <1>0 DEF AttemptSet
    <2>9. "legacy" # "ref" /\ "new" # "ref" /\ "legacy" # "new" /\ "dial" # "new" /\ "dial" # "legacy"
          /\ V03 # V1 /\ V03 # AutoMode
        BY DEF V03, V1, AutoMode
    <2> QED
        BY ZenonT(40), <2>2, <2>7, <2>8, <2>9 DEF Steps, ModeTrue, AttemptSet, Went
<1>5. ASSUME NEW doc \in Served \union {"none", "glitch"}, FetchNew(doc) PROVE Steps' /\ ModeTrue'
    <2>1. att.at = "new" /\ att.mode # V03 /\ doc \in Docs /\ doc # ""
          /\ UNCHANGED <<explicit, flag, proto>>
        BY <1>5 DEF FetchNew, Steps, ConnectAssumption, Docs, Attempt, appVars
    <2>2. CASE att' = [att EXCEPT !.at = "dial", !.doc = doc] /\ ResolveV1(doc)
        <3>1. /\ att' \in AttemptSet /\ att'.at = "dial" /\ att'.doc = doc
              /\ att'.mode = att.mode /\ att'.want = att.want
            BY <2>1, <2>2, <1>0 DEF AttemptSet
        <3> QED
            BY <3>1, <2>1, <2>2 DEF Steps, ModeTrue, AttemptSet, ResolveV1
    <2>3. CASE att' = [att EXCEPT !.at = "legacy", !.skipped = doc] /\ ~ResolveV1(doc) /\ att.mode # V1
        <3>1. /\ att' \in AttemptSet /\ att'.at = "legacy" /\ att'.skipped = doc
              /\ att'.mode = att.mode /\ att'.want = att.want
            BY <2>1, <2>3, <1>0 DEF AttemptSet
        <3> QED
            BY <3>1, <2>1, <2>3 DEF Steps, ModeTrue, AttemptSet, ResolveV1, Went
    <2>4. CASE AttemptFails
        BY <2>4, <1>1, NoAttemptType, NoAttemptIdle DEF AttemptFails
    <2> QED
        BY <2>2, <2>3, <2>4, <1>5 DEF FetchNew
<1>6. ASSUME NEW doc \in Served \union {"none", "glitch"}, FetchLegacy(doc) PROVE Steps' /\ ModeTrue'
    <2>1. att.at = "legacy" /\ att.mode # V1 /\ Went /\ doc \in Docs
          /\ UNCHANGED <<explicit, flag, proto>>
        BY <1>6 DEF FetchLegacy, Steps, ConnectAssumption, Docs, Attempt, appVars
    <2>2. CASE att' = [att EXCEPT !.at = "dial", !.doc = doc] /\ ResolveV03(doc)
        <3>1. /\ att' \in AttemptSet /\ att'.at = "dial" /\ att'.doc = "v03"
              /\ att'.mode = att.mode /\ att'.want = att.want /\ att'.skipped = att.skipped
            BY <2>1, <2>2, <1>0 DEF AttemptSet, ResolveV03
        <3> QED
            BY <3>1, <2>1, <2>2 DEF Steps, ModeTrue, AttemptSet, Went
    <2>3. CASE AttemptFails
        BY <2>3, <1>1, NoAttemptType, NoAttemptIdle DEF AttemptFails
    <2> QED
        BY <2>2, <2>3, <1>6 DEF FetchLegacy
<1>7. CASE Dial
    BY <1>7, <1>1, NoAttemptType, NoAttemptIdle DEF Dial, AttemptFails
<1>8. CASE UNCHANGED <<explicit, flag, proto>> /\ (UNCHANGED att \/ att' = NoAttempt)
    <2>1. CASE att' = NoAttempt
        BY <2>1, <1>1, NoAttemptType, NoAttemptIdle
    <2>2. CASE UNCHANGED att
        BY <1>8, <2>2 DEF Steps, ModeTrue, Went
    <2> QED
        BY <1>8, <2>1, <2>2
<1> QED
    BY <1>2, <1>3, <1>4, <1>5, <1>6, <1>7, <1>8, AttemptChanges

\* The connection that Dial makes is what the attempt has learnt.
LEMMA StepConn ==
    ASSUME Steps, SpeaksItsCard, [ConnectNext]_connectVars
    PROVE  SpeaksItsCard'
<1>1. CASE Dial /\ att.doc # "grpc"
    <2>1. /\ att.at = "dial" /\ att.mode \in Modes
          /\ conn' = [url |-> att.url, wire |-> IF att.doc = "v03" THEN V03 ELSE V1,
                      doc |-> att.doc, mode |-> att.mode, skipped |-> att.skipped]
        BY <1>1 DEF Dial, Steps
    <2>2. \/ att.doc \in {"v1", "grpc"} /\ att.mode # V03
          \/ att.doc = "v03" /\ att.mode # V1 /\ Went
        BY <2>1 DEF Steps
    <2>3. /\ conn'.doc = att.doc /\ conn'.mode = att.mode /\ conn'.skipped = att.skipped
          /\ conn'.wire = IF att.doc = "v03" THEN V03 ELSE V1
        BY <2>1
    <2>4. CASE att.doc = "v1" /\ att.mode # V03
        BY <2>1, <2>3, <2>4 DEF SpeaksItsCard, Modes, V1, V03
    <2>5. CASE att.doc = "v03" /\ att.mode # V1 /\ Went
        BY <2>1, <2>3, <2>5 DEF SpeaksItsCard, Modes, Went
    <2> QED
        BY <1>1, <2>2, <2>4, <2>5
<1>2. CASE conn' = None
    BY <1>2 DEF SpeaksItsCard
<1>3. CASE UNCHANGED conn
    BY <1>3 DEF SpeaksItsCard
<1> QED
    BY <1>1, <1>2, <1>3, AttemptChanges
    DEF Launch, StartConnect, Expand, FetchNew, FetchLegacy, Dial, AttemptFails

------------------------------------------------------------------------------
(* The theorems.                                                             *)

LEMMA ConnectInitInv == ConnectAssumption /\ ConnectInit => ConnectInv
<1> SUFFICES ASSUME ConnectAssumption, ConnectInit PROVE ConnectInv
    OBVIOUS
<1>1. WholeFile(Empty) /\ \A n \in Names, u \in Urls : WholeFile(UpsertAgent(Empty, n, [url |-> u, pin |-> ""]))
    <2>1. WholeFile(Empty)
        BY DEF WholeFile, Empty, Files
    <2>2. \A u \in Urls : [url |-> u, pin |-> ""] \in Agents
        BY DEF Agents
    <2> QED
        BY <2>1, <2>2, UpsertWhole
<1>2. FilesWhole
    <2>1. WholeFile(file) /\ WholeFile(durable)
        <3>1. durable = file
            BY DEF ConnectInit
        <3>2. CASE file = Empty
            BY <3>1, <3>2, <1>1
        <3>3. ASSUME NEW n \in Names, NEW u \in Urls, file = UpsertAgent(Empty, n, [url |-> u, pin |-> ""])
              PROVE  WholeFile(file)
            BY <3>3, <1>1
        <3> QED
            BY <3>1, <3>2, <3>3 DEF ConnectInit
    <2> QED
        BY <2>1 DEF ConnectInit, FilesWhole
<1>3. Mode
    BY DEF ConnectInit, Mode, Modes
<1>4. Steps /\ ModeTrue
    BY NoAttemptType, NoAttemptIdle DEF ConnectInit, Steps, ModeTrue, AttemptSet
<1>5. SavesKept /\ SpeaksItsCard
    BY DEF ConnectInit, SavesKept, SpeaksItsCard
<1> QED
    BY <1>2, <1>3, <1>4, <1>5 DEF ConnectInv

LEMMA StepInv == ConnectAssumption /\ ConnectInv /\ [ConnectNext]_connectVars => ConnectInv'
BY StepFiles, StepKept, StepMode, StepAttempt, StepConn DEF ConnectInv

LEMMA SpecInv == ConnectSpec => []ConnectInv
BY ConnectAssumption, ConnectInitInv, StepInv, PTL DEF ConnectSpec

\* However the /agent commands of several programs interleave, fail or are cut short
\* by a crash or a power loss, config.json is a whole file with its default agent in it
\* (Save, writeFile, agentCommand).
THEOREM ConfigIsSound == ConnectSpec => []FileSound
<1>1. ConnectAssumption /\ ConnectInv => FileSound
    <2> SUFFICES ASSUME ConnectAssumption, WholeFile(file) PROVE FileSound
        BY DEF ConnectInv, FilesWhole
    <2>1. file.default # None => file.default \in Names
        BY DEF WholeFile, Files
    <2> QED
        BY <2>1, WholeIsNotTorn DEF FileSound, Agent, WholeFile
<1> QED
    BY ConnectAssumption, <1>1, SpecInv, PTL

\* A save that was reported is in the file until the name is changed again, unless a
\* program that had read the file before commits over it (UpsertAgent, RemoveAgent,
\* SetDefault, Save).
THEOREM ReportedSavesStay == ConnectSpec => []SavesKept
BY SpecInv, PTL DEF ConnectInv

\* The client speaks the protocol of the card that was resolved, within the mode, and
\* falls back to 0.3 only behind a failed 1.x card (Resolve, ResolveV1, ResolveV03,
\* NewConn).
THEOREM DialectOfTheCard == ConnectSpec => []SpeaksItsCard
BY SpecInv, PTL DEF ConnectInv

\* An attempt resolves in the mode the flag or the saved agent asks for (main,
\* expandRef).
THEOREM ModeAsked == ConnectSpec => []ModeTrue
BY SpecInv, PTL DEF ConnectInv
==============================================================================
