------------------------------ MODULE ChatProofs ------------------------------
(* Proofs about ChatTurn, for any tasks and agents, any number of connections  *)
(* and any capacity of the event channel.                                      *)
EXTENDS ChatTurn, SequenceTheorems, FiniteSetTheorems, TLAPS

Distinct(t) == \A i, j \in DOMAIN t : t[i] = t[j] => i = j

\* What a session has published and recorded is about the tasks of its agent, each
\* recorded once; what it has never heard of, the registry does not have.
OwnQueue == \A s \in Sessions : \A i \in DOMAIN queue[s] : queue[s][i].id \in Of(s)
OwnRegistry ==
    \A s \in Sessions :
        /\ \A i \in DOMAIN registry[s] : registry[s][i] \in Of(s) /\ truth[registry[s][i]] # "none"
        /\ Distinct(registry[s])

\* A task RPC is asked of a session that was made, and succeeds for its own tasks.
OwnCalls ==
    \A c \in calls :
        /\ c.at <= made
        /\ c.op = "list" => c.id = NoTask /\ c.got \in {"out", "listed"}
        /\ c.op # "list" => c.id \in Ids /\ c.got # "listed" /\ (c.got \in States => c.id \in Of(c.at))

\* Nothing is known of, or happens to, the tasks of a session before it is made.
Unborn ==
    \A s \in Sessions : s > made =>
        /\ queue[s] = <<>> /\ registry[s] = <<>>
        /\ \A id \in Of(s) : shown[id] = "none" /\ truth[id] = "none"

Sound == TypeOK /\ session <= made /\ OwnQueue /\ OwnRegistry /\ OwnCalls /\ Unborn

\* The last word that is on its way about a task is the truth, or will fetch it.
IsLast(q, i)   == \A j \in DOMAIN q : j > i => q[j].id # q[i].id
Word(q, id, state) ==
    \E i \in DOMAIN q : /\ q[i].id = id /\ IsLast(q, i)
                        /\ q[i].kind = "compacted" \/ q[i].state = state
Silent(q, id)  == \A i \in DOMAIN q : q[i].id # id
Fetching(id)   == \E c \in calls : c.id = id /\ c.at = Owner[id]
LastWord(id) ==
    \/ id \in unsure \cup dropped
    \/ Word(queue[Owner[id]], id, truth[id])
    \/ Silent(queue[Owner[id]], id) /\ (shown[id] = truth[id] \/ Fetching(id))
LastWords == session # None => \A id \in Of(session) : LastWord(id)

Inv == Sound /\ OwnState /\ PendingIsOpen /\ DashboardCurrent /\ SavesAgentInUse /\ LastWords

------------------------------------------------------------------------------
(* The registry's list.                                                      *)

\* entry: the list without a task has the other rows, each once still.
LEMMA WithoutRow ==
    ASSUME NEW S, NEW t \in Seq(S), NEW id, Distinct(t)
    PROVE  /\ Without(t, id) \in Seq(S)
           /\ \A i \in DOMAIN Without(t, id) :
                 /\ Without(t, id)[i] # id
                 /\ \E j \in DOMAIN t : Without(t, id)[i] = t[j]
           /\ Distinct(Without(t, id))
<1>1. DOMAIN t = 1..Len(t) /\ Len(t) \in Nat /\ \A i \in 1..Len(t) : t[i] \in S
    BY LenProperties, ElementOfSeq
<1>2. CASE id \notin Range(t)
    <2>1. Without(t, id) = t
        BY <1>2 DEF Without
    <2> QED
        BY <2>1, <1>2, <1>1 DEF Range, Distinct
<1>3. CASE id \in Range(t)
    <2> DEFINE k == CHOOSE i \in DOMAIN t : t[i] = id
               a == SubSeq(t, 1, k - 1)
               b == SubSeq(t, k + 1, Len(t))
               w == Without(t, id)
    <2>1. k \in 1..Len(t) /\ t[k] = id
        BY <1>3, <1>1 DEF Range
    <2>2. w = a \o b
        BY <1>3 DEF Without, RemoveAt
    <2> HIDE DEF k, w
    <2>3. /\ a \in Seq(S) /\ Len(a) = k - 1
          /\ \A i \in 1..(k - 1) : a[i] = t[i]
        <3>1. \A i \in 1..(k - 1) : t[i] \in S
            BY <2>1, <1>1
        <3>2. /\ a \in Seq(S) /\ Len(a) = IF 1 <= k - 1 THEN (k - 1) - 1 + 1 ELSE 0
              /\ \A i \in 1..((k - 1) - 1 + 1) : a[i] = t[1 + i - 1]
            BY <3>1, <2>1, SubSeqProperties
        <3> QED
            BY <3>2, <2>1
    <2>4. /\ b \in Seq(S) /\ Len(b) = Len(t) - k
          /\ \A i \in 1..(Len(t) - k) : b[i] = t[k + i]
        <3>1. \A i \in (k + 1)..Len(t) : t[i] \in S
            BY <2>1, <1>1
        <3>2. /\ b \in Seq(S) /\ Len(b) = IF k + 1 <= Len(t) THEN Len(t) - (k + 1) + 1 ELSE 0
              /\ \A i \in 1..(Len(t) - (k + 1) + 1) : b[i] = t[(k + 1) + i - 1]
            BY <3>1, <2>1, <1>1, SubSeqProperties
        <3> HIDE DEF b
        <3>3. Len(b) = Len(t) - k
            <4>1. \A n \in Nat : \A m \in 1..n : (IF m + 1 <= n THEN n - (m + 1) + 1 ELSE 0) = n - m
                OBVIOUS
            <4> QED
                BY <4>1, <3>2, <2>1, <1>1
        <3>4. ASSUME NEW i \in 1..(Len(t) - k) PROVE b[i] = t[k + i]
            <4>1. i \in 1..(Len(t) - (k + 1) + 1) /\ (k + 1) + i - 1 = k + i
                BY <2>1, <1>1
            <4> QED
                BY <4>1, <3>2
        <3> QED
            BY <3>2, <3>3, <3>4
    <2> HIDE DEF a, b
    <2>5. /\ w \in Seq(S) /\ Len(w) = Len(t) - 1 /\ DOMAIN w = 1..(Len(t) - 1)
          /\ \A i \in 1..(Len(t) - 1) : w[i] = IF i < k THEN t[i] ELSE t[i + 1]
        <3>1. /\ w \in Seq(S) /\ Len(w) = Len(a) + Len(b)
              /\ \A i \in 1..(Len(a) + Len(b)) : w[i] = IF i <= Len(a) THEN a[i] ELSE b[i - Len(a)]
            BY <2>2, <2>3, <2>4, ConcatProperties
        <3>2. Len(w) = Len(t) - 1 /\ DOMAIN w = 1..(Len(t) - 1)
            BY <3>1, <2>3, <2>4, <2>1, <1>1, LenProperties
        <3>3. ASSUME NEW i \in 1..(Len(t) - 1)
              PROVE  w[i] = IF i < k THEN t[i] ELSE t[i + 1]
            <4>0. w[i] = IF i <= Len(a) THEN a[i] ELSE b[i - Len(a)]
                <5>1. Len(a) + Len(b) = Len(t) - 1
                    BY <2>3, <2>4, <2>1, <1>1
                <5> QED
                    BY <5>1, <3>1
            <4>1. CASE i < k
                <5>1. i \in 1..(k - 1) /\ i <= Len(a)
                    BY <4>1, <2>1, <2>3
                <5> QED
                    BY <5>1, <4>0, <4>1, <2>3
            <4>2. CASE ~(i < k)
                <5>1. i - (k - 1) \in 1..(Len(t) - k) /\ k + (i - (k - 1)) = i + 1
                    BY <4>2, <2>1, <1>1
                <5>2. w[i] = b[i - (k - 1)]
                    BY <4>2, <4>0, <2>3, <2>1
                <5> QED
                    BY <5>1, <5>2, <4>2, <2>4
            <4> QED
                BY <4>1, <4>2
        <3> QED
            BY <3>1, <3>2, <3>3
    <2>6. \A i \in DOMAIN t : t[i] = id => i = k
        BY <2>1, <1>1 DEF Distinct
    <2>7. \A i \in DOMAIN w : w[i] # id /\ \E j \in DOMAIN t : w[i] = t[j]
        <3> SUFFICES ASSUME NEW i \in 1..(Len(t) - 1)
                     PROVE  w[i] # id /\ \E j \in DOMAIN t : w[i] = t[j]
            BY <2>5
        <3>1. i \in DOMAIN t /\ i + 1 \in DOMAIN t
            BY <1>1
        <3>2. CASE i < k
            BY <3>2, <3>1, <2>5, <2>6, <2>1
        <3>3. CASE ~(i < k)
            <4>1. i + 1 # k
                BY <3>3, <2>1
            <4> QED
                BY <4>1, <3>3, <3>1, <2>5, <2>6
        <3> QED
            BY <3>2, <3>3
    <2>8. Distinct(w)
        <3> SUFFICES ASSUME NEW i \in 1..(Len(t) - 1), NEW j \in 1..(Len(t) - 1), w[i] = w[j]
                     PROVE  i = j
            BY <2>5 DEF Distinct
        <3> DEFINE f(x) == IF x < k THEN x ELSE x + 1
        <3>1. w[i] = t[f(i)] /\ w[j] = t[f(j)]
            BY <2>5
        <3>2. f(i) \in DOMAIN t /\ f(j) \in DOMAIN t
            BY <1>1
        <3>3. f(i) = f(j)
            BY <3>1, <3>2 DEF Distinct
        <3> QED
            BY <3>3, <2>1
    <2> QED
        BY <2>5, <2>7, <2>8 DEF w
<1> QED
    BY <1>2, <1>3

\* Observe: the task is in the list, which has no other task than before, each once.
LEMMA ObserveRow ==
    ASSUME NEW S, NEW t \in Seq(S), NEW id \in S, Distinct(t)
    PROVE  /\ Observe(t, id) \in Seq(S)
           /\ \A i \in DOMAIN Observe(t, id) :
                 Observe(t, id)[i] = id \/ \E j \in DOMAIN t : Observe(t, id)[i] = t[j]
           /\ Distinct(Observe(t, id))
<1> DEFINE u == <<id>>
           w == Without(t, id)
           o == Observe(t, id)
<1>1. /\ w \in Seq(S) /\ Distinct(w)
      /\ \A i \in DOMAIN w : w[i] # id /\ \E j \in DOMAIN t : w[i] = t[j]
    BY WithoutRow
<1>2. u \in Seq(S) /\ Len(u) = 1 /\ u[1] = id
    OBVIOUS
<1>3. Len(w) \in Nat /\ DOMAIN w = 1..Len(w)
    BY <1>1, LenProperties
<1>4. o = u \o w
    BY DEF Observe
<1> HIDE DEF u, w, o
<1>5. /\ o \in Seq(S) /\ DOMAIN o = 1..(Len(w) + 1)
      /\ \A i \in 1..(Len(w) + 1) : o[i] = IF i <= 1 THEN u[i] ELSE w[i - 1]
    <2>1. /\ o \in Seq(S) /\ Len(o) = Len(u) + Len(w)
          /\ \A i \in 1..(Len(u) + Len(w)) : o[i] = IF i <= Len(u) THEN u[i] ELSE w[i - Len(u)]
        BY ZenonT(40), <1>4, <1>1, <1>2, ConcatProperties
    <2>2. Len(u) + Len(w) = Len(w) + 1
        BY <1>2, <1>3
    <2>3. DOMAIN o = 1..Len(o)
        BY <2>1, LenProperties
    <2> QED
        BY <2>1, <2>2, <2>3, <1>2
<1>6. \A i \in DOMAIN o : (i = 1 /\ o[i] = id) \/ (i - 1 \in DOMAIN w /\ o[i] = w[i - 1])
    <2> SUFFICES ASSUME NEW i \in 1..(Len(w) + 1)
                 PROVE  (i = 1 /\ o[i] = id) \/ (i - 1 \in DOMAIN w /\ o[i] = w[i - 1])
        BY <1>5
    <2>1. o[i] = IF i <= 1 THEN u[i] ELSE w[i - 1]
        BY <1>5
    <2>2. CASE i = 1
        BY <2>1, <2>2, <1>2
    <2>3. CASE i # 1
        BY <2>1, <2>3, <1>3
    <2> QED
        BY <2>2, <2>3
<1>7. Distinct(o)
    <2> SUFFICES ASSUME NEW i \in DOMAIN o, NEW j \in DOMAIN o, o[i] = o[j]
                 PROVE  i = j
        BY DEF Distinct
    <2>1. i \in Int /\ j \in Int
        BY <1>5
    <2>2. CASE i = 1
        BY <2>2, <1>6, <1>1
    <2>3. CASE j = 1
        BY <2>3, <1>6, <1>1
    <2>4. CASE i # 1 /\ j # 1
        <3>1. i - 1 = j - 1
            BY <2>4, <1>6, <1>1 DEF Distinct
        <3> QED
            BY <3>1, <2>1
    <2> QED
        BY <2>2, <2>3, <2>4
<1>8. \A i \in DOMAIN o : o[i] = id \/ \E j \in DOMAIN t : o[i] = t[j]
    BY <1>6, <1>1
<1> QED
    BY <1>5, <1>7, <1>8 DEF o

\* What ListTasks returned: the agent's tasks, each once.
LEMMA ListedRows ==
    ASSUME ChatAssumption, NEW s, NEW t \in ObserveAll(s)
    PROVE  /\ t \in Seq(Ids) /\ Distinct(t)
           /\ \A i \in DOMAIN t : t[i] \in Of(s) /\ truth[t[i]] # "none"
<1> DEFINE T == {id \in Of(s) : truth[id] # "none"}
<1>1. T \in SUBSET Ids
    BY DEF Of
<1>2. IsFiniteSet(T)
    BY <1>1, FS_Subset DEF ChatAssumption
<1>3. Cardinality(T) \in Nat
    BY <1>2, FS_CardinalityType
<1>4. /\ t \in [1..Cardinality(T) -> T]
      /\ \A i, j \in 1..Cardinality(T) : i # j => t[i] # t[j]
    BY DEF ObserveAll, SetToSeqs
<1>5. t \in Seq(T)
    BY <1>3, <1>4, SeqDef
<1>6. t \in Seq(Ids)
    BY <1>5, <1>1, SeqMonotonic
<1>7. DOMAIN t = 1..Cardinality(T)
    BY <1>4
<1> QED
    BY <1>4, <1>6, <1>7 DEF Distinct

------------------------------------------------------------------------------
(* A session's queue of events.                                              *)

About(q, T) == \A i \in DOMAIN q : q[i].id \in T

LEMMA Published ==
    ASSUME NEW q \in Seq(Entries), NEW e \in Entries, NEW T, About(q, T), e.id \in T
    PROVE  /\ Append(q, e) \in Seq(Entries) /\ Append(q, e) # <<>>
           /\ About(Append(q, e), T)
<1>1. /\ Append(q, e) \in Seq(Entries) /\ Append(q, e) # <<>>
      /\ Len(Append(q, e)) = Len(q) + 1
      /\ \A i \in 1..Len(q) : Append(q, e)[i] = q[i]
      /\ Append(q, e)[Len(q) + 1] = e
    BY AppendProperties
<1>2. /\ Len(q) \in Nat /\ DOMAIN q = 1..Len(q)
      /\ DOMAIN Append(q, e) = 1..(Len(q) + 1)
    BY <1>1, LenProperties
<1>3. ASSUME NEW i \in 1..(Len(q) + 1) PROVE Append(q, e)[i].id \in T
    BY <1>1, <1>2 DEF About
<1> QED
    BY <1>1, <1>2, <1>3 DEF About

LEMMA Received ==
    ASSUME NEW q \in Seq(Entries), q # <<>>
    PROVE  /\ 1 \in DOMAIN q /\ Head(q) = q[1] /\ Head(q) \in Entries
           /\ Tail(q) \in Seq(Entries)
           /\ \A i \in DOMAIN Tail(q) : i \in Nat \ {0} /\ i + 1 \in DOMAIN q /\ Tail(q)[i] = q[i + 1]
           /\ \A i \in DOMAIN q : i # 1 => i - 1 \in DOMAIN Tail(q) /\ Tail(q)[i - 1] = q[i]
<1>1. Len(q) \in Nat \ {0} /\ DOMAIN q = 1..Len(q)
    BY EmptySeq, LenProperties
<1>2. /\ Head(q) \in Entries /\ Tail(q) \in Seq(Entries)
      /\ Len(Tail(q)) = Len(q) - 1
      /\ \A i \in 1..Len(Tail(q)) : Tail(q)[i] = q[i + 1]
    BY HeadTailProperties
<1>3. DOMAIN Tail(q) = 1..(Len(q) - 1)
    BY <1>2, LenProperties
<1>4. Head(q) = q[1]
    OBVIOUS
<1> QED
    BY <1>1, <1>2, <1>3, <1>4

\* A retired session's queue holds nothing but what its listener held.
LEMMA RetiredShape ==
    ASSUME queue \in [Sessions -> Seq(Entries)]
    PROVE  /\ Retired \in [Sessions -> Seq(Entries)]
           /\ OwnQueue => \A s \in Sessions : About(Retired[s], Of(s))
           /\ \A s \in Sessions : queue[s] = <<>> => Retired[s] = <<>>
<1>1. ASSUME NEW s \in Sessions, queue[s] # <<>>
      PROVE  /\ <<Head(queue[s])>> \in Seq(Entries)
             /\ OwnQueue => About(<<Head(queue[s])>>, Of(s))
    <2>1. 1 \in DOMAIN queue[s] /\ Head(queue[s]) = queue[s][1] /\ Head(queue[s]) \in Entries
        BY <1>1, Received
    <2>2. DOMAIN <<Head(queue[s])>> = {1} /\ <<Head(queue[s])>>[1] = Head(queue[s])
        OBVIOUS
    <2> QED
        BY <2>1, <2>2 DEF OwnQueue, About
<1>2. ASSUME NEW s \in Sessions
      PROVE  /\ Retired[s] \in Seq(Entries)
             /\ OwnQueue => About(Retired[s], Of(s))
             /\ queue[s] = <<>> => Retired[s] = <<>>
    <2>1. CASE s = session /\ queue[s] # <<>>
        BY <2>1, <1>1 DEF Retired
    <2>2. CASE ~(s = session /\ queue[s] # <<>>)
        BY <2>2 DEF Retired, OwnQueue, About
    <2> QED
        BY <2>1, <2>2
<1>3. DOMAIN Retired = Sessions
    BY DEF Retired
<1> QED
    BY <1>2, <1>3 DEF Retired

------------------------------------------------------------------------------
(* Types.                                                                    *)

LEMMA NoneIsNoSession == None \notin Sessions /\ \A s \in Sessions : s \in Nat
BY DEF None, Sessions

LEMMA SessionInUse ==
    ASSUME ChatAssumption, session \in 0..MaxSessions, session # None
    PROVE  session \in Sessions
BY DEF None, Sessions, ChatAssumption

\* Sync keeps rows of tasks, and a cursor.
LEMMA SyncTypes ==
    ASSUME ChatAssumption, TypeOK, Sync
    PROVE  list' \in Seq(Ids) /\ cursor' \in Int
<1>1. CASE session = None
    BY <1>1 DEF Sync, TypeOK
<1>2. CASE session # None
    <2>1. registry[session] \in Seq(Ids)
        BY <1>2, SessionInUse DEF TypeOK
    <2>2. Len(registry[session]) \in Nat
        BY <2>1, LenProperties
    <2>3. Clamped(registry[session]) \in Int
        BY <2>2 DEF Clamped, TypeOK
    <2> QED
        BY <1>2, <2>1, <2>3 DEF Sync
<1> QED
    BY <1>1, <1>2

LEMMA NewCall ==
    ASSUME ChatAssumption, TypeOK, session # None, NEW o \in Ops, NEW id \in Ids \cup {NoTask}
    PROVE  Call(o, id) \in [op : Ops, id : Ids \cup {NoTask}, at : Sessions,
                             got : States \cup {"out", "error", "listed"}]
BY SessionInUse DEF Call, TypeOK

LEMMA SelectedType ==
    ASSUME TypeOK PROVE Selected \in Ids \cup {NoTask}
<1>1. \A i \in DOMAIN list : list[i] \in Ids
    BY LenProperties, ElementOfSeq DEF TypeOK
<1> QED
    BY <1>1 DEF Selected

\* Every operation keeps the types.
LEMMA StepTypes ==
    ASSUME ChatAssumption, Sound, [Next]_vars
    PROVE  TypeOK'
<1> USE DEF connection, chat, dashboard, agentSide
<1>0. TypeOK
    BY DEF Sound
<1>1. ASSUME NEW id \in Ids, NEW state \in States \ {"none"}, Observed(id, state)
      PROVE  TypeOK'
    <2>1. session \in Sessions
        BY <1>0, <1>1, SessionInUse DEF TypeOK, Observed
    <2>2. updates' \in 0..MaxUpdates
        BY <1>0, <1>1 DEF TypeOK, Observed, ChatAssumption
    <2>3. registry' \in [Sessions -> Seq(Ids)]
        <3>1. Observe(registry[session], id) \in Seq(Ids)
            BY <1>0, <2>1, ObserveRow DEF TypeOK, Sound, OwnRegistry
        <3> QED
            BY <3>1, <1>0, <1>1 DEF TypeOK, Observed
    <2>4. queue' \in [Sessions -> Seq(Entries)] /\ dropped' \subseteq Ids
        <3>1. Update(id, state) \in Entries
            BY DEF Update, Entries
        <3>2. Append(queue[session], Update(id, state)) \in Seq(Entries)
            BY <3>1, <2>1, <1>0, AppendProperties DEF TypeOK
        <3> QED
            BY ZenonT(40), <3>2, <1>0, <1>1 DEF TypeOK, Observed
    <2>5. truth' \in [Ids -> States]
        BY <1>0, <1>1 DEF TypeOK, Observed
    <2> QED
        BY <1>0, <1>1, <2>2, <2>3, <2>4, <2>5 DEF TypeOK, Observed
<1>2. ASSUME NEW id \in Ids, ReportDropped(id)
      PROVE  TypeOK'
    <2>1. session \in Sessions
        BY <1>0, <1>2, SessionInUse DEF TypeOK, ReportDropped
    <2>2. Compacted(id) \in Entries
        BY DEF Compacted, Entries, States
    <2>3. Append(queue[session], Compacted(id)) \in Seq(Entries)
        BY <2>1, <2>2, <1>0, AppendProperties DEF TypeOK
    <2> QED
        BY <2>3, <1>0, <1>2 DEF TypeOK, ReportDropped
<1>3. ASSUME NEW c \in calls, Answer(c)
      PROVE  TypeOK'
    <2>1. /\ c.id \in Ids \cup {NoTask}
          /\ c \in [op : Ops, id : Ids \cup {NoTask}, at : Sessions,
                    got : States \cup {"out", "error", "listed"}]
        BY <1>0 DEF TypeOK
    <2>2. PICK got \in {"error"} \cup (IF c.id \in Of(c.at) THEN States \ {"none"} ELSE {}) :
              /\ calls' = (calls \ {c}) \cup {[c EXCEPT !.got = got]}
              /\ \/ got = "error" /\ UNCHANGED <<truth, unsure>>
                 \/ /\ c.op = "cancel" /\ got = "done" /\ truth[c.id] \notin {"none", "done"}
                    /\ truth' = [truth EXCEPT ![c.id] = "done"]
                    /\ unsure' = unsure \cup {c.id}
                 \/ c.op # "cancel" /\ got = truth[c.id] /\ UNCHANGED <<truth, unsure>>
        BY <1>3 DEF Answer
    <2>3. got \in States \cup {"out", "error", "listed"}
        BY DEF States
    <2>4. [c EXCEPT !.got = got] \in [op : Ops, id : Ids \cup {NoTask}, at : Sessions,
                                     got : States \cup {"out", "error", "listed"}]
        BY <2>1, <2>3
    <2>5. got # "error" => c.id \in Ids
        BY DEF Of
    <2>6. truth' \in [Ids -> States] /\ unsure' \subseteq Ids
        BY <2>2, <2>5, <1>0 DEF TypeOK, States
    <2> QED
        BY <2>2, <2>4, <2>6, <1>0, <1>3 DEF TypeOK, Answer
<1>4. ASSUME NEW c \in calls, AnswerList(c)
      PROVE  TypeOK'
    <2>1. c \in [op : Ops, id : Ids \cup {NoTask}, at : Sessions,
                 got : States \cup {"out", "error", "listed"}]
        BY <1>0 DEF TypeOK
    <2>2. [c EXCEPT !.got = "listed"] \in [op : Ops, id : Ids \cup {NoTask}, at : Sessions,
                                          got : States \cup {"out", "error", "listed"}]
        BY <2>1
    <2>3. registry' \in [Sessions -> Seq(Ids)]
        <3>1. \A t \in ObserveAll(c.at) : t \in Seq(Ids)
            BY ListedRows
        <3> QED
            BY <3>1, <1>0, <1>4 DEF TypeOK, AnswerList
    <2> QED
        BY <2>2, <2>3, <1>0, <1>4 DEF TypeOK, AnswerList
<1>5. ASSUME NEW s \in Sessions, TaskUpdated(s)
      PROVE  TypeOK'
    <2> DEFINE e == Head(queue[s])
    <2>1. queue[s] \in Seq(Entries) /\ queue[s] # <<>>
        BY <1>0, <1>5 DEF TypeOK, TaskUpdated
    <2>2. e \in Entries /\ Tail(queue[s]) \in Seq(Entries)
        BY <2>1, Received
    <2>3. queue' \in [Sessions -> Seq(Entries)]
        BY <2>2, <1>0, <1>5 DEF TypeOK, TaskUpdated
    <2>4. e.id \in Ids /\ e.state \in States
        BY <2>2 DEF Entries
    <2> HIDE DEF e
    <2>5. shown' \in [Ids -> States] /\ lastTask' \in Ids
        BY <2>4, <1>0, <1>5 DEF TypeOK, TaskUpdated, e
    <2>6. pending' \in Ids \cup {NoTask}
        BY <2>4, <1>0, <1>5 DEF TypeOK, TaskUpdated, ReplyAfter, e
    <2>7. asked' \subseteq Ids /\ unsure' \subseteq Ids
        BY <2>4, <1>0, <1>5 DEF TypeOK, TaskUpdated, e
    <2>8. late' \in BOOLEAN
        BY <1>5 DEF TaskUpdated, Late
    <2>9. list' \in Seq(Ids) /\ cursor' \in Int
        BY <1>0, <1>5, SyncTypes DEF TaskUpdated
    <2> QED
        BY <2>3, <2>5, <2>6, <2>7, <2>8, <2>9, <1>0, <1>5 DEF TypeOK, TaskUpdated
<1>6. ASSUME NEW s \in Sessions, StreamCompacted(s)
      PROVE  TypeOK'
    <2>1. queue[s] \in Seq(Entries) /\ queue[s] # <<>>
        BY <1>0, <1>6 DEF TypeOK, StreamCompacted
    <2>2. Head(queue[s]) \in Entries /\ Tail(queue[s]) \in Seq(Entries)
        BY <2>1, Received
    <2>3. queue' \in [Sessions -> Seq(Entries)]
        BY <2>2, <1>0, <1>6 DEF TypeOK, StreamCompacted
    <2>4. calls' \subseteq [op : Ops, id : Ids \cup {NoTask}, at : Sessions,
                           got : States \cup {"out", "error", "listed"}]
        <3>1. Head(queue[s]).id \in Ids
            BY <2>2 DEF Entries
        <3>2. CASE session = None
            BY <3>2, <1>0, <1>6 DEF TypeOK, StreamCompacted
        <3>3. CASE session # None
            <4>1. Call("get", Head(queue[s]).id) \in [op : Ops, id : Ids \cup {NoTask}, at : Sessions,
                                                     got : States \cup {"out", "error", "listed"}]
                BY <3>1, <3>3, <1>0, NewCall DEF Ops
            <4>2. calls' = calls \cup {Call("get", Head(queue[s]).id)}
                BY <3>3, <1>6 DEF StreamCompacted
            <4> QED
                BY <4>1, <4>2, <1>0 DEF TypeOK
        <3> QED
            BY <3>2, <3>3
    <2>5. late' \in BOOLEAN
        BY <1>6 DEF StreamCompacted, Late
    <2>6. list' \in Seq(Ids) /\ cursor' \in Int
        BY <1>0, <1>6, SyncTypes DEF StreamCompacted
    <2> QED
        BY <2>3, <2>4, <2>5, <2>6, <1>0, <1>6 DEF TypeOK, StreamCompacted
<1>7. ASSUME NEW c \in calls, TaskResult(c)
      PROVE  TypeOK'
    <2>1. /\ c.got \in States \cup {"out", "error", "listed"}
          /\ c.got \in States => c.id \in Ids
          /\ c.got # "listed" /\ c.got # "out"
          /\ c.id \in Ids
        BY <1>7 DEF Sound, TypeOK, OwnCalls, Of, TaskResult
    <2>2. late' \in BOOLEAN
        BY <1>7 DEF TaskResult, Late
    <2>3. CASE c.got = "error"
        BY <2>1, <2>2, <2>3, <1>0, <1>7 DEF TypeOK, TaskResult
    <2>4. CASE c.got # "error"
        <3>1. c.got \in States /\ c.id \in Ids
            BY <2>1, <2>4
        <3>2. list' \in Seq(Ids) /\ cursor' \in Int
            BY <2>4, <1>0, <1>7, SyncTypes DEF TaskResult
        <3>3. shown' \in [Ids -> States] /\ unsure' \subseteq Ids
            BY <2>4, <3>1, <1>0, <1>7 DEF TypeOK, TaskResult
        <3> QED
            BY <2>2, <2>4, <3>1, <3>2, <3>3, <1>0, <1>7 DEF TypeOK, TaskResult
    <2> QED
        BY <2>3, <2>4
<1>8. ASSUME NEW c \in calls, TasksRefreshed(c)
      PROVE  TypeOK'
    <2>1. list' \in Seq(Ids) /\ cursor' \in Int
        BY <1>0, <1>8, SyncTypes DEF TasksRefreshed
    <2> QED
        BY <2>1, <1>0, <1>8 DEF TypeOK, TasksRefreshed
<1>9. CASE Connects
    <2>1. Retired \in [Sessions -> Seq(Entries)]
        BY <1>0, RetiredShape DEF TypeOK
    <2>2. <<>> \in Seq(Ids)
        BY EmptySeq
    <2>3. CASE StartConnect
        BY <2>3, <1>0 DEF TypeOK, StartConnect
    <2>4. CASE ConnectFailed
        <3>1. None \in 0..MaxSessions
            BY DEF None, ChatAssumption
        <3> QED
            BY <3>1, <2>4, <1>0 DEF TypeOK, ConnectFailed
    <2>5. CASE Connected
        <3>1. made + 1 \in 0..MaxSessions
            BY <2>5, <1>0 DEF TypeOK, Connected, ChatAssumption
        <3> QED
            <4>1. made' \in 0..MaxSessions /\ session' \in 0..MaxSessions /\ conn' \in 0..MaxSessions
                BY <3>1, <2>5, <1>0 DEF TypeOK, Connected
            <4>2. list' \in Seq(Ids) /\ cursor' \in Int /\ detail' \in Ids \cup {NoTask}
                BY <2>2, <2>5 DEF Connected, NewTasksPane
            <4>3. queue' \in [Sessions -> Seq(Entries)]
                BY <2>1, <2>5 DEF Connected
            <4> QED
                BY <4>1, <4>2, <4>3, <2>5, <1>0 DEF TypeOK, Connected
    <2>6. CASE Disconnect
        <3>1. None \in 0..MaxSessions
            BY DEF None, ChatAssumption
        <3> QED
            <4>1. made' \in 0..MaxSessions /\ session' \in 0..MaxSessions /\ conn' \in 0..MaxSessions
                BY <3>1, <2>6, <1>0 DEF TypeOK, Disconnect
            <4>2. list' \in Seq(Ids) /\ cursor' \in Int /\ detail' \in Ids \cup {NoTask}
                BY <2>2, <2>6 DEF Disconnect, NewTasksPane
            <4>3. queue' \in [Sessions -> Seq(Entries)]
                BY <2>1, <2>6 DEF Disconnect
            <4> QED
                BY <4>1, <4>2, <4>3, <2>6, <1>0 DEF TypeOK, Disconnect
    <2> QED
        BY <2>3, <2>4, <2>5, <2>6, <1>9 DEF Connects
<1>10. CASE Keys
    <2> DEFINE CallSet == [op : Ops, id : Ids \cup {NoTask}, at : Sessions,
                           got : States \cup {"out", "error", "listed"}]
    <2>1. CASE SendText
        BY <2>1, <1>0 DEF TypeOK, SendText
    <2>2. CASE OpenTasksPane
        <3>1. list' \in Seq(Ids) /\ cursor' \in Int
            BY <2>2, <1>0, SyncTypes DEF OpenTasksPane
        <3> QED
            BY <3>1, <2>2, <1>0 DEF TypeOK, OpenTasksPane
    <2>3. CASE CloseDetail
        BY <2>3, <1>0 DEF TypeOK, CloseDetail
    <2>4. CASE MoveCursor
        <3>1. Len(list) \in Nat
            BY <1>0, LenProperties DEF TypeOK
        <3>2. cursor' \in Int
            BY <3>1, <2>4, <1>0 DEF TypeOK, MoveCursor, ChatAssumption
        <3> QED
            BY <3>2, <2>4, <1>0 DEF TypeOK, MoveCursor
    <2>5. CASE RefreshTasks
        <3>1. Selected \in Ids \cup {NoTask}
            BY <1>0, SelectedType
        <3>2. Call("list", NoTask) \in CallSet /\ Call("get", Selected) \in CallSet
            BY <3>1, <2>5, <1>0, NewCall DEF RefreshTasks, Ops
        <3>3. calls' \subseteq CallSet
            BY <3>2, <2>5, <1>0 DEF TypeOK, RefreshTasks
        <3> QED
            BY <3>3, <2>5, <1>0 DEF TypeOK, RefreshTasks
    <2>6. ASSUME NEW o \in {"get", "cancel"}, ActOnSelected(o) PROVE TypeOK'
        <3>1. Selected \in Ids \cup {NoTask}
            BY <1>0, SelectedType
        <3>2. Call(o, Selected) \in CallSet
            BY <3>1, <2>6, <1>0, NewCall DEF ActOnSelected, Ops
        <3> QED
            BY <3>2, <2>6, <1>0 DEF TypeOK, ActOnSelected
    <2>7. ASSUME NEW o \in {"get", "cancel"}, NEW id \in Ids, TaskCommand(o, id) PROVE TypeOK'
        <3>1. Call(o, id) \in CallSet
            BY <2>7, <1>0, NewCall DEF TaskCommand, Ops
        <3> QED
            BY <3>1, <2>7, <1>0 DEF TypeOK, TaskCommand
    <2> QED
        BY <2>1, <2>2, <2>3, <2>4, <2>5, <2>6, <2>7, <1>10 DEF Keys
<1>11. CASE UNCHANGED vars
    BY <1>11, <1>0 DEF TypeOK, vars
<1> QED
    BY <1>1, <1>2, <1>3, <1>4, <1>5, <1>6, <1>7, <1>8, <1>9, <1>10, <1>11
    DEF Next, SessionSteps, Answers, Events, Results

------------------------------------------------------------------------------
(* What a session says and records is of its own tasks.                      *)

\* The operations by what they change; the rest of the state they leave alone.
LEMMA QueueChanges ==
    ASSUME [Next]_vars
    PROVE  \/ \E id \in Ids, state \in States \ {"none"} : Observed(id, state)
           \/ \E id \in Ids : ReportDropped(id)
           \/ \E s \in Sessions : TaskUpdated(s) \/ StreamCompacted(s)
           \/ Connected \/ Disconnect
           \/ UNCHANGED queue
BY DEF Next, SessionSteps, Answers, Events, Results, Connects, Keys, vars, connection, chat,
       dashboard, agentSide, Observed, ReportDropped, Answer, AnswerList, TaskUpdated,
       StreamCompacted, TaskResult, TasksRefreshed, StartConnect, ConnectFailed, Connected,
       Disconnect, SendText, OpenTasksPane, CloseDetail, MoveCursor, RefreshTasks,
       ActOnSelected, TaskCommand

LEMMA RegistryChanges ==
    ASSUME [Next]_vars
    PROVE  \/ \E id \in Ids, state \in States \ {"none"} : Observed(id, state)
           \/ \E c \in calls : Answer(c) \/ AnswerList(c)
           \/ UNCHANGED <<registry, truth>>
BY DEF Next, SessionSteps, Answers, Events, Results, Connects, Keys, vars, connection, chat,
       dashboard, agentSide, Observed, ReportDropped, Answer, AnswerList, TaskUpdated,
       StreamCompacted, TaskResult, TasksRefreshed, StartConnect, ConnectFailed, Connected,
       Disconnect, SendText, OpenTasksPane, CloseDetail, MoveCursor, RefreshTasks,
       ActOnSelected, TaskCommand

LEMMA ConnectionChanges ==
    ASSUME [Next]_vars
    PROVE  \/ StartConnect \/ ConnectFailed \/ Connected \/ Disconnect
           \/ UNCHANGED connection
BY DEF Next, SessionSteps, Answers, Events, Results, Connects, Keys, vars, connection, chat,
       dashboard, agentSide, Observed, ReportDropped, Answer, AnswerList, TaskUpdated,
       StreamCompacted, TaskResult, TasksRefreshed, StartConnect, ConnectFailed, Connected,
       Disconnect, SendText, OpenTasksPane, CloseDetail, MoveCursor, RefreshTasks,
       ActOnSelected, TaskCommand

LEMMA ReplyChanges ==
    ASSUME [Next]_vars
    PROVE  \/ \E s \in Sessions : TaskUpdated(s)
           \/ SendText \/ Connected \/ Disconnect
           \/ UNCHANGED <<pending, asked>>
BY DEF Next, SessionSteps, Answers, Events, Results, Connects, Keys, vars, connection, chat,
       dashboard, agentSide, Observed, ReportDropped, Answer, AnswerList, TaskUpdated,
       StreamCompacted, TaskResult, TasksRefreshed, StartConnect, ConnectFailed, Connected,
       Disconnect, SendText, OpenTasksPane, CloseDetail, MoveCursor, RefreshTasks,
       ActOnSelected, TaskCommand

LEMMA ShownChanges ==
    ASSUME [Next]_vars
    PROVE  \/ \E s \in Sessions : TaskUpdated(s)
           \/ \E c \in calls : TaskResult(c)
           \/ UNCHANGED shown
BY DEF Next, SessionSteps, Answers, Events, Results, Connects, Keys, vars, connection, chat,
       dashboard, agentSide, Observed, ReportDropped, Answer, AnswerList, TaskUpdated,
       StreamCompacted, TaskResult, TasksRefreshed, StartConnect, ConnectFailed, Connected,
       Disconnect, SendText, OpenTasksPane, CloseDetail, MoveCursor, RefreshTasks,
       ActOnSelected, TaskCommand

\* A step of the calls asks new ones of the session in use, answers one, or hands
\* the result of one to the update loop.
JustAsked(c) == \/ c = Call("list", NoTask)
                \/ \E o \in {"get", "cancel"}, id \in Ids : c = Call(o, id)

LEMMA CallChanges ==
    ASSUME TypeOK, [Next]_vars
    PROVE  \/ session # None /\ \E new : calls' = calls \cup new /\ \A c \in new : JustAsked(c)
           \/ \E c \in calls : Answer(c) \/ AnswerList(c) \/ TaskResult(c) \/ TasksRefreshed(c)
           \/ UNCHANGED calls
<1> DEFINE Asks == session # None /\ \E new : calls' = calls \cup new /\ \A c \in new : JustAsked(c)
<1>1. \/ \E c \in calls : Answer(c) \/ AnswerList(c) \/ TaskResult(c) \/ TasksRefreshed(c)
      \/ \E s \in Sessions : StreamCompacted(s)
      \/ RefreshTasks
      \/ \E o \in {"get", "cancel"} : ActOnSelected(o) \/ \E id \in Ids : TaskCommand(o, id)
      \/ UNCHANGED calls
    BY DEF Next, SessionSteps, Answers, Events, Results, Connects, Keys, vars, connection, chat,
           dashboard, agentSide, Observed, ReportDropped, TaskUpdated, StartConnect,
           ConnectFailed, Connected, Disconnect, SendText, OpenTasksPane, CloseDetail, MoveCursor
<1>2. ASSUME NEW s \in Sessions, StreamCompacted(s) PROVE Asks \/ UNCHANGED calls
    <2>1. queue[s] \in Seq(Entries) /\ queue[s] # <<>>
        BY <1>2 DEF StreamCompacted, TypeOK
    <2>2. Head(queue[s]).id \in Ids
        BY <2>1, Received DEF Entries
    <2>3. CASE session = None
        BY <2>3, <1>2 DEF StreamCompacted
    <2>4. CASE session # None
        <3> DEFINE new == {Call("get", Head(queue[s]).id)}
        <3>1. calls' = calls \cup new
            BY <2>4, <1>2 DEF StreamCompacted
        <3>2. \A c \in new : JustAsked(c)
            BY <2>2 DEF JustAsked
        <3> HIDE DEF new
        <3> QED
            BY <3>1, <3>2, <2>4
    <2> QED
        BY <2>3, <2>4
<1>3. ASSUME RefreshTasks PROVE Asks
    <2> DEFINE new == {Call("list", NoTask)}
                      \cup (IF Selected = NoTask THEN {} ELSE {Call("get", Selected)})
    <2>1. calls' = calls \cup new
        BY <1>3 DEF RefreshTasks
    <2>2. \A c \in new : JustAsked(c)
        BY SelectedType DEF JustAsked
    <2> QED
        BY <2>1, <2>2, <1>3 DEF RefreshTasks
<1>4. ASSUME NEW o \in {"get", "cancel"}, ActOnSelected(o) PROVE Asks
    <2> DEFINE new == {Call(o, Selected)}
    <2>1. calls' = calls \cup new
        BY <1>4 DEF ActOnSelected
    <2>2. \A c \in new : JustAsked(c)
        BY <1>4, SelectedType DEF JustAsked, ActOnSelected
    <2> HIDE DEF new
    <2> QED
        BY <2>1, <2>2, <1>4 DEF ActOnSelected
<1>5. ASSUME NEW o \in {"get", "cancel"}, NEW id \in Ids, TaskCommand(o, id) PROVE Asks
    <2> DEFINE new == {Call(o, id)}
    <2>1. calls' = calls \cup new
        BY <1>5 DEF TaskCommand
    <2>2. \A c \in new : JustAsked(c)
        BY DEF JustAsked
    <2> HIDE DEF new
    <2> QED
        BY <2>1, <2>2, <1>5 DEF TaskCommand
<1> QED
    BY <1>1, <1>2, <1>3, <1>4, <1>5

\* What has been published and not read is of the session's own tasks.
LEMMA StepQueue ==
    ASSUME ChatAssumption, Sound, [Next]_vars
    PROVE  OwnQueue'
<1>0. TypeOK /\ OwnQueue /\ \A s \in Sessions : queue[s] \in Seq(Entries) /\ About(queue[s], Of(s))
    BY DEF Sound, TypeOK, OwnQueue, About
<1>1. ASSUME NEW id \in Ids, NEW e \in Entries, e.id = id, session \in Sessions, id \in Of(session),
             queue' = [queue EXCEPT ![session] = Append(@, e)]
      PROVE  OwnQueue'
    <2>1. About(Append(queue[session], e), Of(session))
        BY <1>0, <1>1, Published
    <2> QED
        BY <2>1, <1>0, <1>1 DEF TypeOK, OwnQueue, About, Of
<1>2. ASSUME NEW id \in Ids, NEW state \in States \ {"none"}, Observed(id, state)
      PROVE  OwnQueue'
    <2>1. session \in Sessions
        BY <1>0, <1>2, SessionInUse DEF TypeOK, Observed
    <2>2. Update(id, state) \in Entries /\ Update(id, state).id = id
        BY DEF Update, Entries
    <2>3. CASE Len(queue[session]) < MaxQueue
        BY <2>1, <2>2, <2>3, <1>1, <1>2 DEF Observed
    <2>4. CASE ~(Len(queue[session]) < MaxQueue)
        BY <2>4, <1>0, <1>2 DEF Observed, OwnQueue, Of
    <2> QED
        BY <2>3, <2>4
<1>3. ASSUME NEW id \in Ids, ReportDropped(id)
      PROVE  OwnQueue'
    <2>1. session \in Sessions /\ id \in Of(session)
        BY <1>0, <1>3, SessionInUse DEF TypeOK, ReportDropped
    <2>2. Compacted(id) \in Entries /\ Compacted(id).id = id
        BY DEF Compacted, Entries, States
    <2> QED
        BY <2>1, <2>2, <1>1, <1>3 DEF ReportDropped
<1>4. ASSUME NEW s \in Sessions, TaskUpdated(s) \/ StreamCompacted(s)
      PROVE  OwnQueue'
    <2>1. queue[s] # <<>> /\ queue' = [queue EXCEPT ![s] = Tail(@)]
        BY <1>4 DEF TaskUpdated, StreamCompacted
    <2>2. About(Tail(queue[s]), Of(s))
        BY <1>0, <2>1, Received DEF About
    <2> QED
        BY <2>1, <2>2, <1>0 DEF TypeOK, OwnQueue, About, Of
<1>5. ASSUME queue' = Retired PROVE OwnQueue'
    BY <1>5, <1>0, RetiredShape DEF TypeOK, OwnQueue, About, Of
<1>6. CASE UNCHANGED queue
    BY <1>6, <1>0 DEF OwnQueue, Of
<1> QED
    BY <1>2, <1>3, <1>4, <1>5, <1>6, QueueChanges DEF Connected, Disconnect

\* The registry has the session's own tasks, each once, and none that the agent
\* has not spoken of.
LEMMA StepRegistry ==
    ASSUME ChatAssumption, Sound, [Next]_vars
    PROVE  OwnRegistry'
<1>0. TypeOK /\ OwnRegistry /\ OwnCalls
    BY DEF Sound
<1> DEFINE Row(t, s) == \A i \in DOMAIN t : t[i] \in Of(s) /\ truth[t[i]] # "none"
<1>1. ASSUME NEW id \in Ids, NEW state \in States \ {"none"}, Observed(id, state)
      PROVE  OwnRegistry'
    <2>1. session \in Sessions /\ id \in Of(session)
        BY <1>0, <1>1, SessionInUse DEF TypeOK, Observed
    <2>2. \A x \in Ids : truth'[x] = IF x = id THEN state ELSE truth[x]
        BY <1>0, <1>1 DEF TypeOK, Observed
    <2>3. registry[session] \in Seq(Ids) /\ Distinct(registry[session])
        BY <2>1, <1>0 DEF TypeOK, OwnRegistry
    <2> DEFINE o == Observe(registry[session], id)
    <2>4. /\ \A i \in DOMAIN o : o[i] = id \/ \E j \in DOMAIN registry[session] : o[i] = registry[session][j]
          /\ Distinct(o)
        BY <2>3, ObserveRow
    <2> HIDE DEF o
    <2>5. \A s \in Sessions : registry'[s] = IF s = session THEN o ELSE registry[s]
        BY <1>0, <1>1 DEF TypeOK, Observed, o
    <2>6. ASSUME NEW s \in Sessions, NEW i \in DOMAIN registry'[s]
          PROVE  registry'[s][i] \in Of(s) /\ truth'[registry'[s][i]] # "none"
        <3>1. registry'[s][i] \in Of(s)
                /\ (registry'[s][i] # id => truth[registry'[s][i]] # "none")
            BY <2>1, <2>4, <2>5, <1>0 DEF OwnRegistry
        <3>2. registry'[s][i] \in Ids
            BY <3>1 DEF Of
        <3> QED
            BY <3>1, <3>2, <2>2
    <2>7. \A s \in Sessions : Distinct(registry'[s])
        BY <2>4, <2>5, <1>0 DEF OwnRegistry
    <2> QED
        BY <2>6, <2>7 DEF OwnRegistry, Of, Distinct
<1>2. ASSUME NEW c \in calls, Answer(c)
      PROVE  OwnRegistry'
    <2>1. registry' = registry
        BY <1>2 DEF Answer
    <2>2. \A x \in Ids : truth[x] # "none" => truth'[x] # "none"
        BY <1>2, <1>0 DEF Answer, TypeOK
    <2> QED
        BY <2>1, <2>2, <1>0 DEF OwnRegistry, Of, Distinct
<1>3. ASSUME NEW c \in calls, AnswerList(c)
      PROVE  OwnRegistry'
    <2>1. truth' = truth
        BY <1>3 DEF AnswerList
    <2>2. CASE UNCHANGED registry
        BY <2>1, <2>2, <1>0 DEF OwnRegistry, Of, Distinct
    <2>3. ASSUME NEW t \in ObserveAll(c.at), registry' = [registry EXCEPT ![c.at] = t]
          PROVE  OwnRegistry'
        <3>1. Distinct(t) /\ \A i \in DOMAIN t : t[i] \in Of(c.at) /\ truth[t[i]] # "none"
            BY ListedRows
        <3>2. \A s \in Sessions : registry'[s] = IF s = c.at THEN t ELSE registry[s]
            BY <2>3, <1>0 DEF TypeOK
        <3> QED
            BY <3>1, <3>2, <2>1, <1>0 DEF OwnRegistry, Of, Distinct
    <2> QED
        BY <2>2, <2>3, <1>3 DEF AnswerList
<1>4. CASE UNCHANGED <<registry, truth>>
    BY <1>4, <1>0 DEF OwnRegistry, Of, Distinct
<1> QED
    BY <1>1, <1>2, <1>3, <1>4, RegistryChanges

\* Sessions are made in turn, and the one in use is one of them.
LEMMA StepSession ==
    ASSUME ChatAssumption, Sound, [Next]_vars
    PROVE  session' <= made' /\ made <= made' /\ made' \in Nat
<1>0. session \in Nat /\ made \in Nat /\ session <= made
    BY DEF Sound, TypeOK, ChatAssumption
<1>1. CASE Connected
    BY <1>0, <1>1 DEF Connected
<1>2. CASE Disconnect
    BY <1>0, <1>2 DEF Disconnect, None
<1>3. CASE StartConnect \/ ConnectFailed \/ UNCHANGED connection
    BY <1>0, <1>3 DEF connection, StartConnect, ConnectFailed
<1> QED
    BY <1>1, <1>2, <1>3, ConnectionChanges

\* A task RPC is of a session that was made, and tells of its tasks alone.
LEMMA StepCalls ==
    ASSUME ChatAssumption, Sound, [Next]_vars
    PROVE  OwnCalls'
<1> DEFINE Proper(c) ==
        /\ c.at <= made
        /\ c.op = "list" => c.id = NoTask /\ c.got \in {"out", "listed"}
        /\ c.op # "list" => c.id \in Ids /\ c.got # "listed" /\ (c.got \in States => c.id \in Of(c.at))
<1>0. TypeOK /\ session <= made /\ \A c \in calls : Proper(c)
    BY DEF Sound, OwnCalls
<1>1. made \in Nat /\ made' \in Nat /\ made <= made'
    BY <1>0, StepSession DEF TypeOK, ChatAssumption
<1>2. \A c \in calls : c.at \in Nat /\ c.op \in Ops
    BY SMTT(30), <1>0 DEF TypeOK, Sessions
<1>3. ASSUME \A c \in calls' : c.at \in Nat /\ Proper(c)
      PROVE  OwnCalls'
    BY <1>1, <1>3 DEF OwnCalls, Of
<1>4. ASSUME session # None, NEW new, calls' = calls \cup new, \A c \in new : JustAsked(c)
      PROVE  OwnCalls'
    <2>1. \A o, id : /\ Call(o, id).op = o /\ Call(o, id).id = id
                     /\ Call(o, id).at = session /\ Call(o, id).got = "out"
        BY DEF Call
    <2>2. session \in Nat
        BY <1>0 DEF TypeOK
    <2>3. \A c \in new : c.at \in Nat /\ Proper(c)
        BY <2>1, <2>2, <1>0, <1>4 DEF JustAsked, States
    <2> QED
        BY <2>3, <1>0, <1>2, <1>3, <1>4
<1>5. ASSUME NEW c \in calls, Answer(c) PROVE OwnCalls'
    <2>1. PICK got \in {"error"} \cup (IF c.id \in Of(c.at) THEN States \ {"none"} ELSE {}) :
              calls' = (calls \ {c}) \cup {[c EXCEPT !.got = got]}
        BY <1>5 DEF Answer
    <2>2. c.op # "list"
        BY <1>5 DEF Answer
    <2> DEFINE d == [c EXCEPT !.got = got]
    <2>3. d.op = c.op /\ d.id = c.id /\ d.at = c.at /\ d.got = got
        BY <1>0 DEF TypeOK
    <2>4. got # "listed" /\ (got \in States => c.id \in Of(c.at))
        BY DEF States
    <2> HIDE DEF d
    <2>5. d.at \in Nat /\ Proper(d)
        BY <2>2, <2>3, <2>4, <1>0, <1>2
    <2> QED
        BY <2>1, <2>5, <1>0, <1>2, <1>3 DEF d
<1>6. ASSUME NEW c \in calls, AnswerList(c) PROVE OwnCalls'
    <2> DEFINE d == [c EXCEPT !.got = "listed"]
    <2>1. calls' = (calls \ {c}) \cup {d} /\ c.op = "list"
        BY <1>6 DEF AnswerList
    <2>2. d.op = c.op /\ d.id = c.id /\ d.at = c.at /\ d.got = "listed"
        BY <1>0 DEF TypeOK
    <2> HIDE DEF d
    <2>3. d.at \in Nat /\ Proper(d)
        BY <2>1, <2>2, <1>0, <1>2
    <2> QED
        BY <2>1, <2>3, <1>0, <1>2, <1>3
<1>7. ASSUME NEW c \in calls, TaskResult(c) \/ TasksRefreshed(c) PROVE OwnCalls'
    <2>1. calls' \subseteq calls
        BY <1>7 DEF TaskResult, TasksRefreshed
    <2> QED
        BY <2>1, <1>0, <1>2, <1>3
<1>8. CASE UNCHANGED calls
    BY <1>8, <1>0, <1>2, <1>3
<1> QED
    BY <1>0, <1>4, <1>5, <1>6, <1>7, <1>8, CallChanges

\* A session that is still to be made is as it will be found.
LEMMA StepUnborn ==
    ASSUME ChatAssumption, Sound, [Next]_vars
    PROVE  Unborn'
<1>0. /\ TypeOK /\ session <= made /\ OwnQueue /\ OwnCalls /\ Unborn
      /\ session \in Nat /\ made \in Nat
    BY DEF Sound, TypeOK, ChatAssumption
<1>1. SUFFICES ASSUME NEW s \in Sessions, s > made'
               PROVE  /\ queue'[s] = <<>> /\ registry'[s] = <<>>
                      /\ \A id \in Of(s) : shown'[id] = "none" /\ truth'[id] = "none"
    BY DEF Unborn, Of
<1>2. /\ s > made /\ s # session
      /\ queue[s] = <<>> /\ registry[s] = <<>>
      /\ \A id \in Of(s) : shown[id] = "none" /\ truth[id] = "none"
    BY <1>0, <1>1, StepSession, NoneIsNoSession DEF Unborn
<1>3. \A id \in Of(s) : id \in Ids /\ Owner[id] = s
    BY DEF Of
<1>4. queue'[s] = <<>>
    <2>1. CASE \E id \in Ids, state \in States \ {"none"} : Observed(id, state)
        BY <2>1, <1>0, <1>2 DEF Observed, TypeOK
    <2>2. CASE \E id \in Ids : ReportDropped(id)
        BY <2>2, <1>0, <1>2 DEF ReportDropped, TypeOK
    <2>3. ASSUME NEW t \in Sessions, TaskUpdated(t) \/ StreamCompacted(t) PROVE queue'[s] = <<>>
        <3>1. queue[t] # <<>> /\ queue' = [queue EXCEPT ![t] = Tail(@)]
            BY <2>3 DEF TaskUpdated, StreamCompacted
        <3>2. t # s
            BY <3>1, <1>2
        <3> QED
            BY <3>1, <3>2, <1>0, <1>2 DEF TypeOK
    <2>4. CASE Connected \/ Disconnect
        BY <2>4, <1>0, <1>2, RetiredShape DEF TypeOK, Connected, Disconnect
    <2> QED
        BY <2>1, <2>2, <2>3, <2>4, <1>2, QueueChanges
<1>5. registry'[s] = <<>> /\ \A id \in Of(s) : truth'[id] = "none"
    <2>1. ASSUME NEW x \in Ids, NEW state \in States \ {"none"}, Observed(x, state)
          PROVE  registry'[s] = <<>> /\ \A id \in Of(s) : truth'[id] = "none"
        <3>1. x \notin Of(s)
            BY <2>1, <1>2 DEF Observed, Of
        <3> QED
            BY <3>1, <2>1, <1>0, <1>2, <1>3 DEF Observed, TypeOK
    <2>2. ASSUME NEW c \in calls, Answer(c)
          PROVE  registry'[s] = <<>> /\ \A id \in Of(s) : truth'[id] = "none"
        <3>1. truth' = truth \/ truth' = [truth EXCEPT ![c.id] = "done"]
            BY <2>2 DEF Answer
        <3>2. truth' # truth => c.id \in Of(c.at)
            BY <2>2 DEF Answer
        <3>3. c.at <= made /\ c.at \in Nat /\ s \in Nat
            BY <1>0, NoneIsNoSession DEF OwnCalls, TypeOK
        <3>4. c.at # s
            BY <3>3, <1>2, <1>0
        <3>5. truth' # truth => c.id \notin Of(s)
            BY <3>2, <3>4 DEF Of
        <3> QED
            BY <3>1, <3>5, <2>2, <1>0, <1>2, <1>3 DEF Answer, TypeOK
    <2>3. ASSUME NEW c \in calls, AnswerList(c)
          PROVE  registry'[s] = <<>> /\ \A id \in Of(s) : truth'[id] = "none"
        <3>1. c.at <= made /\ c.at \in Nat /\ s \in Nat
            BY <1>0, NoneIsNoSession DEF OwnCalls, TypeOK
        <3>2. c.at # s
            BY <3>1, <1>2, <1>0
        <3> QED
            BY <3>2, <2>3, <1>0, <1>2 DEF AnswerList, TypeOK
    <2> QED
        BY <2>1, <2>2, <2>3, <1>2, RegistryChanges
<1>6. \A id \in Of(s) : shown'[id] = "none"
    <2>1. ASSUME NEW t \in Sessions, TaskUpdated(t) PROVE \A id \in Of(s) : shown'[id] = "none"
        <3>1. queue[t] # <<>> /\ queue[t] \in Seq(Entries)
              /\ shown' = [shown EXCEPT ![Head(queue[t]).id] = Head(queue[t]).state]
            BY <2>1, <1>0 DEF TaskUpdated, TypeOK
        <3>2. Head(queue[t]).id \in Of(t)
            BY <3>1, <1>0, Received DEF OwnQueue
        <3>3. t # s
            BY <3>1, <1>2
        <3>4. Head(queue[t]).id \notin Of(s)
            BY <3>2, <3>3 DEF Of
        <3> QED
            BY <3>1, <3>4, <1>0, <1>2, <1>3 DEF TypeOK
    <2>2. ASSUME NEW c \in calls, TaskResult(c) PROVE \A id \in Of(s) : shown'[id] = "none"
        <3>1. CASE c.got = "error"
            BY <3>1, <2>2, <1>2 DEF TaskResult
        <3>2. CASE c.got # "error"
            <4>1. c.id \in Of(c.at) /\ c.at <= made /\ c.at \in Nat /\ s \in Nat
                BY <3>2, <2>2, <1>0, NoneIsNoSession DEF TaskResult, OwnCalls, TypeOK
            <4>2. c.at # s
                BY <4>1, <1>2, <1>0
            <4>3. c.id \notin Of(s)
                BY <4>1, <4>2 DEF Of
            <4> QED
                BY <3>2, <4>3, <2>2, <1>0, <1>2, <1>3 DEF TaskResult, TypeOK
        <3> QED
            BY <3>1, <3>2
    <2> QED
        BY <2>1, <2>2, <1>2, ShownChanges
<1> QED
    BY <1>4, <1>5, <1>6

LEMMA StepSound ==
    ASSUME ChatAssumption, Sound, [Next]_vars
    PROVE  Sound'
BY StepTypes, StepSession, StepQueue, StepRegistry, StepCalls, StepUnborn DEF Sound

------------------------------------------------------------------------------
(* What is remembered belongs to the agent in use.                           *)

LEMMA ListChanges ==
    ASSUME [Next]_vars
    PROVE  \/ Sync /\ UNCHANGED session
           \/ NewTasksPane
           \/ UNCHANGED <<session, list>>
BY DEF Next, SessionSteps, Answers, Events, Results, Connects, Keys, vars, connection, chat,
       dashboard, agentSide, Observed, ReportDropped, Answer, AnswerList, TaskUpdated,
       StreamCompacted, TaskResult, TasksRefreshed, StartConnect, ConnectFailed, Connected,
       Disconnect, SendText, OpenTasksPane, CloseDetail, MoveCursor, RefreshTasks,
       ActOnSelected, TaskCommand

LEMMA FocusChanges ==
    ASSUME [Next]_vars
    PROVE  \/ \E s \in Sessions : TaskUpdated(s) \/ StreamCompacted(s)
           \/ \E c \in calls : TaskResult(c)
           \/ Connected \/ Disconnect
           \/ /\ UNCHANGED <<session, late, lastTask>>
              /\ pending' \in {pending, NoTask} /\ detail' \in {detail, NoTask}
BY DEF Next, SessionSteps, Answers, Events, Results, Connects, Keys, vars, connection, chat,
       dashboard, agentSide, Observed, ReportDropped, Answer, AnswerList, TaskUpdated,
       StreamCompacted, TaskResult, TasksRefreshed, StartConnect, ConnectFailed, Connected,
       Disconnect, SendText, OpenTasksPane, CloseDetail, MoveCursor, RefreshTasks,
       ActOnSelected, TaskCommand

\* The rows of the dashboard are of the agent in use, and so are the reply target,
\* the last task and the open detail until a message of an earlier session comes in.
LEMMA StepOwnState ==
    ASSUME ChatAssumption, Sound, OwnState, [Next]_vars
    PROVE  OwnState'
<1>0. TypeOK /\ OwnQueue /\ OwnRegistry /\ OwnCalls
    BY DEF Sound
<1>1. TypeOK'
    BY StepTypes
<1>2. \A i \in DOMAIN list' : OwnTask(list[i])'
    <2>1. CASE Sync /\ UNCHANGED session
        <3>1. CASE session = None
            BY <2>1, <3>1 DEF Sync, OwnState, OwnTask, Of
        <3>2. CASE session # None
            <4>1. list' = registry[session] /\ session \in Sessions
                BY <2>1, <3>2, <1>0, SessionInUse DEF Sync, TypeOK
            <4> QED
                BY <4>1, <3>2, <2>1, <1>0 DEF OwnRegistry, OwnTask, Of
        <3> QED
            BY <3>1, <3>2
    <2>2. CASE NewTasksPane
        BY <2>2 DEF NewTasksPane
    <2>3. CASE UNCHANGED <<session, list>>
        BY <2>3 DEF OwnState, OwnTask, Of
    <2> QED
        BY <2>1, <2>2, <2>3, ListChanges
<1>3. late' \/ (OwnTask(pending)' /\ OwnTask(lastTask)' /\ OwnTask(detail)')
    <2>1. ASSUME NEW s \in Sessions, TaskUpdated(s), ~late'
          PROVE  OwnTask(pending)' /\ OwnTask(lastTask)' /\ OwnTask(detail)'
        <3>1. ~late /\ s = session /\ s # None /\ UNCHANGED <<session, detail>>
            BY <2>1, NoneIsNoSession DEF TaskUpdated, Late, connection
        <3>2. queue[s] # <<>> /\ queue[s] \in Seq(Entries)
            BY <2>1, <1>0 DEF TaskUpdated, TypeOK
        <3>3. Head(queue[s]).id \in Of(session)
            BY <3>1, <3>2, <1>0, Received DEF OwnQueue
        <3>4. lastTask' = Head(queue[s]).id /\ pending' \in {pending, NoTask, Head(queue[s]).id}
            BY <2>1 DEF TaskUpdated, ReplyAfter
        <3> QED
            BY <3>1, <3>3, <3>4 DEF OwnState, OwnTask, Of
    <2>2. ASSUME NEW s \in Sessions, StreamCompacted(s), ~late'
          PROVE  OwnTask(pending)' /\ OwnTask(lastTask)' /\ OwnTask(detail)'
        <3>1. ~late /\ UNCHANGED <<session, pending, lastTask, detail>>
            BY <2>2 DEF StreamCompacted, Late, connection
        <3> QED
            BY <3>1 DEF OwnState, OwnTask, Of
    <2>3. ASSUME NEW c \in calls, TaskResult(c), ~late'
          PROVE  OwnTask(pending)' /\ OwnTask(lastTask)' /\ OwnTask(detail)'
        <3>1. ~late /\ c.at = session /\ session # None /\ UNCHANGED <<session, pending>>
            <4>1. c.at \in Sessions
                BY <1>0 DEF TypeOK
            <4>2. Late(c.at) /\ UNCHANGED <<session, pending>>
                BY <2>3 DEF TaskResult, connection
            <4> QED
                BY <4>1, <4>2, <2>3, NoneIsNoSession DEF Late
        <3>2. CASE c.got = "error"
            BY <3>1, <3>2, <2>3 DEF TaskResult, dashboard, OwnState, OwnTask, Of
        <3>3. CASE c.got # "error"
            <4>1. c.id \in Of(session) /\ lastTask' = c.id /\ detail' = c.id
                BY <3>1, <3>3, <2>3, <1>0 DEF TaskResult, OwnCalls, TypeOK
            <4> QED
                BY <3>1, <4>1 DEF OwnState, OwnTask, Of
        <3> QED
            BY <3>2, <3>3
    <2>4. CASE Connected \/ Disconnect
        BY <2>4 DEF Connected, Disconnect, NewTasksPane, OwnTask
    <2>5. CASE /\ UNCHANGED <<session, late, lastTask>>
               /\ pending' \in {pending, NoTask} /\ detail' \in {detail, NoTask}
        BY <2>5 DEF OwnState, OwnTask, Of
    <2> QED
        BY <2>1, <2>2, <2>3, <2>4, <2>5, FocusChanges
<1> QED
    BY <1>1, <1>2, <1>3 DEF OwnState

\* The reply target has asked and has not been answered.
LEMMA StepPending ==
    ASSUME PendingIsOpen, [Next]_vars
    PROVE  PendingIsOpen'
<1>1. ASSUME NEW s \in Sessions, TaskUpdated(s) PROVE PendingIsOpen'
    BY <1>1 DEF PendingIsOpen, TaskUpdated, ReplyAfter
<1>2. CASE SendText \/ Connected \/ Disconnect
    BY <1>2 DEF PendingIsOpen, SendText, Connected, Disconnect
<1>3. CASE UNCHANGED <<pending, asked>>
    BY <1>3 DEF PendingIsOpen
<1> QED
    BY <1>1, <1>2, <1>3, ReplyChanges

\* The connection in hand is of the session in use.
LEMMA StepSaves ==
    ASSUME SavesAgentInUse, [Next]_vars
    PROVE  SavesAgentInUse'
BY ConnectionChanges
DEF SavesAgentInUse, connection, StartConnect, ConnectFailed, Connected, Disconnect, None

------------------------------------------------------------------------------
(* The dashboard's rows are the registry's, or will be.                      *)

LEMMA ListingChanges ==
    ASSUME [Next]_vars
    PROVE  \/ Sync /\ UNCHANGED <<session, registry>>
           \/ \E id \in Ids, state \in States \ {"none"} : Observed(id, state)
           \/ \E id \in Ids : ReportDropped(id)
           \/ \E c \in calls : Answer(c) \/ AnswerList(c) \/ (TaskResult(c) /\ c.got = "error")
           \/ Connected \/ Disconnect
           \/ UNCHANGED <<session, list, registry, queue>> /\ calls \subseteq calls'
BY DEF Next, SessionSteps, Answers, Events, Results, Connects, Keys, vars, connection, chat,
       dashboard, agentSide, Observed, ReportDropped, Answer, AnswerList, TaskUpdated,
       StreamCompacted, TaskResult, TasksRefreshed, StartConnect, ConnectFailed, Connected,
       Disconnect, SendText, OpenTasksPane, CloseDetail, MoveCursor, RefreshTasks,
       ActOnSelected, TaskCommand

LEMMA StepDashboard ==
    ASSUME ChatAssumption, Sound, DashboardCurrent, [Next]_vars
    PROVE  DashboardCurrent'
<1> DEFINE Listing == \E c \in calls : c.op = "list" /\ c.got = "listed"
<1>0. TypeOK /\ session <= made /\ OwnCalls /\ Unborn
    BY DEF Sound
<1>1. CASE Sync /\ UNCHANGED <<session, registry>>
    BY <1>1 DEF Sync, DashboardCurrent
<1>2. ASSUME NEW id \in Ids, NEW state \in States \ {"none"}, Observed(id, state)
      PROVE  DashboardCurrent'
    <2>1. session \in Sessions
        BY <1>0, <1>2, SessionInUse DEF TypeOK, Observed
    <2>2. queue'[session] # <<>>
        <3>1. CASE Len(queue[session]) < MaxQueue
            <4>1. queue[session] \in Seq(Entries) /\ Update(id, state) \in Entries
                BY <2>1, <1>0 DEF TypeOK, Update, Entries
            <4>2. Append(queue[session], Update(id, state)) # <<>>
                BY <4>1, AppendProperties
            <4>3. queue' = [queue EXCEPT ![session] = Append(@, Update(id, state))]
                BY <3>1, <1>2 DEF Observed
            <4> QED
                BY <4>2, <4>3, <2>1, <1>0 DEF TypeOK
        <3>2. CASE ~(Len(queue[session]) < MaxQueue)
            <4>1. queue[session] # <<>>
                BY <3>2, EmptySeq DEF ChatAssumption
            <4>2. queue' = queue
                BY <3>2, <1>2 DEF Observed
            <4> QED
                BY <4>1, <4>2
        <3> QED
            BY <3>1, <3>2
    <2> QED
        BY <2>2, <1>2 DEF DashboardCurrent, Observed, connection
<1>3. ASSUME NEW id \in Ids, ReportDropped(id)
      PROVE  DashboardCurrent'
    <2>1. session \in Sessions
        BY <1>0, <1>3, SessionInUse DEF TypeOK, ReportDropped
    <2>2. queue[session] \in Seq(Entries) /\ Compacted(id) \in Entries
        BY <2>1, <1>0 DEF TypeOK, Compacted, Entries, States
    <2>3. Append(queue[session], Compacted(id)) # <<>>
        BY <2>2, AppendProperties
    <2>4. queue'[session] # <<>>
        BY <2>1, <2>3, <1>0, <1>3 DEF TypeOK, ReportDropped
    <2> QED
        BY <2>4, <1>3 DEF DashboardCurrent, ReportDropped, connection
<1>4. ASSUME NEW c \in calls, Answer(c) PROVE DashboardCurrent'
    <2>1. Listing => Listing'
        BY <1>4 DEF Answer
    <2>2. UNCHANGED <<session, list, registry, queue>>
        BY <1>4 DEF Answer, connection, dashboard
    <2> QED
        BY <2>1, <2>2 DEF DashboardCurrent
<1>5. ASSUME NEW c \in calls, AnswerList(c) PROVE DashboardCurrent'
    <2> DEFINE d == [c EXCEPT !.got = "listed"]
    <2>1. d \in calls' /\ c.op = "list"
        BY <1>5 DEF AnswerList
    <2>2. d.op = c.op /\ d.got = "listed"
        BY <1>0 DEF TypeOK
    <2>3. Listing'
        BY <2>1, <2>2
    <2> QED
        BY <2>3 DEF DashboardCurrent
<1>6. ASSUME NEW c \in calls, TaskResult(c), c.got = "error" PROVE DashboardCurrent'
    <2>1. Listing => Listing'
        BY <1>6 DEF TaskResult
    <2>2. UNCHANGED <<session, list, registry, queue>>
        BY <1>6 DEF TaskResult, connection, dashboard, agentSide
    <2> QED
        BY <2>1, <2>2 DEF DashboardCurrent
<1>7. CASE Connected
    <2>1. /\ session' = made + 1 /\ list' = <<>> /\ registry' = registry
          /\ made < MaxSessions /\ made \in Nat
        BY <1>7, <1>0 DEF Connected, NewTasksPane, TypeOK, ChatAssumption
    <2>2. made + 1 \in Sessions /\ made + 1 > made
        BY <2>1 DEF Sessions, ChatAssumption
    <2> QED
        BY <2>1, <2>2, <1>0 DEF DashboardCurrent, Unborn
<1>8. CASE Disconnect
    BY <1>8 DEF Disconnect, DashboardCurrent
<1>9. CASE UNCHANGED <<session, list, registry, queue>> /\ calls \subseteq calls'
    BY <1>9 DEF DashboardCurrent
<1> QED
    BY <1>1, <1>2, <1>3, <1>4, <1>5, <1>6, <1>7, <1>8, <1>9, ListingChanges

------------------------------------------------------------------------------
(* What the transcript shows is the agent's word, or the last word is coming.  *)

LEMMA OwnWord ==
    ASSUME NEW q \in Seq(Entries), NEW e \in Entries, NEW state,
           e.kind = "compacted" \/ e.state = state
    PROVE  Word(Append(q, e), e.id, state)
<1>1. /\ Len(Append(q, e)) = Len(q) + 1 /\ Append(q, e) \in Seq(Entries)
      /\ Append(q, e)[Len(q) + 1] = e
    BY AppendProperties
<1>2. Len(q) \in Nat /\ DOMAIN Append(q, e) = 1..(Len(q) + 1)
    BY <1>1, LenProperties
<1>3. Len(q) + 1 \in DOMAIN Append(q, e) /\ IsLast(Append(q, e), Len(q) + 1)
    BY <1>2 DEF IsLast
<1> QED
    BY <1>1, <1>3 DEF Word

LEMMA OtherWord ==
    ASSUME NEW q \in Seq(Entries), NEW e \in Entries, NEW id, NEW state, e.id # id
    PROVE  /\ Word(q, id, state) => Word(Append(q, e), id, state)
           /\ Silent(q, id) => Silent(Append(q, e), id)
<1> DEFINE r == Append(q, e)
<1>1. /\ Len(r) = Len(q) + 1 /\ r \in Seq(Entries)
      /\ \A i \in 1..Len(q) : r[i] = q[i]
      /\ r[Len(q) + 1] = e
    BY AppendProperties
<1>2. Len(q) \in Nat /\ DOMAIN q = 1..Len(q) /\ DOMAIN r = 1..(Len(q) + 1)
    BY <1>1, LenProperties
<1> HIDE DEF r
<1>3. \A i \in DOMAIN r : (i \in DOMAIN q /\ r[i] = q[i]) \/ r[i] = e
    BY <1>1, <1>2
<1>4. \A i \in DOMAIN q : i \in DOMAIN r /\ r[i] = q[i]
    BY <1>1, <1>2
<1>5. ASSUME NEW i \in DOMAIN q, q[i].id = id, IsLast(q, i) PROVE IsLast(r, i)
    BY <1>3, <1>4, <1>5 DEF IsLast
<1>6. Word(q, id, state) => Word(r, id, state)
    BY <1>4, <1>5 DEF Word
<1>7. Silent(q, id) => Silent(r, id)
    BY <1>3 DEF Silent
<1> QED
    BY <1>6, <1>7 DEF r

LEMMA WordRead ==
    ASSUME NEW q \in Seq(Entries), q # <<>>, NEW id, NEW state
    PROVE  /\ Silent(q, id) => Silent(Tail(q), id) /\ Head(q).id # id
           /\ Word(q, id, state) =>
                \/ Word(Tail(q), id, state)
                \/ /\ Silent(Tail(q), id) /\ Head(q).id = id
                   /\ Head(q).kind = "compacted" \/ Head(q).state = state
<1> DEFINE t == Tail(q)
<1>1. /\ 1 \in DOMAIN q /\ Head(q) = q[1]
      /\ \A i \in DOMAIN t : i \in Nat \ {0} /\ i + 1 \in DOMAIN q /\ t[i] = q[i + 1]
      /\ \A i \in DOMAIN q : i # 1 => i - 1 \in DOMAIN t /\ t[i - 1] = q[i]
    BY Received
<1>2. \A i \in DOMAIN q : i \in Nat
    BY LenProperties
<1> HIDE DEF t
<1>3. Silent(q, id) => Silent(t, id) /\ Head(q).id # id
    BY <1>1 DEF Silent
<1>4. ASSUME NEW i \in DOMAIN q, q[i].id = id, IsLast(q, i),
             q[i].kind = "compacted" \/ q[i].state = state
      PROVE  \/ Word(t, id, state)
             \/ /\ Silent(t, id) /\ Head(q).id = id
                /\ Head(q).kind = "compacted" \/ Head(q).state = state
    <2>1. CASE i = 1
        <3>1. \A j \in DOMAIN t : t[j].id # id
            BY <2>1, <1>1, <1>4 DEF IsLast
        <3> QED
            BY <3>1, <2>1, <1>1, <1>4 DEF Silent
    <2>2. CASE i # 1
        <3>1. i - 1 \in DOMAIN t /\ t[i - 1] = q[i]
            BY <2>2, <1>1
        <3>2. \A j \in DOMAIN t : j > i - 1 => t[j].id # id
            BY <1>1, <1>2, <1>4 DEF IsLast
        <3> QED
            BY <3>1, <3>2, <1>4 DEF Word, IsLast
    <2> QED
        BY <2>1, <2>2
<1>5. Word(q, id, state) => \/ Word(t, id, state)
                            \/ /\ Silent(t, id) /\ Head(q).id = id
                               /\ Head(q).kind = "compacted" \/ Head(q).state = state
    BY <1>4 DEF Word
<1> QED
    BY <1>3, <1>5 DEF t

\* The operations by what they do to what the transcript shows and to what is coming.
LEMMA WordChanges ==
    ASSUME [Next]_vars
    PROVE  \/ \E id \in Ids, state \in States \ {"none"} : Observed(id, state)
           \/ \E id \in Ids : ReportDropped(id)
           \/ \E c \in calls : Answer(c) \/ AnswerList(c) \/ TaskResult(c) \/ TasksRefreshed(c)
           \/ \E s \in Sessions : TaskUpdated(s) \/ StreamCompacted(s)
           \/ Connected \/ Disconnect
           \/ UNCHANGED <<session, unsure, dropped, queue, truth, shown>> /\ calls \subseteq calls'
BY DEF Next, SessionSteps, Answers, Events, Results, Connects, Keys, vars, connection, chat,
       dashboard, agentSide, Observed, ReportDropped, Answer, AnswerList, TaskUpdated,
       StreamCompacted, TaskResult, TasksRefreshed, StartConnect, ConnectFailed, Connected,
       Disconnect, SendText, OpenTasksPane, CloseDetail, MoveCursor, RefreshTasks,
       ActOnSelected, TaskCommand

\* Whatever the agent says of a task is on its way, in order, until it is shown.
LEMMA StepLastWord ==
    ASSUME ChatAssumption, Sound, LastWords, [Next]_vars
    PROVE  LastWords'
<1>0. TypeOK /\ session <= made /\ OwnQueue /\ OwnCalls /\ Unborn
    BY DEF Sound
<1>1. \A id : id \in Of(session) => id \in Ids /\ Owner[id] = session /\ session # None
    BY NoneIsNoSession DEF Of, ChatAssumption
<1>2. session # None => session \in Sessions /\ queue[session] \in Seq(Entries)
    BY <1>0, SessionInUse DEF TypeOK
<1> DEFINE Was(id) == \E c \in calls : c.id = id /\ c.at = session
           Is(id) == \E c \in calls' : c.id = id /\ c.at = session
           Kept(id) == \/ id \in unsure' \/ id \in dropped'
                       \/ Word(queue'[session], id, truth'[id])
                       \/ Silent(queue'[session], id) /\ (shown'[id] = truth'[id] \/ Is(id))
<1>3. ASSUME session' = session, ASSUME NEW id \in Of(session) PROVE Kept(id)
      PROVE  LastWords'
    <2>1. SUFFICES ASSUME NEW id \in Of(session) PROVE LastWord(id)'
        BY <1>3 DEF LastWords, Of
    <2>2. Owner[id] = session /\ Kept(id)
        BY <1>1, <1>3
    <2> QED
        BY <2>2 DEF LastWord, Fetching, Word, Silent, IsLast
<1>4. ASSUME NEW id \in Of(session)
      PROVE  \/ id \in unsure \/ id \in dropped
             \/ Word(queue[session], id, truth[id])
             \/ Silent(queue[session], id) /\ (shown[id] = truth[id] \/ Was(id))
    BY <1>1, <1>4 DEF LastWords, LastWord, Fetching
<1>4a. calls \subseteq calls' => \A id : Was(id) => Is(id)
    OBVIOUS
<1> HIDE DEF Kept, Was, Is
<1>5. ASSUME NEW x \in Ids, NEW state \in States \ {"none"}, Observed(x, state)
      PROVE  LastWords'
    <2>1. /\ session' = session /\ unsure' = unsure /\ shown' = shown /\ calls' = calls
          /\ dropped \subseteq dropped' /\ session # None
          /\ \A id \in Ids : truth'[id] = IF id = x THEN state ELSE truth[id]
        BY <1>5, <1>0 DEF Observed, connection, chat, TypeOK
    <2>2. Update(x, state) \in Entries /\ Update(x, state).id = x /\ Update(x, state).state = state
        BY DEF Update, Entries
    <2>3. CASE Len(queue[session]) < MaxQueue
        <3>1. queue'[session] = Append(queue[session], Update(x, state))
            BY <2>3, <1>5, <1>0, <1>2, <2>1 DEF Observed, TypeOK
        <3>2. ASSUME NEW id \in Of(session) PROVE Kept(id)
            <4>1. CASE id = x
                <5>1. Word(queue'[session], x, state)
                    BY ZenonT(40), <3>1, <2>2, <1>2, <2>1, OwnWord
                <5> QED
                    BY <5>1, <4>1, <2>1 DEF Kept
            <4>2. CASE id # x
                <5>1. /\ Word(queue[session], id, truth[id]) => Word(queue'[session], id, truth[id])
                      /\ Silent(queue[session], id) => Silent(queue'[session], id)
                    BY <4>2, <3>1, <2>2, <1>2, <2>1, OtherWord
                <5>2. truth'[id] = truth[id]
                    BY <4>2, <2>1, <1>1
                <5> QED
                    BY <5>1, <5>2, <2>1, <1>4a, <1>4 DEF Kept
            <4> QED
                BY <4>1, <4>2
        <3> QED
            BY <3>2, <2>1, <1>3
    <2>4. CASE ~(Len(queue[session]) < MaxQueue)
        <3>1. queue' = queue /\ dropped' = dropped \cup {x}
            BY <2>4, <1>5 DEF Observed
        <3>2. ASSUME NEW id \in Of(session) PROVE Kept(id)
            <4>0. Was(id) => Is(id)
                BY <2>1, <1>4a
            <4>1. id # x => truth'[id] = truth[id]
                BY <2>1, <1>1
            <4> QED
                BY <4>0, <4>1, <3>1, <2>1, <1>4 DEF Kept
        <3> QED
            BY <3>2, <2>1, <1>3
    <2> QED
        BY <2>3, <2>4
<1>6. ASSUME NEW x \in Ids, ReportDropped(x)
      PROVE  LastWords'
    <2>1. /\ session' = session /\ unsure' = unsure /\ shown' = shown /\ calls' = calls
          /\ truth' = truth /\ dropped' = dropped \ {x} /\ session # None
          /\ queue' = [queue EXCEPT ![session] = Append(@, Compacted(x))]
        BY <1>6 DEF ReportDropped, connection, chat
    <2>2. queue'[session] = Append(queue[session], Compacted(x))
        BY <2>1, <1>0, <1>2 DEF TypeOK
    <2>3. Compacted(x) \in Entries /\ Compacted(x).id = x /\ Compacted(x).kind = "compacted"
        BY DEF Compacted, Entries, States
    <2>4. ASSUME NEW id \in Of(session) PROVE Kept(id)
        <3>1. CASE id = x
            <4>1. Word(queue'[session], x, truth[x])
                BY <2>1, <2>2, <2>3, <1>2, OwnWord
            <4> QED
                BY <4>1, <3>1, <2>1 DEF Kept
        <3>2. CASE id # x
            <4>1. /\ Word(queue[session], id, truth[id]) => Word(queue'[session], id, truth[id])
                  /\ Silent(queue[session], id) => Silent(queue'[session], id)
                BY SMTT(30), <3>2, <2>1, <2>2, <2>3, <1>2, OtherWord
            <4> QED
                BY <4>1, <3>2, <2>1, <1>4a, <1>4 DEF Kept
        <3> QED
            BY <3>1, <3>2
    <2> QED
        BY <2>1, <2>4, <1>3
<1>7. ASSUME NEW c \in calls, Answer(c) PROVE LastWords'
    <2>1. /\ session' = session /\ shown' = shown /\ dropped' = dropped /\ queue' = queue
          /\ unsure \subseteq unsure'
        BY <1>7 DEF Answer, connection
    <2>2. \A id \in Ids : truth'[id] = truth[id] \/ id \in unsure'
        BY <1>7, <1>0 DEF Answer, TypeOK
    <2>3. \A id : Was(id) => Is(id)
        <3>1. PICK got : calls' = (calls \ {c}) \cup {[c EXCEPT !.got = got]}
            BY <1>7 DEF Answer
        <3>2. [c EXCEPT !.got = got].id = c.id /\ [c EXCEPT !.got = got].at = c.at
            BY <1>0 DEF TypeOK
        <3> QED
            BY <3>1, <3>2 DEF Was, Is
    <2>4. ASSUME NEW id \in Of(session) PROVE Kept(id)
        BY <2>1, <2>2, <2>3, <1>1, <1>4 DEF Kept
    <2> QED
        BY <2>1, <2>4, <1>3
<1>8. ASSUME NEW c \in calls, AnswerList(c) \/ TasksRefreshed(c) PROVE LastWords'
    <2>1. /\ session' = session /\ shown' = shown /\ dropped' = dropped /\ queue' = queue
          /\ unsure' = unsure /\ truth' = truth /\ calls \ {c} \subseteq calls'
        BY <1>8 DEF AnswerList, TasksRefreshed, connection, chat, agentSide
    <2>2. c.id \notin Ids
        BY <1>8, <1>0 DEF AnswerList, TasksRefreshed, OwnCalls, ChatAssumption
    <2>3. \A id \in Ids : Was(id) => Is(id)
        BY <2>1, <2>2 DEF Was, Is
    <2>4. ASSUME NEW id \in Of(session) PROVE Kept(id)
        BY <2>1, <2>3, <1>1, <1>4 DEF Kept
    <2> QED
        BY <2>1, <2>4, <1>3
<1>9. ASSUME NEW c \in calls, TaskResult(c) PROVE LastWords'
    <2>1. /\ session' = session /\ dropped' = dropped /\ queue' = queue
          /\ truth' = truth /\ calls' = calls \ {c}
        BY <1>9 DEF TaskResult, connection, agentSide
    <2>1a. \A id : id # c.id /\ Was(id) => Is(id)
        BY <2>1 DEF Was, Is
    <2>2. CASE c.got = "error"
        <3>1. shown' = shown /\ unsure' = unsure \cup {c.id}
            BY <2>2, <1>9 DEF TaskResult
        <3>2. ASSUME NEW id \in Of(session) PROVE Kept(id)
            BY <3>1, <2>1, <2>1a, <1>4 DEF Kept
        <3> QED
            BY <3>2, <2>1, <1>3
    <2>3. CASE c.got # "error"
        <3>1. c.id \in Ids
            BY <1>9, <1>0 DEF TaskResult, OwnCalls
        <3>2. \A id \in Ids : shown'[id] = IF id = c.id THEN c.got ELSE shown[id]
            BY <2>3, <1>9, <1>0 DEF TaskResult, TypeOK
        <3>3. \/ unsure' = unsure /\ c.got = truth[c.id]
              \/ /\ unsure' = unsure \ {c.id}
                 /\ Settles(c.id, c.got, queue[Owner[c.id]], calls \ {c})
              \/ unsure' = unsure \cup {c.id}
            BY <2>3, <1>9 DEF TaskResult
        <3>4. ASSUME NEW id \in Of(session) PROVE Kept(id)
            <4>1. CASE id # c.id
                <5>1. shown'[id] = shown[id] /\ (id \in unsure => id \in unsure')
                    BY <4>1, <3>2, <3>3, <1>1
                <5> QED
                    BY <5>1, <4>1, <2>1, <2>1a, <1>4 DEF Kept
            <4>2. CASE id = c.id
                <5>1. CASE unsure' = unsure /\ c.got = truth[c.id]
                    <6>1. shown'[id] = truth'[id]
                        BY <5>1, <4>2, <3>1, <3>2, <2>1
                    <6> QED
                        BY <6>1, <5>1, <2>1, <1>4 DEF Kept
                <5>2. CASE Settles(c.id, c.got, queue[Owner[c.id]], calls \ {c})
                    <6>1. shown'[id] = truth'[id]
                        BY <5>2, <4>2, <3>1, <3>2, <2>1 DEF Settles
                    <6>2. Silent(queue'[session], id)
                        BY <5>2, <4>2, <2>1, <1>1 DEF Settles, Silent
                    <6> QED
                        BY <6>1, <6>2 DEF Kept
                <5>3. CASE unsure' = unsure \cup {c.id}
                    BY <5>3, <4>2 DEF Kept
                <5> QED
                    BY <5>1, <5>2, <5>3, <3>3
            <4> QED
                BY <4>1, <4>2
        <3> QED
            BY <3>4, <2>1, <1>3
    <2> QED
        BY <2>2, <2>3
<1>10. ASSUME NEW s \in Sessions, TaskUpdated(s) PROVE LastWords'
    <2> DEFINE e == Head(queue[s])
    <2>1. /\ queue[s] \in Seq(Entries) /\ queue[s] # <<>> /\ e.kind = "update"
          /\ session' = session /\ dropped' = dropped /\ truth' = truth /\ calls' = calls
          /\ queue' = [queue EXCEPT ![s] = Tail(@)]
          /\ shown' = [shown EXCEPT ![e.id] = e.state]
          /\ \/ unsure' = unsure
             \/ unsure' = unsure \ {e.id} /\ Settles(e.id, e.state, Tail(queue[s]), calls)
        BY <1>10, <1>0 DEF TaskUpdated, connection, TypeOK
    <2>2. e.id \in Of(s) /\ e.id \in Ids
        BY <2>1, <1>0, Received DEF OwnQueue, Of
    <2> HIDE DEF e
    <2>1a. \A id : Was(id) => Is(id)
        BY <2>1, <1>4a
    <2>3. ASSUME NEW id \in Of(session) PROVE Kept(id)
        <3>1. \A x \in Ids : shown'[x] = IF x = e.id THEN e.state ELSE shown[x]
            BY <2>1, <2>2, <1>0 DEF TypeOK
        <3>2. CASE s # session
            <4>1. queue'[session] = queue[session]
                BY <3>2, <2>1, <2>3, <1>0, <1>1, <1>2 DEF TypeOK
            <4>2. id # e.id
                BY <3>2, <2>2, <1>1 DEF Of
            <4> QED
                <5>1. shown'[id] = shown[id] /\ (id \in unsure => id \in unsure')
                    BY <4>2, <3>1, <2>1, <1>1
                <5> QED
                    BY <5>1, <4>1, <2>1, <2>1a, <1>4 DEF Kept
        <3>3. CASE s = session
            <4>1. queue'[session] = Tail(queue[s])
                BY <3>3, <2>1, <1>0 DEF TypeOK
            <4>2. /\ Silent(queue[s], id) => Silent(Tail(queue[s]), id) /\ e.id # id
                  /\ Word(queue[s], id, truth[id]) =>
                        \/ Word(Tail(queue[s]), id, truth[id])
                        \/ /\ Silent(Tail(queue[s]), id) /\ e.id = id
                           /\ e.kind = "compacted" \/ e.state = truth[id]
                BY <2>1, WordRead DEF e
            <4>3. CASE id # e.id
                <5>1. shown'[id] = shown[id]
                    BY <4>3, <3>1, <1>1
                <5> QED
                    BY <5>1, <4>1, <4>2, <4>3, <3>3, <2>1, <2>1a, <1>4 DEF Kept
            <4>4. CASE id = e.id
                <5>1. shown'[id] = e.state
                    BY <4>4, <3>1, <2>2
                <5>2. CASE unsure' = unsure
                    BY <5>1, <5>2, <4>1, <4>2, <4>4, <3>3, <2>1, <2>1a, <1>4 DEF Kept
                <5>3. CASE Settles(e.id, e.state, Tail(queue[s]), calls)
                    <6>1. shown'[id] = truth'[id] /\ Silent(queue'[session], id)
                        BY <5>1, <5>3, <4>1, <4>4, <2>1 DEF Settles, Silent
                    <6> QED
                        BY <6>1 DEF Kept
                <5> QED
                    BY <5>2, <5>3, <2>1
            <4> QED
                BY <4>3, <4>4
        <3> QED
            BY <3>2, <3>3
    <2> QED
        BY <2>1, <2>3, <1>3
<1>11. ASSUME NEW s \in Sessions, StreamCompacted(s) PROVE LastWords'
    <2> DEFINE e == Head(queue[s])
    <2>1. /\ queue[s] \in Seq(Entries) /\ queue[s] # <<>>
          /\ session' = session /\ dropped' = dropped /\ truth' = truth
          /\ shown' = shown /\ unsure' = unsure
          /\ queue' = [queue EXCEPT ![s] = Tail(@)]
          /\ session # None => calls' = calls \cup {Call("get", e.id)}
        BY <1>11, <1>0 DEF StreamCompacted, connection, TypeOK
    <2> HIDE DEF e
    <2>2. ASSUME NEW id \in Of(session) PROVE Kept(id)
        <3>1. Is(e.id) /\ \A x : Was(x) => Is(x)
            <4>1. calls' = calls \cup {Call("get", e.id)}
                BY <2>1, <2>2, <1>1
            <4>2. Call("get", e.id).id = e.id /\ Call("get", e.id).at = session
                BY DEF Call
            <4> QED
                BY <4>1, <4>2 DEF Was, Is
        <3>2. CASE s # session
            <4>1. queue'[session] = queue[session]
                BY <3>2, <2>1, <2>2, <1>0, <1>1, <1>2 DEF TypeOK
            <4> QED
                BY <4>1, <3>1, <2>1, <1>4 DEF Kept
        <3>3. CASE s = session
            <4>1. queue'[session] = Tail(queue[s])
                BY <3>3, <2>1, <1>0 DEF TypeOK
            <4>2. /\ Silent(queue[s], id) => Silent(Tail(queue[s]), id)
                  /\ Word(queue[s], id, truth[id]) =>
                        \/ Word(Tail(queue[s]), id, truth[id])
                        \/ Silent(Tail(queue[s]), id) /\ e.id = id
                BY <2>1, WordRead DEF e
            <4> QED
                BY <4>1, <4>2, <3>1, <3>3, <2>1, <1>4 DEF Kept
        <3> QED
            BY <3>2, <3>3
    <2> QED
        BY <2>1, <2>2, <1>3
<1>12. CASE Connected
    <2>1. /\ session' = made + 1 /\ shown' = shown /\ truth' = truth /\ queue' = Retired
          /\ made < MaxSessions /\ made \in Nat
        BY <1>12, <1>0 DEF Connected, TypeOK, ChatAssumption
    <2>2. made + 1 \in Sessions /\ made + 1 > made
        BY <2>1 DEF Sessions, ChatAssumption
    <2>3. Retired[made + 1] = <<>>
        BY <2>2, <1>0, RetiredShape DEF Unborn, TypeOK
    <2>4. ASSUME NEW id \in Of(made + 1) PROVE LastWord(id)'
        <3>1. shown'[id] = truth'[id] /\ Owner[id] = made + 1
            BY <2>1, <2>2, <1>0 DEF Unborn, Of
        <3>2. Silent(queue'[Owner[id]], id)
            BY <3>1, <2>1, <2>3 DEF Silent
        <3> QED
            BY <3>1, <3>2 DEF LastWord, Silent
    <2> QED
        BY <2>1, <2>4 DEF LastWords, Of
<1>13. CASE Disconnect
    BY <1>13 DEF Disconnect, LastWords
<1>14. CASE UNCHANGED <<session, unsure, dropped, queue, truth, shown>> /\ calls \subseteq calls'
    <2>1. ASSUME NEW id \in Of(session) PROVE Kept(id)
        BY <1>14, <1>4a, <1>4 DEF Kept
    <2> QED
        BY <2>1, <1>14, <1>3
<1> QED
    BY <1>5, <1>6, <1>7, <1>8, <1>9, <1>10, <1>11, <1>12, <1>13, <1>14, WordChanges

------------------------------------------------------------------------------
(* The theorems.                                                             *)

LEMMA InitInv == ChatAssumption /\ Init => Inv
<1> SUFFICES ASSUME ChatAssumption, Init PROVE Inv
    OBVIOUS
<1>1. <<>> \in Seq(Ids) /\ <<>> \in Seq(Entries)
    BY EmptySeq
<1>2. TypeOK
    <2>1. 0 \in 0..MaxSessions /\ 0 \in 0..MaxUpdates /\ "none" \in States
        BY DEF ChatAssumption, States
    <2>2. /\ registry \in [Sessions -> Seq(Ids)] /\ queue \in [Sessions -> Seq(Entries)]
          /\ shown \in [Ids -> States] /\ truth \in [Ids -> States] /\ list \in Seq(Ids)
        BY <2>1, <1>1 DEF Init
    <2>3. /\ session \in 0..MaxSessions /\ made \in 0..MaxSessions /\ conn \in 0..MaxSessions
          /\ updates \in 0..MaxUpdates /\ cursor \in Int
        BY <2>1 DEF Init, None
    <2> QED
        BY <2>2, <2>3 DEF Init, TypeOK
<1>3. Sound
    BY <1>2 DEF Init, Sound, OwnQueue, OwnRegistry, OwnCalls, Unborn, Distinct, Of, None
<1>4. OwnState /\ PendingIsOpen /\ DashboardCurrent /\ SavesAgentInUse /\ LastWords
    BY <1>2 DEF Init, OwnState, OwnTask, PendingIsOpen, DashboardCurrent, SavesAgentInUse, LastWords
<1> QED
    BY <1>3, <1>4 DEF Inv

LEMMA StepInv == ChatAssumption /\ Inv /\ [Next]_vars => Inv'
BY StepSound, StepOwnState, StepPending, StepDashboard, StepSaves, StepLastWord DEF Inv

LEMMA SpecInv == Spec => []Inv
BY ChatAssumption, InitInv, StepInv, PTL DEF Spec

\* Whatever answers late, of this session or an earlier one, the rows of the
\* dashboard are of the agent in use, and so are the reply target, the last task and
\* the open detail until a message of an earlier session comes in (handleConnectResult,
\* /disconnect, handleAgentEvent, handleTaskResult, TasksPane.Sync).
THEOREM NothingOfOtherAgents == Spec => []OwnState
BY SpecInv, PTL DEF Inv

\* The next message replies to no task but one that asked and is still waiting
\* (App.pending in handleAgentEvent, sendText, handleConnectResult).
THEOREM RepliesToTheAsking == Spec => []PendingIsOpen
BY SpecInv, PTL DEF Inv

\* The rows of the dashboard are the registry's, or what will refresh them is on its
\* way (handleAgentEvent, handleTaskResult, tasksRefreshedMsg).
THEOREM DashboardFollows == Spec => []DashboardCurrent
BY SpecInv, PTL DEF Inv

\* What /agent save would keep is the agent of the session in use
\* (handleConnectResult, /disconnect).
THEOREM SavesTheAgentInUse == Spec => []SavesAgentInUse
BY SpecInv, PTL DEF Inv

\* What the transcript shows of a task of the agent in use is what the agent last
\* said, or that is queued, or its loss is to be reported, or the task is being
\* fetched, or has changed in a way that no update tells (publish, handleAgentEvent,
\* handleTaskResult).
THEOREM LagIsExplained == Spec => []LagExplained
<1>1. Inv => LagExplained
    <2> SUFFICES ASSUME Inv, session # None, NEW id \in Of(session)
                 PROVE  shown[id] = truth[id] \/ id \in unsure \/ OnItsWay(id)
        BY DEF LagExplained
    <2>1. LastWord(id)
        BY DEF Inv, LastWords
    <2> QED
        BY <2>1 DEF LastWord, OnItsWay, Word, Fetching
<1> QED
    BY <1>1, SpecInv, PTL
==============================================================================
