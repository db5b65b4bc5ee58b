----------------------------- MODULE Transcript ------------------------------
(***************************************************************************)
(* The chat transcript (internal/chat/transcript.go) under the handlers    *)
(* that write to it (internal/tui/view_chat.go): a sequence of blocks,     *)
(* some of which are replaced or moved by their logical ID, and a cache of *)
(* their renderings keyed by instance and width.  Every handler ends in    *)
(* refreshTranscript, which renders everything at the current width; what  *)
(* the user then sees is "screen".                                         *)
(*                                                                         *)
(* A block is its logical ID and its content.  Pills and artifacts belong  *)
(* to a task and are replaced by ID; texts all carry the ID "text".  A     *)
(* surface block holds a pointer to the surface, so its content is that of *)
(* the surface when it is rendered.                                        *)
(***************************************************************************)
EXTENDS Naturals, Sequences, SequencesExt, FiniteSets

CONSTANTS
    Tasks,
    Widths,          \* terminal widths
    MaxRenderCache,  \* maxRenderCache
    MaxEntries,      \* bound: blocks in the transcript
    MaxSeq,          \* bound: instance IDs handed out
    MaxVersions      \* bound: updates of the surface

ASSUME TranscriptAssumption ==
    /\ MaxRenderCache \in Nat \ {0}
    /\ MaxEntries \in Nat /\ MaxSeq \in Nat /\ MaxVersions \in Nat
    /\ "none" \notin Tasks

VARIABLES
    entries,  \* Transcript.entries
    seq,      \* Transcript.seq
    cache,    \* Transcript.cache: <<instance, width>> -> rendering
    order,    \* Transcript.order, oldest key first
    width,    \* width of the transcript viewport
    screen,   \* the renderings of the last refresh, in order
    surface,  \* version of the surface the surface blocks point to
    crashed,  \* an index ran past the end of entries: Go panics
    fetched   \* history: the transcript shows, or has shown, a fetched snapshot

vars == <<entries, seq, cache, order, width, screen, surface, crashed, fetched>>

PillStates == {"working", "completed"}
PillId(t)     == <<"task-state", t>>
ArtifactId(t) == <<"artifact", t>>
TextId        == <<"text">>
SurfaceId     == <<"surface">>

Block(id, of, content) == [id |-> id, of |-> of, content |-> content]
Pill(t, st)     == Block(PillId(t), t, st)
Artifact(t, c)  == Block(ArtifactId(t), t, c)
Text(t)         == Block(TextId, t, "text")
SurfaceBlock    == Block(SurfaceId, "none", "live")
Status          == Block(<<"status">>, "none", "status")
Welcome         == Block(<<"welcome">>, "none", "hint")
Entry(inst, b)  == [inst |-> inst, block |-> b]

\* What a block looks like now.
Drawn(b, version) == IF b = SurfaceBlock THEN [b EXCEPT !.content = version] ELSE b

------------------------------------------------------------------------------
(* The operations of Transcript, on records [entries, seq, crashed].       *)

Append1(t, b) == [t EXCEPT !.seq = @ + 1,
                           !.entries = Append(@, Entry(t.seq + 1, b))]

AppendAll(t, bs) ==
    [t EXCEPT !.seq = @ + Len(bs),
              !.entries = @ \o [i \in DOMAIN bs |-> Entry(t.seq + i, bs[i])]]

Matches(es, id) == {i \in DOMAIN es : es[i].block.id = id}
Least(S)        == CHOOSE i \in S : \A j \in S : i <= j

\* ReplaceByID: the range is over the indices the transcript had at first.  The
\* first match is replaced, further ones are cut out, which shifts the rest
\* down while the index goes on up.
Visit(acc, i, new) ==
    IF acc.crashed \/ i > Len(acc.entries) THEN [acc EXCEPT !.crashed = TRUE]
    ELSE IF acc.entries[i].block.id # new.block.id THEN acc
    ELSE IF acc.replaced THEN [acc EXCEPT !.entries = RemoveAt(@, i)]
    ELSE [acc EXCEPT !.entries = [@ EXCEPT ![i] = new], !.replaced = TRUE]

Visited(es, new) ==
    LET after[i \in 0..Len(es)] ==
            IF i = 0 THEN [entries |-> es, replaced |-> FALSE, crashed |-> FALSE]
            ELSE Visit(after[i - 1], i, new)
    IN  after[Len(es)]

ReplaceByID(t, b) ==
    LET new == Entry(t.seq + 1, b)
        end == Visited(t.entries, new)
    IN  [entries |-> IF end.replaced THEN end.entries ELSE Append(end.entries, new),
         seq     |-> t.seq + 1,
         crashed |-> end.crashed]

\* RemoveByID also uses up an instance ID.
Kept(es, id) ==
    LET kept[i \in 0..Len(es)] ==
            IF i = 0 THEN <<>>
            ELSE IF es[i].block.id = id THEN kept[i - 1] ELSE Append(kept[i - 1], es[i])
    IN  kept[Len(es)]

RemoveByID(t, id) == [t EXCEPT !.seq = @ + 1, !.entries = Kept(@, id)]

\* (variant) The moved block takes the instance ID handed out last.
MoveToEndReusing(t, id) ==
    IF t.crashed \/ Matches(t.entries, id) = {} THEN t
    ELSE LET i == Least(Matches(t.entries, id))
         IN  [t EXCEPT !.entries = Append(RemoveAt(@, i), Entry(t.seq, t.entries[i].block))]

\* MoveToEnd: the first match goes to the end under a fresh instance ID.
MoveToEnd(t, id) ==
    IF t.crashed \/ Matches(t.entries, id) = {} THEN t
    ELSE LET i == Least(Matches(t.entries, id))
         IN  [t EXCEPT !.seq = @ + 1,
                       !.entries = Append(RemoveAt(@, i),
                                          Entry(t.seq + 1, t.entries[i].block))]

\* rememberLocked: a new key may push the oldest one out.
Remember(r, key, out) ==
    LET full == Len(r.order) >= MaxRenderCache
        kept == IF full THEN DOMAIN r.cache \ {Head(r.order)} ELSE DOMAIN r.cache
    IN  [r EXCEPT !.order = Append(IF full THEN Tail(@) ELSE @, key),
                  !.cache = [k \in kept \cup {key} |-> IF k = key THEN out ELSE r.cache[k]]]

\* Render: each block from the cache, or drawn and remembered.
Draw(r, e, w, version) ==
    LET key == <<e.inst, w>>
        out == IF key \in DOMAIN r.cache THEN r.cache[key] ELSE Drawn(e.block, version)
        now == IF key \in DOMAIN r.cache THEN r ELSE Remember(r, key, out)
    IN  [now EXCEPT !.screen = Append(@, out)]

RenderAll(es, w, version, c, o) ==
    LET drawn[i \in 0..Len(es)] ==
            IF i = 0 THEN [screen |-> <<>>, cache |-> c, order |-> o]
            ELSE Draw(drawn[i - 1], es[i], w, version)
    IN  drawn[Len(es)]

------------------------------------------------------------------------------
\* NewApp's onboarding hints (one stands for both), drawn once.
Init ==
    /\ entries = <<Entry(1, Welcome)>>
    /\ seq = 1
    /\ width \in Widths
    /\ cache = [k \in {<<1, width>>} |-> Welcome]
    /\ order = << <<1, width>> >>
    /\ screen = <<Welcome>>
    /\ surface = 0
    /\ crashed = FALSE
    /\ fetched = FALSE

Now == [entries |-> entries, seq |-> seq, crashed |-> FALSE]

\* refreshTranscript, the end of every handler.
Refresh(w, version) ==
    LET r == RenderAll(entries', w, version, cache, order)
    IN  /\ width' = w
        /\ surface' = version
        /\ cache' = r.cache
        /\ order' = r.order
        /\ screen' = r.screen

\* The transcript becomes t and is shown; if the handler panicked on the way the
\* program ends with what it had done.
Commit(t, version) ==
    /\ Len(t.entries) <= MaxEntries
    /\ t.seq <= MaxSeq
    /\ entries' = t.entries
    /\ seq' = t.seq
    /\ crashed' = t.crashed
    /\ IF t.crashed THEN UNCHANGED <<width, surface, cache, order, screen>>
                    ELSE Refresh(width, version)

Running   == ~crashed
Hinting   == Matches(entries, Welcome.id) # {}   \* not connected yet
Streaming == Running /\ ~Hinting

\* handleConnectResult drops the hints and adds a status line.
Connected ==
    /\ Running
    /\ Hinting
    /\ Commit(AppendAll(RemoveByID(Now, Welcome.id), <<Status>>), surface)
    /\ UNCHANGED fetched

\* TaskUpdateEvent: one pill per task, replaced in place; a terminal one moves
\* to the end.
TaskUpdate(t, st) ==
    /\ Streaming
    /\ LET replaced == ReplaceByID(Now, Pill(t, st))
       IN  Commit(IF st = "completed" THEN MoveToEnd(replaced, PillId(t)) ELSE replaced, surface)
    /\ UNCHANGED fetched

\* (variant) A late reply leaves the pill above it.
AgentMessageUnmoved(t) ==
    /\ Streaming
    /\ Commit(AppendAll(Now, <<Text(t)>>), surface)
    /\ UNCHANGED fetched

\* AgentMessageEvent: the blocks of the message, then the pill of its task.
AgentMessage(t) ==
    /\ Streaming
    /\ Commit(MoveToEnd(AppendAll(Now, <<Text(t)>>), PillId(t)), surface)
    /\ UNCHANGED fetched

\* ArtifactEvent: one block per artifact, then the pill of its task.
ArtifactUpdate(t, c) ==
    /\ Streaming
    /\ Commit(MoveToEnd(ReplaceByID(Now, Artifact(t, c)), PillId(t)), surface)
    /\ UNCHANGED fetched

\* handleTaskResult with a task snapshot (BlocksForTask): its pill replaces the
\* live one, its artifacts and history append.
TaskResult(t, st, artifacts, history) ==
    /\ Streaming
    /\ fetched' = TRUE
    /\ LET replaced == ReplaceByID(Now, Pill(t, st))
       IN  Commit(IF replaced.crashed THEN replaced
                  ELSE AppendAll(replaced, artifacts \o history), surface)

\* A message with an A2UI part: the surface changes, then a snapshot of it is
\* appended (SplitMessage, extractA2UI).
SurfaceMessage ==
    /\ Streaming
    /\ surface < MaxVersions
    /\ Commit(AppendAll(Now, <<SurfaceBlock>>), surface + 1)
    /\ UNCHANGED fetched

\* sendText's user block, addStatus, addError: a block that belongs to no task.
Note ==
    /\ Running
    /\ Commit(Append1(Now, Status), surface)
    /\ UNCHANGED fetched

\* The window changes its width.
Resize(w) ==
    /\ Running
    /\ w # width
    /\ UNCHANGED <<entries, seq, crashed, fetched>>
    /\ Refresh(w, surface)

\* /clear starts a new transcript.
Clear ==
    /\ Running
    /\ entries' = <<>> /\ seq' = 0
    /\ cache' = [k \in {} |-> <<>>] /\ order' = <<>> /\ screen' = <<>>
    /\ fetched' = FALSE
    /\ UNCHANGED <<width, surface, crashed>>

Next ==
    \/ \E t \in Tasks, st \in PillStates : TaskUpdate(t, st)
    \/ \E t \in Tasks : AgentMessage(t)
    \/ \E t \in Tasks, c \in {"one", "two"} : ArtifactUpdate(t, c)
    \/ \E t \in Tasks, st \in PillStates :
           \E artifacts \in {<<>>, <<Artifact(t, "one")>>}, history \in {<<>>, <<Text(t)>>} :
               TaskResult(t, st, artifacts, history)
    \/ Connected
    \/ SurfaceMessage
    \/ Note
    \/ \E w \in Widths : Resize(w)
    \/ Clear

Spec == Init /\ [][Next]_vars

------------------------------------------------------------------------------
(* Properties.                                                             *)

\* The blocks of a task, and all.
Of(t)   == {Pill(t, st) : st \in PillStates}
           \cup {Artifact(t, c) : c \in {"one", "two"}} \cup {Text(t)}
Blocks  == {SurfaceBlock, Status, Welcome} \cup UNION {Of(t) : t \in Tasks}
Entries == [inst : 1..seq, block : Blocks]

TypeOK ==
    /\ entries \in Seq(Entries)
    /\ seq \in Nat
    /\ \A k \in DOMAIN cache : k \in (Nat \X Widths)
    /\ width \in Widths
    /\ surface \in Nat
    /\ crashed \in BOOLEAN /\ fetched \in BOOLEAN

\* The user sees every block as it is, in order: no rendering in the cache is
\* mistaken for another's, whatever was replaced, moved, evicted, resized or
\* cleared.  (Surface blocks change behind the cache's back.)
ScreenFaithful ==
    ~crashed => /\ Len(screen) = Len(entries)
                /\ \A i \in DOMAIN entries :
                       entries[i].block = SurfaceBlock \/ screen[i] = entries[i].block

\* The eviction queue and the cache stay in step and within maxRenderCache.
CacheBounded ==
    /\ Len(order) <= MaxRenderCache
    /\ IsInjective(order)
    /\ DOMAIN cache = Range(order)

\* There is never more than one state pill for a task, wherever its updates and
\* snapshots came from.
OnePillPerTask == \A t \in Tasks : Cardinality(Matches(entries, PillId(t))) <= 1

\* view_chat.go:104 "Land the finished pill after the turn's content": while no
\* snapshot is fetched, nothing of a task is shown below its "completed".
VerdictLast ==
    ~fetched => \A i, j \in DOMAIN entries :
        i < j /\ entries[i].block.content = "completed" => entries[j].block.of # entries[i].block.of

\* Events alone never make ReplaceByID run past the end of the transcript.
NeverPanics == crashed => fetched

\* transcript.go:73 "Collapse duplicate logical blocks: drop extras so a
\* replace-by-id keeps exactly one live block": updating an artifact completes
\* and leaves one block for it.
ReplaceKeepsOne ==
    [][\A t \in Tasks, c \in {"one", "two"} : ArtifactUpdate(t, c) =>
           ~crashed' /\ Cardinality(Matches(entries', ArtifactId(t))) = 1]_vars

\* The cache lies neither about a block nor about itself.
CacheSound == TypeOK /\ ScreenFaithful /\ CacheBounded

\* Events alone leave the transcript in order: no panic, one pill for a task, and the
\* verdict below its turn.
EventsKeepOrder == NeverPanics /\ OnePillPerTask /\ VerdictLast
==============================================================================
