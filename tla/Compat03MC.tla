------------------------------ MODULE Compat03MC ------------------------------
(* An agent's words, few enough to model-check Compat03.                     *)
EXTENDS Compat03

Text == [kind |-> "text"]
File == [kind |-> "file", file |-> {"data"}]
Odd == [kind |-> "video"]
Flagged(v) == [kind |-> "data", data |-> v, compat |-> TRUE]
Bare == [kind |-> "data", data |-> Scalar]
Wrapped == Flagged(Object([value |-> Scalar]))
TwiceWrapped == Flagged(Object([value |-> Object([value |-> Scalar])]))

Words(role, parts) == [kind |-> "message", messageId |-> "m", role |-> role, parts |-> parts]
Working == [taskId |-> "t", final |-> FALSE,
            status |-> [state |-> "working", message |-> <<Words("agent", <<Wrapped, Text>>)>>]]
Completed == [kind |-> "status-update", taskId |-> "t", final |-> TRUE,
              status |-> [state |-> "completed"]]
ArtifactOf(p) == [kind |-> "artifact-update", taskId |-> "t",
                  artifact |-> [artifactId |-> "a", parts |-> <<p>>]]
TaskOf(state, parts) ==
    [id |-> "t", status |-> [state |-> state], artifacts |-> <<[parts |-> parts]>>]

Result(r) == [says |-> "result", result |-> r]
FramesMC == {Result(Working), Result(Completed), [says |-> "null"], [says |-> "error"]}
LongMC == {Result(Working)}

Results ==
    {Working, Completed, [kind |-> "ping"], [id |-> "t"], Words("user", <<Bare>>)}
    \union {ArtifactOf(p) : p \in {Text, File, Odd}}
    \union {TaskOf(s, <<p, Odd, Text>>) :
              s \in {"input-required", "paused"},
              p \in {File, [kind |-> "file"], [kind |-> "data"], TwiceWrapped, Flagged(Scalar)}}
    \union {Words(r, <<p>>) : r \in {"user", "agent", "system"}, p \in {Wrapped, Odd, Flagged(Null)}}
Says == {Result(r) : r \in Results} \union {[says |-> x] : x \in {"null", "error", "junk"}}
AnswersMC ==
    {[came |-> c] : c \in {"refused", "huge", "cut"}}
    \union {[came |-> "whole", http |-> h] @@ s : h \in {200, 500}, s \in Says}
PushConfigsMC ==
    {[url |-> "u", auth |-> a] : a \in {<<>>, <<[scheme |-> ""]>>, <<[scheme |-> "bearer"]>>}}
=============================================================================
