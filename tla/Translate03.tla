----------------------------- MODULE Translate03 -----------------------------
(****************************************************************************)
(* Between the A2A 0.3 objects on the wire and the 1.x objects of the       *)
(* program: src/internal/compat03/translate.go and wire.go.                 *)
(*                                                                          *)
(* An object on the wire is a record of the JSON members it has: a member   *)
(* that is absent is no field.  A JSON value is null, a scalar or an        *)
(* object; an object is the record of its members.  Texts, names, media     *)
(* types and timestamps are carried unchanged by the code and left out; of  *)
(* metadata the model keeps the one flag the translation reads, of ids the  *)
(* task's.                                                                  *)
(****************************************************************************)
EXTENDS Naturals, Sequences

CONSTANTS
    MaxParts,      \* maxPartsPerMessage
    MaxArtifacts   \* maxArtifactsPerTask

\* A member of a wire object, or the zero value json.Unmarshal leaves.
Member(w, f, zero) == IF f \in DOMAIN w THEN w[f] ELSE zero

Capped(s, n) == IF Len(s) <= n THEN s ELSE SubSeq(s, 1, n)
Mapped(Op(_), s) == [i \in DOMAIN s |-> Op(s[i])]

(* ------------------------------ states, roles --------------------------- *)

States == {"submitted", "working", "input-required", "completed", "failed",
           "canceled", "rejected", "auth-required"}
Terminal == {"completed", "failed", "canceled", "rejected"}

StateFromWire(s) == IF s \in States THEN s ELSE "unspecified"
StateToWire(s) == IF s \in States THEN s ELSE "unknown"

RoleFromWire(r) == IF r \in {"user", "agent"} THEN r ELSE "unspecified"
RoleToWire(r) == IF r = "agent" THEN "agent" ELSE "user"

(* --------------------------------- parts -------------------------------- *)

Null == [json |-> "null"]
Scalar == [json |-> "scalar"]
Object(members) == [json |-> "object", members |-> members]

\* A data part carries the flag when its value was wrapped to be an object.
Data(value, compat) == [content |-> "data", value |-> value, compat |-> compat]

\* rawFallbackPart: the part as it came, as data; its metadata is in there.
RawFallback(w) == Data(Object(w), FALSE)

FilePartFromWire(w) ==
    LET f == Member(w, "file", {})
        compat == Member(w, "compat", FALSE)
    IN CASE f \cap {"bytes", "data"} # {} -> [content |-> "raw", compat |-> compat]
         [] f \cap {"bytes", "data"} = {} /\ "uri" \in f -> [content |-> "url", compat |-> compat]
         [] OTHER -> RawFallback(w)

DataPartFromWire(w) ==
    LET v == Member(w, "data", Null)
        compat == Member(w, "compat", FALSE)
        wrapped == compat /\ v.json = "object" /\ DOMAIN v.members = {"value"}
    IN Data(IF wrapped THEN v.members.value ELSE v, compat)

PartFromWire(w) ==
    CASE w.kind = "text" -> [content |-> "text", compat |-> Member(w, "compat", FALSE)]
      [] w.kind = "file" -> FilePartFromWire(w)
      [] w.kind = "data" -> DataPartFromWire(w)
      [] OTHER -> RawFallback(w)

\* wrapDataValue: 0.3 wants an object.
WrapDataValueUnflagged(p) ==                                       \* (variant)
    CASE p.value.json = "object" -> [kind |-> "data", data |-> p.value, compat |-> p.compat]
      [] p.value.json = "null" -> [kind |-> "data", data |-> Object(<<>>), compat |-> p.compat]
      [] OTHER -> [kind |-> "data", data |-> Object([value |-> p.value]), compat |-> p.compat]
WrapDataValue(p) ==
    CASE p.value.json = "object" -> [kind |-> "data", data |-> p.value, compat |-> p.compat]
      [] p.value.json = "null" -> [kind |-> "data", data |-> Object(<<>>), compat |-> p.compat]
      [] OTHER -> [kind |-> "data", data |-> Object([value |-> p.value]), compat |-> TRUE]

PartToWire(p) ==
    CASE p.content = "text" -> [kind |-> "text", compat |-> p.compat]
      [] p.content = "raw" -> [kind |-> "file", file |-> {"bytes"}, compat |-> p.compat]
      [] p.content = "url" -> [kind |-> "file", file |-> {"uri"}, compat |-> p.compat]
      [] p.content = "data" -> WrapDataValue(p)

PartsFromWire(ws) == Mapped(PartFromWire, Capped(ws, MaxParts))
PartsToWire(ps) == Mapped(PartToWire, ps)

(* ---------------------- messages, artifacts, tasks ---------------------- *)

MessageFromWire(w) ==
    [kind |-> "message", role |-> RoleFromWire(Member(w, "role", "")),
     parts |-> PartsFromWire(Member(w, "parts", <<>>))]

\* A message the client sends has an id, a fresh one if need be (newID).
MessageToWire(m) ==
    [kind |-> "message", messageId |-> "id", role |-> RoleToWire(m.role),
     parts |-> PartsToWire(m.parts)]

ArtifactFromWire(w) == [parts |-> PartsFromWire(Member(w, "parts", <<>>))]
ArtifactToWire(a) == [artifactId |-> "id", parts |-> PartsToWire(a.parts)]

\* The status of a task; its message is a sequence of at most one.
StatusFromWire(w) ==
    [state |-> StateFromWire(Member(w, "state", "")),
     message |-> Mapped(MessageFromWire, Member(w, "message", <<>>))]
StatusToWire(s) ==
    [state |-> StateToWire(s.state), message |-> Mapped(MessageToWire, s.message)]

NoStatus == [state |-> ""]
TaskFromWire(w) ==
    [kind |-> "task", id |-> Member(w, "id", ""),
     status |-> StatusFromWire(Member(w, "status", NoStatus)),
     artifacts |-> Mapped(ArtifactFromWire,
                          Capped(Member(w, "artifacts", <<>>), MaxArtifacts))]
TaskToWire(t) ==
    [kind |-> "task", id |-> t.id, status |-> StatusToWire(t.status),
     artifacts |-> Mapped(ArtifactToWire, t.artifacts)]

StatusUpdateFromWire(w) ==
    [kind |-> "status-update", taskId |-> Member(w, "taskId", ""),
     status |-> StatusFromWire(Member(w, "status", NoStatus))]
StatusUpdateToWire(e) ==
    [kind |-> "status-update", taskId |-> e.taskId, status |-> StatusToWire(e.status),
     final |-> e.status.state \in Terminal \union {"input-required"}]

ArtifactUpdateFromWire(w) ==
    [kind |-> "artifact-update", taskId |-> Member(w, "taskId", ""),
     artifact |-> ArtifactFromWire(Member(w, "artifact", [artifactId |-> ""])),
     append |-> Member(w, "append", FALSE)]
ArtifactUpdateToWire(e) ==
    [kind |-> "artifact-update", taskId |-> e.taskId,
     artifact |-> ArtifactToWire(e.artifact), append |-> e.append]

(* --------------------------------- results ------------------------------ *)

\* sniffKind: what a result without a kind is, by the members it has, from the
\* most to the least specific.
SniffKind(w) ==
    IF {"artifactId", "artifact"} \cap DOMAIN w # {} THEN "artifact-update"
    ELSE IF {"taskId", "status"} \subseteq DOMAIN w THEN "status-update"
    ELSE IF {"messageId", "parts"} \subseteq DOMAIN w THEN "message"
    ELSE IF {"id", "status"} \subseteq DOMAIN w THEN "task"
    ELSE "unknown"

Kinds == {"task", "status-update", "artifact-update", "message"}
ResultKind(w) ==
    LET k == Member(w, "kind", "")
    IN IF k \in Kinds THEN k ELSE IF k = "" THEN SniffKind(w) ELSE "unknown"

\* Push configs: 0.3 lists the schemes of an authentication, 1.x has one.  An
\* authentication is a sequence of at most one.
AuthFromWire(a) == [scheme |-> IF a.schemes = <<>> THEN "" ELSE a.schemes[1]]
AuthToWire(a) == [schemes |-> IF a.scheme = "" THEN <<>> ELSE <<a.scheme>>]
PushFromWire(w) ==
    [url |-> Member(w, "url", ""), auth |-> Mapped(AuthFromWire, Member(w, "auth", <<>>))]
PushToWire(p) == [url |-> p.url, auth |-> Mapped(AuthToWire, p.auth)]

\* eventFromResult, for a kind that is known, and the flag it reports.
EventFromResult(w) ==
    CASE ResultKind(w) = "task" -> TaskFromWire(w)
      [] ResultKind(w) = "status-update" -> StatusUpdateFromWire(w)
      [] ResultKind(w) = "artifact-update" -> ArtifactUpdateFromWire(w)
      [] ResultKind(w) = "message" -> MessageFromWire(w)
FinalOf(w) == ResultKind(w) = "status-update" /\ Member(w, "final", FALSE)

EventToWire(e) ==
    CASE e.kind = "task" -> TaskToWire(e)
      [] e.kind = "status-update" -> StatusUpdateToWire(e)
      [] e.kind = "artifact-update" -> ArtifactUpdateToWire(e)
      [] e.kind = "message" -> MessageToWire(e)
=============================================================================
