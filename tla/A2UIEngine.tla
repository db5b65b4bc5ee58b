----------------------------- MODULE A2UIEngine -----------------------------
(***************************************************************************)
(* The A2UI engine: which surfaces a session has, what they consist of,    *)
(* and what a batch of envelopes does to them.  The operators are          *)
(* functions of an engine record; SurfacePane gives it a life.             *)
(*                                                                         *)
(* A surface is an object of its own: a widget keeps a pointer to the one  *)
(* it was opened on, whatever becomes of the identifier.  Objects are      *)
(* numbers, 0 is nil.  An engine record has                                *)
(*   live    the object under every identifier                             *)
(*   heap    the content of every object                                   *)
(*   recent  the live identifiers in the order of their UpdatedAt          *)
(*   synced  the object whose UpdatedAt is still the one the surface pane  *)
(*           has recorded (syncedAt), or 0                                 *)
(*                                                                         *)
(* The data model keeps what editors can tell apart: some fields and one   *)
(* list.  A path is a field or the number of a row of the list.            *)
(***************************************************************************)
EXTENDS Naturals, FiniteSets, SequencesExt, TLC

CONSTANTS
  SurfaceIDs,     \* the identifiers the agent uses, in their sorting order
  Fields,         \* data-model paths outside the list
  NoValue,        \* no value
  Blocked,        \* of a path that runs through a value that is no object
  Root,           \* the component "root"
  MaxComponents   \* MaxComponentsPerSurface

ASSUME EngineAssumption ==
  /\ SurfaceIDs \subseteq Nat \ {0} /\ IsFiniteSet(SurfaceIDs)
  /\ Fields \cap Nat = {}
  /\ NoValue # Blocked
  /\ MaxComponents \in Nat

\* One object per identifier, and the one a widget may still hold.
Objects == 1 .. Cardinality(SurfaceIDs) + 1

NoData == [field |-> [f \in Fields |-> NoValue], rows |-> <<>>]
EmptySurface == [components |-> <<>>, data |-> NoData]

NoEngine == [live   |-> [s \in SurfaceIDs |-> 0],
             heap   |-> [n \in Objects |-> EmptySurface],
             recent |-> <<>>,
             synced |-> 0]

LiveIDs(e) == {s \in SurfaceIDs : e.live[s] # 0}

-----------------------------------------------------------------------------
(* JSON pointers, as far as the paths above need them.                     *)

Get(data, p) ==
  IF p \in Fields
    THEN IF data.field[p] = Blocked THEN NoValue ELSE data.field[p]
    ELSE IF p \in DOMAIN data.rows THEN data.rows[p] ELSE NoValue

\* One past the end of a list appends; beyond it is out of range.
CanSet(data, p) ==
  IF p \in Fields THEN data.field[p] # Blocked ELSE p \in 1 .. Len(data.rows) + 1

Set(data, p, v) ==
  IF p \in Fields
    THEN [data EXCEPT !.field[p] = v]
    ELSE [data EXCEPT !.rows = IF p \in DOMAIN @ THEN [@ EXCEPT ![p] = v]
                                                 ELSE Append(@, v)]

\* A row that goes makes those behind it move up; what is not there is not missed.
Delete(data, p) ==
  CASE p \in Fields /\ data.field[p] # Blocked -> [data EXCEPT !.field[p] = NoValue]
    [] p \in DOMAIN data.rows                  -> [data EXCEPT !.rows = RemoveAt(@, p)]
    [] OTHER                                   -> data

-----------------------------------------------------------------------------
(* Envelopes.  An operator returns the engine it was given when the code   *)
(* returns an error.                                                       *)

\* Object n has the content c and a new UpdatedAt; s is its identifier, if it has one.
Write(e, n, c, s) ==
  [live   |-> e.live,
   heap   |-> [e.heap EXCEPT ![n] = c],
   recent |-> IF s \in SurfaceIDs /\ e.live[s] = n
                THEN Append(RemoveFirst(e.recent, s), s)
                ELSE e.recent,
   synced |-> IF e.synced = n THEN 0 ELSE e.synced]

\* A new object is one that neither an identifier nor the widget points to.
applyCreate(e, env, held) ==
  IF e.live[env.id] # 0 \/ Cardinality(DOMAIN env.components) > MaxComponents
    THEN e
    ELSE LET n == CHOOSE n \in Objects \ {held} : \A s \in SurfaceIDs : e.live[s] # n
         IN  Write([e EXCEPT !.live[env.id] = n], n,
                   [components |-> env.components, data |-> env.data], env.id)

\* A component replaces the one of its name.
Upserted(old, new) ==
  [c \in DOMAIN old \cup DOMAIN new |-> IF c \in DOMAIN new THEN new[c] ELSE old[c]]

applyUpdateComponents(e, env) ==
  LET n == e.live[env.id]
      c == e.heap[n]
  IN  IF n = 0 \/ Cardinality(DOMAIN c.components)
                    + Cardinality(DOMAIN env.components) > MaxComponents
        THEN e
        ELSE Write(e, n, [c EXCEPT !.components = Upserted(@, env.components)], env.id)

\* The whole model, given or deleted.
applyReplaceDataModel(e, env) ==
  LET n == e.live[env.id]
  IN  IF n = 0 THEN e ELSE Write(e, n, [e.heap[n] EXCEPT !.data = env.data], env.id)

\* One path: null deletes it.
applyUpdateDataModel(e, env) ==
  LET n == e.live[env.id]
      d == e.heap[n].data
  IN  CASE n = 0 -> e
        [] n # 0 /\ env.value = NoValue ->
             Write(e, n, [e.heap[n] EXCEPT !.data = Delete(d, env.path)], env.id)
        [] n # 0 /\ env.value # NoValue /\ CanSet(d, env.path) ->
             Write(e, n, [e.heap[n] EXCEPT !.data = Set(d, env.path, env.value)], env.id)
        [] OTHER -> e

\* Nobody points to object n any more, unless it is live.
Freed(e, n) ==
  IF \E s \in SurfaceIDs : e.live[s] = n THEN e
  ELSE [live   |-> e.live,
        heap   |-> [k \in Objects |-> IF k = n THEN EmptySurface ELSE e.heap[k]],
        recent |-> e.recent,
        synced |-> e.synced]

\* The object lives on if the widget holds it.
applyDelete(e, env, held) ==
  LET n == e.live[env.id]
  IN  IF n = 0
        THEN e
        ELSE LET gone == [live   |-> [e.live EXCEPT ![env.id] = 0],
                          heap   |-> e.heap,
                          recent |-> RemoveFirst(e.recent, env.id),
                          synced |-> e.synced]
             IN  IF n = held THEN gone ELSE Freed(gone, n)

applyEnvelope(e, env, held) ==
  CASE env.op = "createSurface"    -> applyCreate(e, env, held)
    [] env.op = "updateComponents" -> applyUpdateComponents(e, env)
    [] env.op = "replaceDataModel" -> applyReplaceDataModel(e, env)
    [] env.op = "updateDataModel"  -> applyUpdateDataModel(e, env)
    [] env.op = "deleteSurface"    -> applyDelete(e, env, held)

\* One envelope after the other; one that fails changes nothing and stops nothing.
Apply(e, batch, held) ==
  LET after[n \in 0..Len(batch)] ==
        IF n = 0 THEN e ELSE applyEnvelope(after[n - 1], batch[n], held)
  IN  after[Len(batch)]

=============================================================================
