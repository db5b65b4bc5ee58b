--------------------------- MODULE SurfacePaneMC ---------------------------
(***************************************************************************)
(* Instances of SurfacePane: two surfaces, one with an editor that changes *)
(* its kind, one with a list of rows and an openUrl button, and an agent   *)
(* that may send any of a few messages in any order.                       *)
(***************************************************************************)
EXTENDS SurfacePane

CONSTANTS x, A

\* Components.
text(p) == [kind |-> "text", path |-> p]
number(p) == [kind |-> "number", path |-> p]
choice(p) == [kind |-> "choice", path |-> p]
button(a) == [kind |-> "button", act |-> a]
column(cs) == [kind |-> "column", children |-> cs]

\* Envelopes.
create(s, cs, d) == [op |-> "createSurface", id |-> s, components |-> cs, data |-> d]
components(s, cs) == [op |-> "updateComponents", id |-> s, components |-> cs]
model(s, d) == [op |-> "replaceDataModel", id |-> s, data |-> d]
data(s, p, v) == [op |-> "updateDataModel", id |-> s, path |-> p, value |-> v]
delete(s) == [op |-> "deleteSurface", id |-> s]

Form(d) == create(1, "root" :> column(<<"f", "b">>) @@ "f" :> text(x)
                       @@ "b" :> button("event"), d)
List == create(2, "root" :> column(<<"l", "l", "u">>) @@ "u" :> button("openUrl")
                    @@ "l" :> [kind |-> "list", of |-> "t"] @@ "t" :> number(Relative),
               [NoData EXCEPT !.rows = <<NoValue, A>>])

message(envelopes) == [ofTask |-> FALSE, envelopes |-> envelopes]
ofTask(envelopes) == [ofTask |-> TRUE, envelopes |-> envelopes]

MCMessages ==
  { message(<<>>),
    ofTask(<<Form(NoData), data(1, x, A)>>),
    \* an update that comes before its surface, and does nothing
    message(<<data(2, 1, A), List>>),
    \* the focused editor moves and changes its kind
    message(<<components(1, "root" :> column(<<"b", "f">>) @@ "f" :> choice(x))>>),
    \* it is a text again, for numbers, and its value is gone
    message(<<components(1, "f" :> number(x)), model(1, NoData), data(2, 1, NoValue)>>),
    message(<<delete(1), delete(2)>>),
    \* a form takes the place of one with the same identifier
    message(<<delete(1), Form([NoData EXCEPT !.field[x] = Blocked])>>) }
=============================================================================
