------------------------------ MODULE RpcConsole ------------------------------
(****************************************************************************)
(* The JSON-RPC console (src/internal/rpcconsole/console.go) and its pane   *)
(* (src/internal/tui/view_console.go), on top of the wire log: every call   *)
(* is an exchange of WireLog, among the exchanges of the session.           *)
(*                                                                          *)
(* A call runs in a goroutine of its own and its result comes back to the   *)
(* update loop as a message that does not say which console it was made     *)
(* from.  /connect and /disconnect give the pane another console while a    *)
(* call is out.  A frame of a stream counts as one byte, so the caps on     *)
(* frames and on bytes are one cap here, as are MaxResponseBytes' and       *)
(* theirs.  The form of the pane is in Keyboard; drawing is left out.       *)
(****************************************************************************)
EXTENDS WireLog

CONSTANTS
    NoExch,        \* no exchange
    HistorySize,   \* exchanges a console retains
    MaxResponse,   \* MaxResponseBytes, MaxFrames, MaxStreamBytes
    MaxTargets     \* targets the pane is given (bound)

ASSUME ConsoleAssumption ==
    /\ NoExch \notin Exch
    /\ HistorySize \in Nat \ {0}
    /\ MaxResponse \in Nat /\ MaxTargets \in Nat

VARIABLES
    target,    \* the console in use, 0 for none
    made,      \* consoles made so far
    inflight,  \* ConsolePane.inflight
    answer,    \* the call whose answer the viewport shows
    strayed,   \* a late answer was shown since the last SetTarget (history variable)
    history,   \* the history ring of the console in use
    call       \* the exchanges that are console calls

paneVars == <<target, made, inflight, answer, strayed>>
consoleVars == <<paneVars, history, call>>
vars == <<wireVars, consoleVars>>

NoCall == [con |-> 0, st |-> "none", sse |-> FALSE, got |-> 0, err |-> "none"]

(* --------------------------- target of the pane ------------------------- *)

\* reset, by SetTarget and Clear: the flag goes, the call that set it stays out.
Reset ==
    /\ inflight' = FALSE
    /\ answer' = NoExch
    /\ strayed' = FALSE
    /\ history' = <<>>

SetTarget ==
    /\ made < MaxTargets
    /\ made' = made + 1 /\ target' = made + 1
    /\ Reset
    /\ UNCHANGED <<call, wireVars>>

Clear ==
    /\ target # 0
    /\ target' = 0
    /\ Reset
    /\ UNCHANGED <<made, call, wireVars>>

\* consoleSend: its early returns, then the call in a goroutine of its own.
\* The form it checks is Keyboard's.
CanSendBusy == target # 0                                          \* (variant)
CanSend == target # 0 /\ ~inflight

ConsoleSend(x, q) ==
    /\ CanSend
    /\ inflight' = TRUE
    /\ call' = [call EXCEPT ![x] = [NoCall EXCEPT !.con = target, !.st = "out"]]
    /\ Start(x, q)
    /\ UNCHANGED <<target, made, answer, strayed, history>>

(* --------------------------- the calls -------------------------- *)

Out(x) == call[x].st = "out"

\* record: into the history of the console that made the call, which nobody
\* sees any more when it is not the one in use.
Recorded(x) ==
    IF call[x].con # target THEN history
    ELSE IF Len(history) < HistorySize THEN Append(history, x)
    ELSE Append(Tail(history), x)

\* Call returns with what it got, after the body was closed, and its result
\* becomes a message.
Return(x, err) ==
    /\ call' = [call EXCEPT ![x].st = "result", ![x].got = Min({ex[x].read, MaxResponse}),
                            ![x].err = err]
    /\ history' = Recorded(x)
    /\ UNCHANGED paneVars

\* The request fails, or CallTimeout expires before there is a response.
CallFails(x) ==
    /\ Out(x)
    /\ Fail(x)
    /\ Return(x, "failed")

\* The head of the response: an event stream or one body.
CallAnswered(x, n, sse) ==
    /\ Out(x)
    /\ Respond(x, n)
    /\ call' = [call EXCEPT ![x].sse = sse]
    /\ UNCHANGED <<paneVars, history>>

\* What keeps the reader going: collectFrames stops as soon as it has
\* MaxResponse frames, readCapped reads one byte more than that.
WantsExactly(x) == ex[x].read < MaxResponse                        \* (variant)
Wants(x) == ex[x].read < MaxResponse + (IF call[x].sse THEN 0 ELSE 1)

CallReads(x) ==
    /\ Out(x) /\ Wants(x)
    /\ Read(x, 1)
    /\ UNCHANGED consoleVars

CallReadsEnd(x) ==
    /\ Out(x) /\ Wants(x) /\ ex[x].read = ex[x].total
    /\ ReadEnd(x)
    /\ UNCHANGED consoleVars

\* A read fails, or CallTimeout expires in the middle of the body.
CallReadFails(x) ==
    /\ Out(x)
    /\ ReadError(x)
    /\ UNCHANGED consoleVars

\* The verdict on what was read, given how the reading ended.
Verdict(x) ==
    IF ex[x].st = "broken" THEN "failed"
    ELSE IF ex[x].read >= MaxResponse + (IF call[x].sse THEN 0 ELSE 1) THEN "cap"
    ELSE "none"

\* The reader has got to an end, an error or a cap.
Done(x) == ex[x].st \in {"eof", "broken"} \/ (ex[x].st = "body" /\ ~Wants(x))

\* The reader is done: the body is closed, then the call recorded.
CallLeaks(x) ==                                                    \* (variant)
    /\ Out(x)
    /\ Done(x)
    /\ Return(x, Verdict(x))
    /\ UNCHANGED wireVars
CallCloses(x) ==
    /\ Out(x)
    /\ Done(x)
    /\ Close(x)
    /\ Return(x, Verdict(x))

\* consoleResultMsg: applyResult, whichever console the call was made from.
ApplyResult(x) ==
    /\ call[x].st = "result"
    /\ call' = [call EXCEPT ![x].st = "shown"]
    /\ inflight' = FALSE
    /\ answer' = x
    /\ strayed' = (strayed \/ call[x].con # target)
    /\ UNCHANGED <<target, made, history, wireVars>>

(* ------------------- the other traffic of the program ------------------- *)

Other(x) == call[x].st = "none"
Traffic(x) ==
    /\ Other(x)
    /\ \/ \E q \in Requests : Start(x, q)
       \/ Fail(x)
       \/ \E n \in 0..MaxUnits : Respond(x, n)
       \/ \E n \in 1..MaxUnits : Read(x, n)
       \/ ReadEnd(x)
       \/ ReadError(x)
       \/ Close(x)
    /\ UNCHANGED consoleVars

WirePane ==
    /\ SetEnabled \/ ShowWire \/ ClearWire
    /\ UNCHANGED consoleVars

(* ------------------------------------------------------------------------ *)

Init ==
    /\ WireInit
    /\ target = 0 /\ made = 0
    /\ inflight = FALSE /\ answer = NoExch /\ strayed = FALSE
    /\ history = <<>>
    /\ call = [x \in Exch |-> NoCall]

CallStep(x) ==
    \/ CallFails(x)
    \/ \E n \in 0..MaxUnits, sse \in BOOLEAN : CallAnswered(x, n, sse)
    \/ CallReads(x) \/ CallReadsEnd(x) \/ CallReadFails(x) \/ CallCloses(x)
    \/ ApplyResult(x)

Next ==
    \/ SetTarget
    \/ Clear
    \/ \E x \in Exch, q \in {r \in Requests : r.replay} : ConsoleSend(x, q)
    \/ \E x \in Exch : CallStep(x) \/ Traffic(x)
    \/ WirePane

Spec == Init /\ [][Next]_vars

(* ------------------------------ properties ------------------------------ *)

CallsOut(c) == {x \in Exch : call[x].con = c /\ call[x].st \in {"out", "result"}}

TypeOK ==
    /\ WireTypeOK
    /\ target \in 0..made /\ made \in 0..MaxTargets
    /\ Len(history) <= HistorySize
    /\ inflight \in BOOLEAN
    /\ answer \in Exch \union {NoExch}

\* The spinner turns only for a call of this console that is still to answer,
\* and "a call is already in flight" keeps a console to one call, unless the
\* late answer of another console has cleared the flag; and the answer shown
\* is this console's, unless it was such a late one.
OneCallAtATime ==
    /\ TypeOK
    /\ inflight => CallsOut(target) # {}
    /\ Cardinality(CallsOut(target)) > 1 => strayed
    /\ answer # NoExch => strayed \/ call[answer].con = target

\* An answer without an error is all the agent sent; one that was cut at a
\* cap, or broken off, says so (the off-by-one of readCapped).
WholeOrTold ==
    \A x \in Exch :
      call[x].st \in {"result", "shown"} /\ call[x].err = "none"
        => call[x].got = ex[x].total

\* Every exchange of the console is in the wire log before its answer is
\* shown, for the peek of an error and the wire pane.
LoggedBeforeAnswered ==
    \A x \in Exch :
      call[x].st \in {"result", "shown"} /\ ex[x].captured => x \in Range(log)
=============================================================================
