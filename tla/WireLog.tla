------------------------------- MODULE WireLog -------------------------------
(****************************************************************************)
(* The wire log (src/internal/wirelog/wirelog.go) and the pane that shows   *)
(* it (src/internal/tui/view_wire.go).                                      *)
(*                                                                          *)
(* A loggingTransport sits below every HTTP client of the program.  Whether *)
(* an exchange is captured is decided when its request starts; its entry    *)
(* reaches the ring when the request fails, or when the response body has   *)
(* been read to its end or is closed, once.  Exchanges of many goroutines   *)
(* interleave.  Bodies are numbers of bytes (of the small caps below); what *)
(* is in them, headers and their redaction are left out.  Time is a clock   *)
(* that moves with every start of an exchange and every clearing.           *)
(****************************************************************************)
EXTENDS Naturals, FiniteSets, SequencesExt, FiniteSetsExt

CONSTANTS
    Exch,        \* HTTP exchanges
    Ring,        \* entries the Logger retains
    MaxBody,     \* MaxBodyBytes: bytes of a body that are captured
    HardCap,     \* readHardCap: bytes read of a body that cannot be replayed
    Requests,    \* request bodies: [len : Nat, replay : BOOLEAN]
    MaxUnits,    \* bytes of a response (bound)
    MaxTurns     \* clearings of the pane and switchings of the capture (bound)

ASSUME WireLogAssumption ==
    /\ Ring \in Nat \ {0}
    /\ MaxBody \in Nat /\ HardCap \in Nat /\ MaxBody <= HardCap
    /\ MaxUnits \in Nat /\ MaxTurns \in Nat
    /\ Requests \subseteq [len : Nat, replay : BOOLEAN]

VARIABLES
    enabled,     \* Logger.enabled
    entries,     \* Logger.entries, oldest first
    ex,          \* the exchanges
    log,         \* exchanges in the order they were committed (history)
    clock,       \* time
    wp           \* the wire pane: clearedAt, cacheKey, cache

wireVars == <<enabled, entries, ex, log, clock, wp>>

\* The states of an exchange: its request is out, its body is being read, has
\* been read to the end or to an error, or is closed (or never came).
States == {"idle", "out", "body", "eof", "broken", "closed", "failed"}

NoKey == [n |-> 0, lastAt |-> 0, cleared |-> 0, lastByte |-> 0]

\* captureRequestBody: how much of the body the log keeps, and how much goes
\* over the wire.  A body that can be replayed is copied and left alone, any
\* other is drained and what was read is sent instead.
CapturedRequest(q) == Min({q.len, IF q.replay THEN MaxBody + 1 ELSE HardCap + 1})
OnWireReplaced(q) == CapturedRequest(q)                          \* (variant)
OnWire(q) == IF q.replay THEN q.len ELSE CapturedRequest(q)

Entry(x, failed) ==
    [x |-> x, at |-> ex[x].at, err |-> failed,
     req |-> Min({CapturedRequest(ex[x].q), MaxBody}),
     resp |-> ex[x].buf, trunc |-> ex[x].cut]

\* add: append to the ring, evicting the oldest.
Add(e) == IF Len(entries) < Ring THEN Append(entries, e) ELSE Append(Tail(entries), e)

(* ------------------------------- exchanges ------------------------------ *)

SetEnabled ==
    /\ wp.turns < MaxTurns
    /\ enabled' = ~enabled
    /\ wp' = [wp EXCEPT !.turns = @ + 1]
    /\ UNCHANGED <<entries, ex, log, clock>>

\* RoundTrip up to the call of the base transport.
Start(x, q) ==
    /\ ex[x].st = "idle"
    /\ clock' = clock + 1
    /\ ex' = [ex EXCEPT ![x].st = "out", ![x].q = q, ![x].at = clock + 1,
                        ![x].captured = enabled,
                        ![x].wire = IF enabled THEN OnWire(q) ELSE q.len]
    /\ UNCHANGED <<enabled, entries, log, wp>>

\* The base transport returns an error: the entry is complete.
Fail(x) ==
    /\ ex[x].st = "out"
    /\ ex' = [ex EXCEPT ![x].st = "failed"]
    /\ IF ex[x].captured
         THEN /\ entries' = Add(Entry(x, TRUE))
              /\ log' = Append(log, x)
         ELSE UNCHANGED <<entries, log>>
    /\ UNCHANGED <<enabled, clock, wp>>

\* The response head arrives; its body will be n bytes long.
Respond(x, n) ==
    /\ ex[x].st = "out"
    /\ ex' = [ex EXCEPT ![x].st = "body", ![x].total = n]
    /\ UNCHANGED <<enabled, entries, log, clock, wp>>

\* bodyCapture.write
Write(r, n) ==
    [r EXCEPT !.read = @ + n,
              !.buf = Min({@ + n, MaxBody}),
              !.cut = @ \/ (n > 0 /\ r.buf + n > MaxBody)]

\* captureReadCloser.commit, for the record r of x: once.
CommitAgain(x, r) ==                                               \* (variant)
    /\ ex' = [ex EXCEPT ![x] = [r EXCEPT !.done = TRUE]]
    /\ IF r.captured
         THEN /\ entries' = Add([Entry(x, FALSE) EXCEPT !.resp = r.buf, !.trunc = r.cut])
              /\ log' = Append(log, x)
         ELSE UNCHANGED <<entries, log>>
Commit(x, r) ==
    /\ ex' = [ex EXCEPT ![x] = [r EXCEPT !.done = TRUE]]
    /\ IF r.captured /\ ~r.done
         THEN /\ entries' = Add([Entry(x, FALSE) EXCEPT !.resp = r.buf, !.trunc = r.cut])
              /\ log' = Append(log, x)
         ELSE UNCHANGED <<entries, log>>

\* captureReadCloser.Read hands on n bytes; the last of them may come with
\* the end of the body, or the end alone.
Read(x, n) ==
    /\ ex[x].st = "body"
    /\ n > 0 /\ ex[x].read + n <= ex[x].total
    /\ ex' = [ex EXCEPT ![x] = Write(@, n)]
    /\ UNCHANGED <<enabled, entries, log, clock, wp>>

ReadEnd(x) ==
    /\ ex[x].st = "body"
    /\ Commit(x, [Write(ex[x], ex[x].total - ex[x].read) EXCEPT !.st = "eof"])
    /\ UNCHANGED <<enabled, clock, wp>>

ReadError(x) ==
    /\ ex[x].st = "body"
    /\ ex' = [ex EXCEPT ![x].st = "broken"]
    /\ UNCHANGED <<enabled, entries, log, clock, wp>>

Close(x) ==
    /\ ex[x].st \in {"body", "eof", "broken"}
    /\ Commit(x, [ex[x] EXCEPT !.st = "closed"])
    /\ UNCHANGED <<enabled, clock, wp>>

(* ------------------------------- the pane ------------------------------- *)

\* visible: what the last clearing does not hide.
Visible(es, cleared) ==
    IF cleared = 0 THEN es ELSE SelectSeq(es, LAMBDA e : e.at > cleared)

\* cacheKeyFor, at one width.
CacheKeyCounting(es, cleared) ==                                   \* (variant)
    [n |-> Len(es), lastAt |-> 0, cleared |-> cleared, lastByte |-> 0]
CacheKey(es, cleared) ==
    IF es = <<>> THEN [NoKey EXCEPT !.cleared = cleared]
    ELSE [n |-> Len(es), lastAt |-> Last(es).at, cleared |-> cleared,
          lastByte |-> Last(es).resp + IF Last(es).err THEN 0 ELSE 1]

\* paneBody for the wire pane: Sync with a snapshot, then View.
ShowWire ==
    LET key == CacheKey(entries, wp.cleared)
    IN wp' = [wp EXCEPT !.key = key,
                        !.drawn = TRUE,
                        !.cache = IF wp.drawn /\ wp.key = key THEN @
                                  ELSE Visible(entries, wp.cleared)]
    /\ UNCHANGED <<enabled, entries, ex, log, clock>>

\* ctrl+l: hide what was started before now.
ClearWire ==
    /\ wp.turns < MaxTurns
    /\ clock' = clock + 1
    /\ wp' = [wp EXCEPT !.cleared = clock + 1, !.turns = @ + 1]
    /\ UNCHANGED <<enabled, entries, ex, log>>

WireInit ==
    /\ enabled = TRUE
    /\ entries = <<>>
    /\ ex = [x \in Exch |-> [st |-> "idle", q |-> [len |-> 0, replay |-> TRUE], at |-> 0,
                             captured |-> FALSE, wire |-> 0, total |-> 0, read |-> 0,
                             buf |-> 0, cut |-> FALSE, done |-> FALSE]]
    /\ log = <<>>
    /\ clock = 0
    /\ wp = [cleared |-> 0, turns |-> 0, key |-> NoKey,
             drawn |-> FALSE, cache |-> <<>>]

(* ------------------------------ properties ------------------------------ *)

\* Every variable has its type.
WireTypeOK ==
    /\ enabled \in BOOLEAN
    /\ Len(entries) <= Ring
    /\ \A i \in DOMAIN entries : entries[i].x \in Exch /\ entries[i].resp \in 0..MaxBody
    /\ \A x \in Exch :
         /\ ex[x].st \in States
         /\ ex[x].read \in 0..MaxUnits
         /\ ex[x].buf \in 0..MaxBody
    /\ clock \in Nat

\* The log tells what happened: an exchange that was captured is committed
\* once, when its request failed or its body ended or was closed, and never
\* before; the ring holds the newest; an entry's body is what its reader got,
\* capped, and says so when it was cut.
LogExact ==
    /\ IsInjective(log)
    /\ \A x \in Exch :
         x \in Range(log) <=> ex[x].captured /\ ex[x].st \in {"failed", "eof", "closed"}
    /\ [i \in DOMAIN entries |-> entries[i].x]
         = SubSeq(log, Max({0, Len(log) - Ring}) + 1, Len(log))
    /\ \A i \in DOMAIN entries :
         LET e == entries[i] IN
           /\ e.resp = Min({ex[e.x].read, MaxBody})
           /\ e.trunc <=> ex[e.x].read > MaxBody

\* Capturing changes nothing on the wire: the agent gets the body the caller
\* gave, up to the bound on bodies that have to be drained to be captured.
CaptureTransparent ==
    \A x \in Exch :
      ex[x].st # "idle" =>
        \/ ex[x].wire = ex[x].q.len
        \/ /\ ex[x].captured /\ ~ex[x].q.replay
           /\ ex[x].q.len > HardCap /\ ex[x].wire = HardCap + 1

\* The pane's cached document is the one it would draw now, whatever was
\* captured, evicted, or cleared since it was built.
FramesShownTrue ==
    wp.drawn /\ wp.key = CacheKey(entries, wp.cleared)
      => wp.cache = Visible(entries, wp.cleared)
=============================================================================
