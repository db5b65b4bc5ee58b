---------------------------- MODULE ConsoleProofs ----------------------------
(* Proofs about WireLog and RpcConsole, for any exchanges, bodies, caps, size *)
(* of the ring and of the history, and number of targets.                     *)
EXTENDS RpcConsole, SequenceTheorems, FiniteSetTheorems, TLAPS

Smaller(a, b) == IF a <= b THEN a ELSE b

------------------------------------------------------------------------------
(* An exchange.                                                              *)

Ended(r) == r.st \in {"failed", "eof", "closed"}

Exchanges ==
    [st : States, q : [len : Nat, replay : BOOLEAN], at : Nat,
     captured : BOOLEAN, wire : Nat, total : 0..MaxUnits, read : Nat,
     buf : Nat, cut : BOOLEAN, done : BOOLEAN]

\* The bytes that went to the agent, with and without capture.
Wired(r) ==
    \/ r.wire = r.q.len
    \/ r.captured /\ ~r.q.replay /\ r.q.len > HardCap /\ r.wire = HardCap + 1

\* What is captured of a body is what was read of it, capped; and only what has not
\* been committed can still be.
Exact(r) ==
    /\ r.read <= r.total /\ r.buf = Smaller(r.read, MaxBody) /\ r.cut = (r.read > MaxBody)
    /\ r.done = (r.st \in {"eof", "closed"})
    /\ r.st \in {"idle", "out", "failed"} => r.read = 0
    /\ r.st = "eof" => r.read = r.total
    /\ r.st # "idle" => Wired(r)

\* Every exchange has a time of its own.
Timed ==
    /\ clock \in Nat
    /\ \A x \in Exch : ex[x].at <= clock /\ (ex[x].st = "idle" \/ ex[x].at > 0)
    /\ \A x, y \in Exch : ex[x].st # "idle" /\ ex[x].at = ex[y].at => x = y

------------------------------------------------------------------------------
(* The ring and the pane.                                                    *)

\* The log has the exchanges that were captured and have ended, each once, and the
\* ring has the last of them.
Logged ==
    /\ log \in Seq(Exch)
    /\ \A i, j \in 1..Len(log) : log[i] = log[j] => i = j
    /\ \A x \in Exch : (\E i \in 1..Len(log) : log[i] = x) <=> ex[x].captured /\ Ended(ex[x])

EntryOf(e, x) ==
    /\ e.x = x /\ e.at = ex[x].at
    /\ e.resp = ex[x].buf /\ e.trunc = ex[x].cut
EntryRecs == [x : Exch, at : Nat, err : BOOLEAN, req : Nat, resp : Nat, trunc : BOOLEAN]
Ringed ==
    /\ entries \in Seq(EntryRecs) /\ Len(entries) = Smaller(Len(log), Ring)
    /\ \A i \in 1..Len(entries) : EntryOf(entries[i], log[Len(log) - Len(entries) + i])

\* The cached document is that of the entries there are, or its key is that of
\* entries that have since been pushed from the end of the ring for good.
Known(at) == at = 0 \/ \E i \in 1..Len(log) : ex[log[i]].at = at
Cached ==
    /\ wp = [cleared |-> wp.cleared, turns |-> wp.turns, key |-> wp.key,
             drawn |-> wp.drawn, cache |-> wp.cache]
    /\ wp.drawn =>
         /\ Known(wp.key.lastAt)
         /\ \/ /\ wp.key = CacheKey(entries, wp.key.cleared)
               /\ wp.cache = Visible(entries, wp.key.cleared)
            \/ entries # <<>> /\ wp.key.lastAt # Last(entries).at

ExchSound == ex \in [Exch -> Exchanges] /\ \A x \in Exch : Exact(ex[x])
WireInv   == enabled \in BOOLEAN /\ ExchSound /\ Timed /\ Logged /\ Ringed /\ Cached

------------------------------------------------------------------------------
(* The console.                                                              *)

Calls == [con : 0..made, st : {"none", "out", "result", "shown"}, sse : BOOLEAN,
          got : Nat, err : {"none", "failed", "cap"}]

\* A call has its exchange to itself, and is over when the exchange is.
Attended ==
    /\ call \in [Exch -> Calls]
    /\ \A x \in Exch :
         /\ call[x].st # "none" => ex[x].st # "idle" /\ call[x].con # 0
         /\ call[x].st = "out" => ex[x].st \in {"out", "body", "eof", "broken"}
         /\ call[x].st \in {"result", "shown"} => ex[x].st \in {"failed", "closed"}

\* A console has one call out when its flag is set, and else none, unless a late
\* answer has cleared the flag.
Alone ==
    /\ inflight => CallsOut(target) # {}
    /\ ~strayed => \A x, y \in CallsOut(target) : x = y
    /\ ~strayed /\ ~inflight => CallsOut(target) = {}

Own == answer # NoExch => call[answer].st = "shown" /\ (strayed \/ call[answer].con = target)

PaneTypes ==
    /\ target \in 0..made /\ made \in 0..MaxTargets
    /\ history \in Seq(Exch) /\ Len(history) <= HistorySize
    /\ inflight \in BOOLEAN /\ strayed \in BOOLEAN /\ answer \in Exch \union {NoExch}

Inv == WireInv /\ PaneTypes /\ Attended /\ Alone /\ Own /\ WholeOrTold
------------------------------------------------------------------------------
(* Helpers.                                                                  *)

\* The least of two numbers.
LEMMA MinOfTwo ==
    ASSUME NEW a \in Nat, NEW b \in Nat
    PROVE  Min({a, b}) = Smaller(a, b)
  <1> DEFINE S == {a, b}
             P(m) == m \in S /\ \A y \in S : m <= y
  <1>1. P(Smaller(a, b)) /\ \A m : P(m) => m = Smaller(a, b)  BY DEF Smaller
  <1>2. Min(S) = CHOOSE m : P(m)  BY DEF Min
  <1> HIDE DEF S, P
  <1>3. P(CHOOSE m : P(m))  BY <1>1
  <1>4. Min(S) = Smaller(a, b)  BY <1>1, <1>2, <1>3
  <1> QED  BY <1>4 DEF S

\* Where the window of the ring begins in the log.
LEMMA MaxOfTwo ==
    ASSUME NEW b \in Int
    PROVE  Max({0, b}) = IF b <= 0 THEN 0 ELSE b
  <1> DEFINE S == {0, b}
             P(m) == m \in S /\ \A y \in S : m >= y
             big == IF b <= 0 THEN 0 ELSE b
  <1>1. P(big) /\ \A m : P(m) => m = big  OBVIOUS
  <1>2. Max(S) = CHOOSE m : P(m)  BY DEF Max
  <1> HIDE DEF S, P, big
  <1>3. P(CHOOSE m : P(m))  BY <1>1
  <1>4. Max(S) = big  BY <1>1, <1>2, <1>3
  <1> QED  BY <1>4 DEF S, big

------------------------------------------------------------------------------
(* Every step of an exchange x gives it a record r and touches the log only  *)
(* when it ends the exchange.                                                *)

Answered(e, x, r) ==
    e.x = x /\ e.at = r.at /\ e.resp = r.buf /\ e.trunc = r.cut

Turn(x, r) ==
    /\ r \in Exchanges /\ Exact(r)
    /\ ex' = [ex EXCEPT ![x] = r]
    /\ IF ex[x].st = "idle"
         THEN r.st = "out" /\ r.at = clock + 1 /\ clock' = clock + 1
         ELSE r.st # "idle" /\ r.at = ex[x].at /\ clock' = clock /\ r.captured = ex[x].captured
    /\ Ended(ex[x]) => /\ Ended(r) /\ r.read = ex[x].read /\ r.total = ex[x].total
                       /\ r.buf = ex[x].buf /\ r.cut = ex[x].cut
    /\ IF r.captured /\ Ended(r) /\ ~Ended(ex[x])
         THEN /\ log' = Append(log, x)
              /\ \E e \in EntryRecs : entries' = Add(e) /\ Answered(e, x, r)
         ELSE UNCHANGED <<entries, log>>
    /\ UNCHANGED <<enabled, wp>>

LEMMA CapturedInNat ==
    ASSUME NEW q \in [len : Nat, replay : BOOLEAN]
    PROVE  /\ q.len \in Nat /\ q.replay \in BOOLEAN
           /\ ~q.replay => CapturedRequest(q) = Smaller(q.len, HardCap + 1)
           /\ CapturedRequest(q) \in Nat
           /\ Min({CapturedRequest(q), MaxBody}) \in Nat
  <1>1. q.len \in Nat /\ q.replay \in BOOLEAN  OBVIOUS
  <1> DEFINE most == IF q.replay THEN MaxBody + 1 ELSE HardCap + 1
  <1>2. most \in Nat  BY WireLogAssumption
  <1>3. ~q.replay => most = HardCap + 1  OBVIOUS
  <1>4. CapturedRequest(q) = Min({q.len, most})  BY DEF CapturedRequest
  <1> HIDE DEF most
  <1>5. CapturedRequest(q) = Smaller(q.len, most)  BY <1>1, <1>2, <1>4, MinOfTwo
  <1>6. CapturedRequest(q) \in Nat  BY <1>1, <1>2, <1>5 DEF Smaller
  <1>7. Min({CapturedRequest(q), MaxBody}) \in Nat
    BY <1>6, MinOfTwo, WireLogAssumption DEF Smaller
  <1> QED  BY <1>1, <1>3, <1>5, <1>6, <1>7

\* RoundTrip sends what it was given, up to the hard cap.
LEMMA StartTurns ==
    ASSUME NEW x \in Exch, NEW q \in Requests, WireInv, Start(x, q)
    PROVE  \E r : Turn(x, r)
  <1> DEFINE r == [ex[x] EXCEPT !.st = "out", !.q = q, !.at = clock + 1, !.captured = enabled,
                                !.wire = IF enabled THEN OnWire(q) ELSE q.len]
  <1>1. ex[x] \in Exchanges /\ Exact(ex[x]) /\ clock \in Nat /\ ex[x].st = "idle"
        /\ enabled \in BOOLEAN
    BY DEF WireInv, ExchSound, Timed, Start
  <1>2. ex' = [ex EXCEPT ![x] = r]  BY DEF Start, WireInv, ExchSound, Exchanges
  <1>3. q \in [len : Nat, replay : BOOLEAN]  BY WireLogAssumption
  <1>9. q.len \in Nat /\ q.replay \in BOOLEAN /\ OnWire(q) \in Nat
    BY <1>3, CapturedInNat DEF OnWire
  <1>10. OnWire(q) # q.len => ~q.replay /\ q.len > HardCap /\ OnWire(q) = HardCap + 1
    <2>1. CASE q.replay  BY <2>1 DEF OnWire
    <2>2. CASE ~q.replay
      <3>1. OnWire(q) = Smaller(q.len, HardCap + 1)  BY <1>3, <2>2, CapturedInNat DEF OnWire
      <3> QED  BY <1>9, <2>2, <3>1, WireLogAssumption DEF Smaller
    <2> QED  BY <2>1, <2>2
  <1>11. (IF enabled THEN OnWire(q) ELSE q.len) \in Nat  BY <1>9
  <1>12. "out" \in States /\ clock + 1 \in Nat  BY <1>1 DEF States
  <1>4. r \in Exchanges  BY <1>1, <1>3, <1>11, <1>12 DEF Exchanges
  <1>5. /\ r.st = "out" /\ r.q = q /\ r.at = clock + 1 /\ r.captured = enabled
        /\ r.wire = IF enabled THEN OnWire(q) ELSE q.len
        /\ r.read = ex[x].read /\ r.total = ex[x].total /\ r.buf = ex[x].buf
        /\ r.cut = ex[x].cut /\ r.done = ex[x].done
    BY <1>1 DEF Exchanges
  <1>6. Wired(r)  BY <1>1, <1>10, <1>5 DEF Wired
  <1> HIDE DEF r
  <1>7. Exact(r)  BY <1>1, <1>5, <1>6 DEF Exact
  <1>8. Turn(x, r)  BY <1>1, <1>2, <1>4, <1>5, <1>7 DEF Turn, Start, Ended
  <1> QED  BY <1>8
LEMMA EntryFits ==
    ASSUME NEW x \in Exch, WireInv, NEW failed \in BOOLEAN
    PROVE  /\ Entry(x, failed) \in EntryRecs
           /\ Entry(x, failed).x = x /\ Entry(x, failed).at = ex[x].at
           /\ Entry(x, failed).resp = ex[x].buf /\ Entry(x, failed).trunc = ex[x].cut
  <1>1. ex[x] \in Exchanges  BY DEF WireInv, ExchSound
  <1>2. Min({CapturedRequest(ex[x].q), MaxBody}) \in Nat
    BY <1>1, CapturedInNat DEF Exchanges
  <1> QED  BY <1>1, <1>2 DEF Entry, EntryRecs, Exchanges

\* A failed request is logged without a body.
LEMMA FailTurns ==
    ASSUME NEW x \in Exch, WireInv, Fail(x)
    PROVE  \E r : Turn(x, r)
  <1> DEFINE r == [ex[x] EXCEPT !.st = "failed"]
  <1>1. ex[x] \in Exchanges /\ Exact(ex[x]) /\ clock \in Nat /\ ex[x].st = "out"
    BY DEF WireInv, ExchSound, Timed, Fail
  <1>2. ex' = [ex EXCEPT ![x] = r]  BY DEF Fail, WireInv, ExchSound, Exchanges
  <1>3. r \in Exchanges  BY <1>1 DEF Exchanges, States
  <1>4. /\ r.st = "failed" /\ r.q = ex[x].q /\ r.at = ex[x].at /\ r.captured = ex[x].captured
        /\ r.wire = ex[x].wire /\ r.read = ex[x].read /\ r.total = ex[x].total
        /\ r.buf = ex[x].buf /\ r.cut = ex[x].cut /\ r.done = ex[x].done
    BY <1>1 DEF Exchanges
  <1> HIDE DEF r
  <1>5. Exact(r)  BY <1>1, <1>4 DEF Exact, Wired
  <1>6. Turn(x, r)
    <2>1. IF r.captured /\ Ended(r) /\ ~Ended(ex[x])
            THEN /\ log' = Append(log, x)
                 /\ \E e \in EntryRecs : entries' = Add(e) /\ Answered(e, x, r)
            ELSE UNCHANGED <<entries, log>>
      <3>1. CASE ex[x].captured
        <4>1. entries' = Add(Entry(x, TRUE)) /\ log' = Append(log, x)  BY <3>1 DEF Fail
        <4>2. Answered(Entry(x, TRUE), x, r) /\ Entry(x, TRUE) \in EntryRecs
          BY <1>4, EntryFits DEF Answered
        <4> QED  BY <1>1, <1>4, <3>1, <4>1, <4>2 DEF Ended
      <3>2. CASE ~ex[x].captured  BY <1>4, <3>2 DEF Fail
      <3> QED  BY <3>1, <3>2
    <2> QED  BY <1>1, <1>2, <1>3, <1>4, <1>5, <2>1 DEF Turn, Fail, Ended
  <1> QED  BY <1>6

\* The head of the response: nothing of the body is read yet.
LEMMA RespondTurns ==
    ASSUME NEW x \in Exch, NEW n \in 0..MaxUnits, WireInv, Respond(x, n)
    PROVE  \E r : Turn(x, r)
  <1> DEFINE r == [ex[x] EXCEPT !.st = "body", !.total = n]
  <1>1. ex[x] \in Exchanges /\ Exact(ex[x]) /\ clock \in Nat /\ ex[x].st = "out"
    BY DEF WireInv, ExchSound, Timed, Respond
  <1>2. ex' = [ex EXCEPT ![x] = r]  BY DEF Respond, WireInv, ExchSound, Exchanges
  <1>3. r \in Exchanges  BY <1>1 DEF Exchanges, States
  <1>4. /\ r.st = "body" /\ r.q = ex[x].q /\ r.at = ex[x].at /\ r.captured = ex[x].captured
        /\ r.wire = ex[x].wire /\ r.read = ex[x].read /\ r.total = n
        /\ r.buf = ex[x].buf /\ r.cut = ex[x].cut /\ r.done = ex[x].done
    BY <1>1 DEF Exchanges
  <1> HIDE DEF r
  <1>5. Exact(r)  BY <1>1, <1>4 DEF Exact, Wired
  <1>6. Turn(x, r)  BY <1>1, <1>2, <1>3, <1>4, <1>5 DEF Turn, Respond, Ended
  <1> QED  BY <1>6

LEMMA ReadErrorTurns ==
    ASSUME NEW x \in Exch, WireInv, ReadError(x)
    PROVE  \E r : Turn(x, r)
  <1> DEFINE r == [ex[x] EXCEPT !.st = "broken"]
  <1>1. ex[x] \in Exchanges /\ Exact(ex[x]) /\ clock \in Nat /\ ex[x].st = "body"
    BY DEF WireInv, ExchSound, Timed, ReadError
  <1>2. ex' = [ex EXCEPT ![x] = r]  BY DEF ReadError, WireInv, ExchSound, Exchanges
  <1>3. r \in Exchanges  BY <1>1 DEF Exchanges, States
  <1>4. /\ r.st = "broken" /\ r.q = ex[x].q /\ r.at = ex[x].at /\ r.captured = ex[x].captured
        /\ r.wire = ex[x].wire /\ r.read = ex[x].read /\ r.total = ex[x].total
        /\ r.buf = ex[x].buf /\ r.cut = ex[x].cut /\ r.done = ex[x].done
    BY <1>1 DEF Exchanges
  <1> HIDE DEF r
  <1>5. Exact(r)  BY <1>1, <1>4 DEF Exact, Wired
  <1>6. Turn(x, r)  BY <1>1, <1>2, <1>3, <1>4, <1>5 DEF Turn, ReadError, Ended
  <1> QED  BY <1>6

\* bodyCapture.write keeps the capped count.
LEMMA WriteExact ==
    ASSUME NEW r \in Exchanges, Exact(r), r.st = "body", NEW n \in Nat, r.read + n <= r.total
    PROVE  /\ Write(r, n) \in Exchanges
           /\ Write(r, n).st = "body" /\ Write(r, n).q = r.q /\ Write(r, n).at = r.at
           /\ Write(r, n).captured = r.captured /\ Write(r, n).wire = r.wire
           /\ Write(r, n).read = r.read + n /\ Write(r, n).total = r.total
           /\ Write(r, n).done = r.done
           /\ Exact(Write(r, n))
  <1>1. /\ r.buf \in Nat /\ r.read \in Nat /\ r.cut \in BOOLEAN /\ r.buf + n \in Nat
        /\ MaxBody \in Nat /\ r.total \in Nat
    BY WireLogAssumption DEF Exchanges
  <1>2. Min({r.buf + n, MaxBody}) = Smaller(r.buf + n, MaxBody)  BY <1>1, MinOfTwo
  <1> DEFINE w == Write(r, n)
             buf == Min({r.buf + n, MaxBody})
             cut == r.cut \/ (n > 0 /\ r.buf + n > MaxBody)
  <1>3. buf \in Nat /\ cut \in BOOLEAN  BY <1>1, <1>2 DEF Smaller
  <1>4. w = [r EXCEPT !.read = r.read + n, !.buf = buf, !.cut = cut]
    BY DEF Write, Exchanges
  <1>5. buf = Smaller(r.read + n, MaxBody)
    BY <1>1, <1>2 DEF Exact, Smaller
  <1>6. cut = (r.read + n > MaxBody)
    <2>1. r.buf = Smaller(r.read, MaxBody) /\ r.cut = (r.read > MaxBody)  BY DEF Exact
    <2>2. CASE r.read > MaxBody
      <3>1. r.cut  BY <2>1, <2>2
      <3>2. r.read + n > MaxBody  BY <1>1, <2>2
      <3> QED  BY <3>1, <3>2
    <2>3. CASE ~(r.read > MaxBody)
      <3>1. ~r.cut  BY <2>1, <2>3
      <3>2. r.buf = r.read  BY <1>1, <2>1, <2>3 DEF Smaller
      <3>3. cut = (n > 0 /\ r.read + n > MaxBody)  BY <3>1, <3>2
      <3>4. (n > 0 /\ r.read + n > MaxBody) <=> r.read + n > MaxBody  BY <1>1, <2>3
      <3> QED  BY <3>3, <3>4
    <2> QED  BY <2>2, <2>3
  <1> HIDE DEF buf, cut, w
  <1>9. r.read + n \in Nat  BY <1>1
  <1>10. w \in Exchanges  BY <1>3, <1>4, <1>9 DEF Exchanges
  <1>11. w.read = r.read + n /\ w.buf = buf /\ w.cut = cut  BY <1>4 DEF Exchanges
  <1>7. /\ w.st = "body" /\ w.q = r.q /\ w.at = r.at
        /\ w.captured = r.captured /\ w.wire = r.wire
        /\ w.total = r.total /\ w.done = r.done
    BY <1>4 DEF Exchanges
  <1>8. Exact(w)  BY <1>1, <1>5, <1>6, <1>7, <1>11 DEF Exact, Wired
  <1> QED  BY <1>7, <1>8, <1>10, <1>11 DEF w

LEMMA ReadTurns ==
    ASSUME NEW x \in Exch, NEW n \in Nat, WireInv, Read(x, n)
    PROVE  \E r : Turn(x, r)
  <1> DEFINE r == Write(ex[x], n)
  <1>1. ex[x] \in Exchanges /\ Exact(ex[x]) /\ clock \in Nat /\ ex[x].st = "body"
        /\ ex[x].read + n <= ex[x].total
    BY DEF WireInv, ExchSound, Timed, Read
  <1>2. ex' = [ex EXCEPT ![x] = r]  BY DEF Read
  <1> HIDE DEF r
  <1>3. r \in Exchanges /\ Exact(r) /\ r.st = "body" /\ r.at = ex[x].at
        /\ r.captured = ex[x].captured
    BY <1>1, WriteExact DEF r
  <1>4. Turn(x, r)  BY <1>1, <1>2, <1>3 DEF Turn, Read, Ended
  <1> QED  BY <1>4

\* commit of a body that has ended is the log's only entry for it.
LEMMA CommitTurns ==
    ASSUME NEW x \in Exch, WireInv, ex[x].st # "idle",
           NEW r \in Exchanges, r.st \in {"eof", "closed"},
           r.at = ex[x].at, r.captured = ex[x].captured,
           Exact([r EXCEPT !.done = TRUE]),
           r.done <=> Ended(ex[x]),
           Ended(ex[x]) => /\ r.read = ex[x].read /\ r.total = ex[x].total
                           /\ r.buf = ex[x].buf /\ r.cut = ex[x].cut,
           Commit(x, r), UNCHANGED <<enabled, clock, wp>>
    PROVE  \E s : Turn(x, s)
  <1> DEFINE s == [r EXCEPT !.done = TRUE]
             e == [Entry(x, FALSE) EXCEPT !.resp = r.buf, !.trunc = r.cut]
  <1>1. ex[x] \in Exchanges /\ clock \in Nat  BY DEF WireInv, ExchSound, Timed
  <1>2. /\ s \in Exchanges /\ s.st = r.st /\ s.at = r.at /\ s.captured = r.captured
        /\ s.read = r.read /\ s.total = r.total /\ s.buf = r.buf /\ s.cut = r.cut
    BY DEF Exchanges
  <1>3. ex' = [ex EXCEPT ![x] = s]  BY DEF Commit
  <1>4. Exact(s)  OBVIOUS
  <1>5. e \in EntryRecs /\ Answered(e, x, s)
    <2>1. r.buf \in Nat /\ r.cut \in BOOLEAN  BY DEF Exchanges
    <2>2. Entry(x, FALSE) \in EntryRecs /\ Entry(x, FALSE).x = x
          /\ Entry(x, FALSE).at = ex[x].at
      BY EntryFits
    <2> DEFINE f == Entry(x, FALSE)
    <2>3. e = [f EXCEPT !.resp = r.buf, !.trunc = r.cut]  OBVIOUS
    <2> HIDE DEF e, f, s
    <2>4. e \in EntryRecs  BY <2>1, <2>2, <2>3 DEF EntryRecs, f
    <2>5. e.x = f.x /\ e.at = f.at /\ e.resp = r.buf /\ e.trunc = r.cut
      BY <2>2, <2>3 DEF EntryRecs, f
    <2> QED  BY <1>2, <2>2, <2>4, <2>5 DEF Answered, f
  <1>6. CASE r.captured /\ ~r.done
    <2>1. entries' = Add(e) /\ log' = Append(log, x)  BY <1>6 DEF Commit
    <2> HIDE DEF s, e
    <2> QED  BY <1>1, <1>2, <1>3, <1>4, <1>5, <1>6, <2>1 DEF Turn, Ended
  <1>7. CASE ~(r.captured /\ ~r.done)
    <2>1. UNCHANGED <<entries, log>>  BY <1>7 DEF Commit
    <2> HIDE DEF s, e
    <2> QED  BY <1>1, <1>2, <1>3, <1>4, <1>7, <2>1 DEF Turn, Ended
  <1> QED  BY <1>6, <1>7

\* The end of a body is all that was to come.
LEMMA ReadEndTurns ==
    ASSUME NEW x \in Exch, WireInv, ReadEnd(x)
    PROVE  \E r : Turn(x, r)
  <1> DEFINE n == ex[x].total - ex[x].read
             w == Write(ex[x], n)
             r == [w EXCEPT !.st = "eof"]
             s == [r EXCEPT !.done = TRUE]
  <1>1. ex[x] \in Exchanges /\ Exact(ex[x]) /\ ex[x].st = "body"
    BY DEF WireInv, ExchSound, ReadEnd
  <1>2. n \in Nat /\ ex[x].read + n = ex[x].total  BY <1>1 DEF Exact, Exchanges
  <1> HIDE DEF n
  <1>9. ex[x].total \in Nat  BY <1>1 DEF Exchanges
  <1>10. ex[x].read + n <= ex[x].total  BY <1>2, <1>9
  <1>3. /\ w \in Exchanges /\ Exact(w) /\ w.st = "body" /\ w.at = ex[x].at
        /\ w.captured = ex[x].captured /\ w.read = w.total /\ w.done = ex[x].done
    BY <1>1, <1>2, <1>10, WriteExact
  <1>4. Commit(x, r) /\ UNCHANGED <<enabled, clock, wp>>  BY DEF ReadEnd, n
  <1> HIDE DEF w
  <1>5. r \in Exchanges  BY <1>3 DEF Exchanges, States
  <1>6. /\ r.st = "eof" /\ r.q = w.q /\ r.at = w.at /\ r.captured = w.captured
        /\ r.wire = w.wire /\ r.read = w.read /\ r.total = w.total
        /\ r.buf = w.buf /\ r.cut = w.cut /\ r.done = w.done
    BY <1>3 DEF Exchanges
  <1> HIDE DEF r
  <1>7. Exact(s)
    <2>1. /\ s.st = "eof" /\ s.q = w.q /\ s.captured = w.captured
          /\ s.wire = w.wire /\ s.read = w.read /\ s.total = w.total
          /\ s.buf = w.buf /\ s.cut = w.cut /\ s.done = TRUE
      BY <1>5, <1>6 DEF Exchanges
    <2> HIDE DEF s
    <2> QED  BY <1>3, <2>1 DEF Exact, Wired
  <1>8. ~Ended(ex[x]) /\ ~r.done  BY <1>1, <1>3, <1>6 DEF Ended, Exact
  <1>12. r.done <=> Ended(ex[x])  BY <1>8
  <1>13. ex[x].st # "idle" /\ r.st \in {"eof", "closed"} /\ r.at = ex[x].at
         /\ r.captured = ex[x].captured
    BY <1>1, <1>3, <1>6
  <1> HIDE DEF s
  <1> QED  BY <1>4, <1>5, <1>7, <1>8, <1>12, <1>13, CommitTurns DEF s

\* Close commits what was read, unless the end of the body already has.
LEMMA CloseTurns ==
    ASSUME NEW x \in Exch, WireInv, Close(x)
    PROVE  \E r : Turn(x, r)
  <1> DEFINE r == [ex[x] EXCEPT !.st = "closed"]
             s == [r EXCEPT !.done = TRUE]
  <1>1. ex[x] \in Exchanges /\ Exact(ex[x]) /\ ex[x].st \in {"body", "eof", "broken"}
    BY DEF WireInv, ExchSound, Close
  <1>2. Commit(x, r) /\ UNCHANGED <<enabled, clock, wp>>  BY DEF Close
  <1>3. r \in Exchanges  BY <1>1 DEF Exchanges, States
  <1>4. /\ r.st = "closed" /\ r.q = ex[x].q /\ r.at = ex[x].at /\ r.captured = ex[x].captured
        /\ r.wire = ex[x].wire /\ r.read = ex[x].read /\ r.total = ex[x].total
        /\ r.buf = ex[x].buf /\ r.cut = ex[x].cut /\ r.done = ex[x].done
    BY <1>1 DEF Exchanges
  <1> HIDE DEF r
  <1>5. Exact(s)
    <2>1. /\ s.st = "closed" /\ s.q = ex[x].q /\ s.captured = ex[x].captured
          /\ s.wire = ex[x].wire /\ s.read = ex[x].read /\ s.total = ex[x].total
          /\ s.buf = ex[x].buf /\ s.cut = ex[x].cut /\ s.done = TRUE
      BY <1>3, <1>4 DEF Exchanges
    <2> HIDE DEF s
    <2> QED  BY <1>1, <2>1 DEF Exact, Wired
  <1>6. r.done <=> Ended(ex[x])  BY <1>1, <1>4 DEF Ended, Exact
  <1> QED  BY <1>1, <1>2, <1>3, <1>4, <1>5, <1>6, CommitTurns

\* What a step does to the wire log.
LEMMA WireFrame ==
    ASSUME WireInv, Next
    PROVE  \/ \E x \in Exch : \E r : Turn(x, r)
           \/ SetEnabled \/ ShowWire \/ ClearWire
           \/ UNCHANGED wireVars
  <1>1. CASE SetTarget \/ Clear  BY <1>1 DEF SetTarget, Clear
  <1>2. CASE \E x \in Exch, q \in {r \in Requests : r.replay} : ConsoleSend(x, q)
    BY <1>2, StartTurns DEF ConsoleSend
  <1>3. ASSUME NEW x \in Exch, CallStep(x)
        PROVE  (\E r : Turn(x, r)) \/ UNCHANGED wireVars
    <2>1. CASE CallFails(x)  BY <2>1, FailTurns DEF CallFails
    <2>2. CASE \E n \in 0..MaxUnits, sse \in BOOLEAN : CallAnswered(x, n, sse)
      BY <2>2, RespondTurns DEF CallAnswered
    <2>3. CASE CallReads(x)  BY <2>3, ReadTurns DEF CallReads
    <2>4. CASE CallReadsEnd(x)  BY <2>4, ReadEndTurns DEF CallReadsEnd
    <2>5. CASE CallReadFails(x)  BY <2>5, ReadErrorTurns DEF CallReadFails
    <2>6. CASE CallCloses(x)  BY <2>6, CloseTurns DEF CallCloses
    <2>7. CASE ApplyResult(x)  BY <2>7 DEF ApplyResult
    <2> QED  BY <1>3, <2>1, <2>2, <2>3, <2>4, <2>5, <2>6, <2>7 DEF CallStep
  <1>4. ASSUME NEW x \in Exch, Traffic(x)
        PROVE  \E r : Turn(x, r)
    <2>1. ASSUME NEW n \in 1..MaxUnits, Read(x, n)  PROVE \E r : Turn(x, r)
      <3>1. n \in Nat  OBVIOUS
      <3> QED  BY <2>1, <3>1, ReadTurns
    <2> QED
      BY <1>4, <2>1, StartTurns, FailTurns, RespondTurns, ReadEndTurns, ReadErrorTurns, CloseTurns
      DEF Traffic
  <1>5. CASE WirePane  BY <1>5 DEF WirePane
  <1> QED  BY <1>1, <1>2, <1>3, <1>4, <1>5 DEF Next

------------------------------------------------------------------------------
(* The wire log keeps its invariant.                                         *)

LEMMA TurnKeepsExchanges ==
    ASSUME NEW x \in Exch, NEW r, WireInv, Turn(x, r)
    PROVE  /\ ExchSound' /\ Timed'
           /\ ex'[x] = r /\ \A y \in Exch \ {x} : ex'[y] = ex[y]
           /\ \A y \in Exch : ex[y].st # "idle" => ex'[y].at = ex[y].at
           /\ \A y \in Exch : Ended(ex[y]) =>
                ex'[y].buf = ex[y].buf /\ ex'[y].cut = ex[y].cut /\ ex'[y].at = ex[y].at
  <1>1. ex \in [Exch -> Exchanges] /\ r \in Exchanges /\ Exact(r) /\ ex' = [ex EXCEPT ![x] = r]
        /\ \A y \in Exch : Exact(ex[y])
    BY DEF WireInv, ExchSound, Turn
  <1>2. ex'[x] = r /\ \A y \in Exch \ {x} : ex'[y] = ex[y]  BY <1>1
  <1>3. ExchSound'
    <2>1. ex' \in [Exch -> Exchanges]  BY <1>1
    <2>2. \A y \in Exch : Exact(ex'[y])  BY <1>1, <1>2
    <2> QED  BY <2>1, <2>2 DEF ExchSound, Exact, Wired
  <1>4. clock \in Nat /\ clock' \in Nat /\ clock <= clock' /\ r.at <= clock' /\ r.at > 0
    BY DEF WireInv, Timed, Turn
  <1>5. \A y \in Exch : ex[y].at \in Nat /\ ex[y].at <= clock  BY <1>1 DEF WireInv, Timed, Exchanges
  <1>6. Timed'
    <2>1. \A y \in Exch : ex'[y].at <= clock' /\ (ex'[y].st = "idle" \/ ex'[y].at > 0)
      BY <1>2, <1>4, <1>5 DEF WireInv, Timed
    <2>2. ASSUME NEW y \in Exch, NEW z \in Exch, ex'[y].st # "idle", ex'[y].at = ex'[z].at
          PROVE  y = z
      <3>1. CASE ex[x].st = "idle"
        <4>1. r.at = clock + 1  BY <3>1 DEF Turn
        <4> QED  BY <1>2, <1>4, <1>5, <2>2, <4>1 DEF WireInv, Timed
      <3>2. CASE ex[x].st # "idle"
        <4>1. r.at = ex[x].at  BY <3>2 DEF Turn
        <4> QED  BY <1>2, <2>2, <3>2, <4>1 DEF WireInv, Timed
      <3> QED  BY <3>1, <3>2
    <2> QED  BY <1>4, <2>1, <2>2 DEF Timed
  <1>7. \A y \in Exch : ex[y].st # "idle" => ex'[y].at = ex[y].at
    BY <1>2 DEF Turn
  <1>8. \A y \in Exch : Ended(ex[y]) =>
          ex'[y].buf = ex[y].buf /\ ex'[y].cut = ex[y].cut /\ ex'[y].at = ex[y].at
    BY <1>2, <1>7 DEF Turn, Ended
  <1> QED  BY <1>2, <1>3, <1>6, <1>7, <1>8

\* add keeps the last Ring of what was added.
LEMMA AddLast ==
    ASSUME NEW e \in EntryRecs, entries \in Seq(EntryRecs), NEW n \in Nat,
           Len(entries) = Smaller(n, Ring)
    PROVE  /\ Add(e) \in Seq(EntryRecs) /\ Len(Add(e)) = Smaller(n + 1, Ring)
           /\ Add(e)[Len(Add(e))] = e
           /\ \A i \in 1..Len(Add(e)) - 1 :
                LET j == i + n + 1 - Len(Add(e)) - (n - Len(entries)) IN
                  j \in 1..Len(entries) /\ Add(e)[i] = entries[j]
  <1>1. Ring \in Nat /\ Ring > 0  BY WireLogAssumption
  <1>2. CASE Len(entries) < Ring
    <2>1. Add(e) = Append(entries, e)  BY <1>2 DEF Add
    <2>2. Append(entries, e) \in Seq(EntryRecs) /\ Len(Append(entries, e)) = Len(entries) + 1
          /\ Append(entries, e)[Len(entries) + 1] = e
          /\ \A i \in 1..Len(entries) : Append(entries, e)[i] = entries[i]
      OBVIOUS
    <2>3. Len(entries) = n  BY <1>1, <1>2 DEF Smaller
    <2> QED  BY <1>1, <1>2, <2>1, <2>2, <2>3 DEF Smaller
  <1>3. CASE ~(Len(entries) < Ring)
    <2>1. Add(e) = Append(Tail(entries), e)  BY <1>3 DEF Add
    <2>2. Len(entries) = Ring /\ Ring <= n  BY <1>1, <1>3 DEF Smaller
    <2>3. entries # <<>>  BY <1>1, <2>2
    <2>4. Tail(entries) \in Seq(EntryRecs) /\ Len(Tail(entries)) = Len(entries) - 1
          /\ \A i \in 1..Len(entries) - 1 : Tail(entries)[i] = entries[i + 1]
      BY <2>3
    <2> DEFINE t == Tail(entries)
    <2> HIDE DEF t
    <2>5. Append(t, e) \in Seq(EntryRecs) /\ Len(Append(t, e)) = Len(entries)
          /\ Append(t, e)[Len(entries)] = e
          /\ \A i \in 1..Len(entries) - 1 : Append(t, e)[i] = entries[i + 1]
      BY <2>4 DEF t
    <2>6. Add(e) = Append(t, e)  BY <2>1 DEF t
    <2> QED  BY <1>1, <2>2, <2>5, <2>6 DEF Smaller
  <1> QED  BY <1>2, <1>3

LEMMA TurnKeepsLog ==
    ASSUME NEW x \in Exch, NEW r, WireInv, Turn(x, r)
    PROVE  /\ Logged' /\ Ringed'
           /\ (\A i \in 1..Len(log) : i \in 1..Len(log') /\ log'[i] = log[i])
           /\ \/ UNCHANGED <<entries, log>>
              \/ /\ entries' # <<>> /\ Last(entries)'.at = r.at
                 /\ ~Ended(ex[x]) /\ ex[x].st # "idle"
  <1>1. /\ ex'[x] = r /\ \A y \in Exch \ {x} : ex'[y] = ex[y]
        /\ \A y \in Exch : Ended(ex[y]) =>
             ex'[y].buf = ex[y].buf /\ ex'[y].cut = ex[y].cut /\ ex'[y].at = ex[y].at
    BY TurnKeepsExchanges
  <1>2. log \in Seq(Exch) /\ Len(log) \in Nat
        /\ \A i \in 1..Len(log) : log[i] \in Exch /\ Ended(ex[log[i]])
    BY DEF WireInv, Logged
  <1>3. entries \in Seq(EntryRecs) /\ Len(entries) = Smaller(Len(log), Ring)
        /\ Len(entries) \in Nat /\ Len(entries) <= Len(log)
    BY WireLogAssumption DEF WireInv, Ringed, Smaller
  <1> DEFINE Now(e, y) == e.x = y /\ e.at = ex'[y].at /\ e.resp = ex'[y].buf /\ e.trunc = ex'[y].cut
  <1>4. ASSUME NEW i \in 1..Len(log), NEW e, EntryOf(e, log[i])
        PROVE  Now(e, log[i])
    <2>1. log[i] \in Exch /\ Ended(ex[log[i]])  BY <1>2
    <2> QED  BY <1>1, <1>4, <2>1 DEF EntryOf
  <1>5. Ended(ex[x]) => Ended(r) /\ r.captured = ex[x].captured
    BY DEF Turn, Ended
  <1>6. CASE r.captured /\ Ended(r) /\ ~Ended(ex[x])
    <2>1. log' = Append(log, x)  BY <1>6 DEF Turn
    <2>2. PICK e \in EntryRecs : entries' = Add(e) /\ Answered(e, x, r)  BY <1>6 DEF Turn
    <2>3. /\ log' \in Seq(Exch) /\ Len(log') = Len(log) + 1 /\ log'[Len(log) + 1] = x
          /\ \A i \in 1..Len(log) : i \in 1..Len(log') /\ log'[i] = log[i]
      BY <1>2, <2>1
    <2>4. Logged'
      <3>1. \A i \in 1..Len(log) : log[i] # x  BY <1>2, <1>6
      <3>2. \A i, j \in 1..Len(log') : log'[i] = log'[j] => i = j
        BY <1>2, <2>3, <3>1 DEF WireInv, Logged
      <3>3. ASSUME NEW y \in Exch
            PROVE  (\E i \in 1..Len(log') : log'[i] = y) <=> ex'[y].captured /\ Ended(ex'[y])
        <4>1. (\E i \in 1..Len(log') : log'[i] = y)
                <=> y = x \/ (\E i \in 1..Len(log) : log[i] = y)
          BY <1>2, <2>3
        <4>2. CASE y = x  BY <1>1, <1>6, <4>1, <4>2
        <4>3. CASE y # x  BY <1>1, <4>1, <4>3 DEF WireInv, Logged
        <4> QED  BY <4>2, <4>3
      <3> QED  BY <2>3, <3>2, <3>3 DEF Logged, Ended
    <2>5. /\ entries' \in Seq(EntryRecs) /\ Len(entries') = Smaller(Len(log) + 1, Ring)
          /\ entries'[Len(entries')] = e
          /\ \A i \in 1..Len(entries') - 1 :
               LET j == i + Len(log) + 1 - Len(entries') - (Len(log) - Len(entries)) IN
                 j \in 1..Len(entries) /\ entries'[i] = entries[j]
      BY <1>2, <1>3, <2>2, AddLast
    <2>6. Len(entries') \in Nat /\ Len(entries') > 0 /\ Len(entries') <= Len(log')
      BY <1>2, <2>3, <2>5, WireLogAssumption DEF Smaller
    <2>7. Now(e, x)  BY <1>1, <2>2 DEF Answered
    <2>8. ASSUME NEW i \in 1..Len(entries')
          PROVE  EntryOf(entries[i], log[Len(log) - Len(entries) + i])'
      <3>1. CASE i = Len(entries')
        <4>1. Len(log') - Len(entries') + i = Len(log) + 1  BY <1>2, <2>3, <2>6, <3>1
        <4>2. log'[Len(log') - Len(entries') + i] = x /\ entries'[i] = e
          BY <2>3, <2>5, <3>1, <4>1
        <4> QED  BY <2>7, <4>2 DEF EntryOf
      <3>2. CASE i # Len(entries')
        <4> DEFINE j == i + Len(log) + 1 - Len(entries') - (Len(log) - Len(entries))
                   k == Len(log) - Len(entries) + j
        <4>1. i \in 1..Len(entries') - 1  BY <2>6, <3>2
        <4>2. j \in 1..Len(entries) /\ entries'[i] = entries[j]  BY <2>5, <4>1
        <4>3. k \in 1..Len(log)  BY <1>2, <1>3, <4>2
        <4>4. Len(log') - Len(entries') + i = k  BY <1>2, <1>3, <2>3, <2>6
        <4>5. EntryOf(entries[j], log[k])  BY <4>2 DEF WireInv, Ringed
        <4> HIDE DEF j, k
        <4>6. log'[k] = log[k]  BY <2>3, <4>3
        <4>7. Now(entries[j], log[k])  BY <1>4, <4>3, <4>5
        <4> QED  BY <4>2, <4>4, <4>6, <4>7 DEF EntryOf
      <3> QED  BY <3>1, <3>2
    <2>9. Ringed'  BY <2>3, <2>5, <2>8 DEF Ringed
    <2>10. entries' # <<>> /\ Last(entries)'.at = r.at
      BY <2>2, <2>5, <2>6 DEF Last, Answered
    <2>11. ex[x].st # "idle"  BY <1>6 DEF Turn, Ended
    <2> QED  BY <1>6, <2>3, <2>4, <2>9, <2>10, <2>11
  <1>7. CASE ~(r.captured /\ Ended(r) /\ ~Ended(ex[x]))
    <2>1. UNCHANGED <<entries, log>>  BY <1>7 DEF Turn
    <2>2. ASSUME NEW y \in Exch
          PROVE  (ex'[y].captured /\ Ended(ex'[y])) <=> (ex[y].captured /\ Ended(ex[y]))
      <3>1. CASE y # x  BY <1>1, <3>1
      <3>2. CASE y = x  BY <1>1, <1>5, <1>7, <3>2 DEF Turn, Ended
      <3> QED  BY <3>1, <3>2
    <2>3. Logged'  BY <2>1, <2>2 DEF WireInv, Logged, Ended
    <2>4. \A i \in 1..Len(entries) : Len(log) - Len(entries) + i \in 1..Len(log)
      BY <1>2, <1>3
    <2>6. \A i \in 1..Len(entries) : Now(entries[i], log[Len(log) - Len(entries) + i])
      BY <1>4, <2>4 DEF WireInv, Ringed
    <2>5. Ringed'  BY <1>3, <2>1, <2>6 DEF WireInv, Ringed, EntryOf
    <2> QED  BY <2>1, <2>3, <2>5
  <1> QED  BY <1>6, <1>7

\* The time of the newest entry is that of an exchange in the log.
LEMMA NewestKnown ==
    ASSUME WireInv
    PROVE  Known(CacheKey(entries, wp.cleared).lastAt)
           /\ \A c : CacheKey(entries, c).lastAt
                       = IF entries = <<>> THEN 0 ELSE Last(entries).at
  <1>1. \A c : CacheKey(entries, c).lastAt = IF entries = <<>> THEN 0 ELSE Last(entries).at
    BY DEF CacheKey, NoKey
  <1>2. CASE entries = <<>>  BY <1>1, <1>2 DEF Known
  <1>3. CASE entries # <<>>
    <2>1. log \in Seq(Exch) /\ entries \in Seq(EntryRecs) /\ Len(entries) <= Len(log)
      BY WireLogAssumption DEF WireInv, Logged, Ringed, Smaller
    <2>2. Len(entries) \in 1..Len(entries) /\ Len(log) \in 1..Len(log)
          /\ Len(log) - Len(entries) + Len(entries) = Len(log)
      BY <1>3, <2>1
    <2>3. EntryOf(entries[Len(entries)], log[Len(log)])  BY <2>2 DEF WireInv, Ringed
    <2>4. Last(entries).at = ex[log[Len(log)]].at  BY <2>3 DEF Last, EntryOf
    <2> QED  BY <1>1, <1>3, <2>2, <2>4 DEF Known
  <1> QED  BY <1>1, <1>2, <1>3

\* A new entry has a time the cache's key has not.
LEMMA TurnKeepsCache ==
    ASSUME NEW x \in Exch, NEW r, WireInv, Turn(x, r)
    PROVE  Cached'
  <1>1. wp' = wp  BY DEF Turn
  <1>2. /\ \A i \in 1..Len(log) : i \in 1..Len(log') /\ log'[i] = log[i]
        /\ \/ UNCHANGED <<entries, log>>
           \/ /\ entries' # <<>> /\ Last(entries)'.at = r.at
              /\ ~Ended(ex[x]) /\ ex[x].st # "idle"
    BY TurnKeepsLog
  <1>3. \A y \in Exch : ex[y].st # "idle" => ex'[y].at = ex[y].at  BY TurnKeepsExchanges
  <1>4. \A i \in 1..Len(log) : log[i] \in Exch /\ Ended(ex[log[i]])
    BY DEF WireInv, Logged
  <1>5. \A i \in 1..Len(log) : ex'[log[i]].at = ex[log[i]].at
    BY <1>3, <1>4 DEF Ended
  <1>6. wp.drawn => Known(wp.key.lastAt)  BY DEF WireInv, Cached
  <1>7. wp.drawn => Known(wp.key.lastAt)'  BY <1>1, <1>2, <1>5, <1>6 DEF Known
  <1>8. CASE UNCHANGED <<entries, log>>
    BY <1>1, <1>7, <1>8 DEF WireInv, Cached
  <1>9. CASE /\ entries' # <<>> /\ Last(entries)'.at = r.at
             /\ ~Ended(ex[x]) /\ ex[x].st # "idle"
    <2>1. r.at = ex[x].at /\ r.at > 0  BY <1>9 DEF Turn, WireInv, Timed
    <2>2. wp.drawn => wp.key.lastAt # r.at
      <3>1. ASSUME wp.drawn, wp.key.lastAt = r.at
            PROVE  FALSE
        <4>1. wp.key.lastAt # 0  BY <2>1, <3>1
        <4>2. PICK i \in 1..Len(log) : ex[log[i]].at = ex[x].at
          BY <1>6, <2>1, <3>1, <4>1 DEF Known
        <4>3. x = log[i]  BY <1>4, <1>9, <4>2 DEF WireInv, Timed
        <4> QED  BY <1>4, <1>9, <4>3
      <3> QED  BY <3>1
    <2> QED  BY <1>1, <1>7, <1>9, <2>2 DEF WireInv, Cached
  <1> QED  BY <1>2, <1>8, <1>9

LEMMA WireInitial == Init => WireInv
  <1> SUFFICES ASSUME Init  PROVE WireInv
    OBVIOUS
  <1> USE DEF Init, WireInit
  <1> DEFINE r0 == [st |-> "idle", q |-> [len |-> 0, replay |-> TRUE], at |-> 0,
                    captured |-> FALSE, wire |-> 0, total |-> 0, read |-> 0,
                    buf |-> 0, cut |-> FALSE, done |-> FALSE]
  <1>1. ex = [x \in Exch |-> r0]  OBVIOUS
  <1>2. r0 \in Exchanges  BY WireLogAssumption DEF Exchanges, States
  <1>4. /\ r0.st = "idle" /\ r0.at = 0 /\ r0.captured = FALSE /\ r0.read = 0 /\ r0.total = 0
        /\ r0.buf = 0 /\ r0.cut = FALSE /\ r0.done = FALSE
    OBVIOUS
  <1> HIDE DEF r0
  <1>10. ~(0 > MaxBody) /\ Smaller(0, MaxBody) = 0  BY WireLogAssumption DEF Smaller
  <1>11. r0.cut = (r0.read > MaxBody)
    <2>1. (0 > MaxBody) = FALSE  BY <1>10
    <2> QED  BY <1>4, <2>1
  <1>12. r0.done = (r0.st \in {"eof", "closed"})
    <2>1. (r0.st \in {"eof", "closed"}) = FALSE  BY <1>4
    <2> QED  BY <1>4, <2>1
  <1>13. r0.read <= r0.total  BY <1>4
  <1>3. Exact(r0)  BY <1>4, <1>10, <1>11, <1>12, <1>13 DEF Exact
  <1>5. ExchSound  BY <1>1, <1>2, <1>3 DEF ExchSound
  <1>6. Timed  BY <1>1, <1>4 DEF Timed
  <1>7. Logged  BY <1>1, <1>4 DEF Logged, Ended
  <1>8. Ringed  BY WireLogAssumption DEF Ringed, Smaller
  <1>9. Cached  BY DEF Cached
  <1> QED  BY <1>5, <1>6, <1>7, <1>8, <1>9 DEF WireInv

\* ShowWire redraws when the key has changed, and keeps what it has when not.
LEMMA ShowKeepsCache ==
    ASSUME WireInv, ShowWire
    PROVE  Cached'
  <1> DEFINE key == CacheKey(entries, wp.cleared)
             doc == IF wp.drawn /\ wp.key = key THEN wp.cache
                    ELSE Visible(entries, wp.cleared)
  <1>1. UNCHANGED <<enabled, entries, ex, log, clock>>  BY DEF ShowWire
  <1>2. wp = [cleared |-> wp.cleared, turns |-> wp.turns, key |-> wp.key,
              drawn |-> wp.drawn, cache |-> wp.cache]
    BY DEF WireInv, Cached
  <1>3. wp' = [wp EXCEPT !.key = key, !.drawn = TRUE, !.cache = doc]  BY DEF ShowWire
  <1>4. key.cleared = wp.cleared  BY DEF CacheKey, NoKey
  <1>5. doc = Visible(entries, wp.cleared)
    <2>1. CASE wp.drawn /\ wp.key = key
      <3>1. entries # <<>> => key.lastAt = Last(entries).at  BY NewestKnown
      <3> QED  BY <1>4, <2>1, <3>1 DEF WireInv, Cached
    <2>2. CASE ~(wp.drawn /\ wp.key = key)  BY <2>2
    <2> QED  BY <2>1, <2>2
  <1>6. Known(key.lastAt)  BY NewestKnown
  <1> HIDE DEF key, doc
  <1>7. /\ wp'.key = key /\ wp'.cache = doc /\ wp'.cleared = wp.cleared
        /\ wp' = [cleared |-> wp'.cleared, turns |-> wp'.turns, key |-> wp'.key,
                  drawn |-> wp'.drawn, cache |-> wp'.cache]
    BY <1>2, <1>3
  <1>8. Known(wp.key.lastAt)'  BY <1>1, <1>6, <1>7 DEF Known
  <1>9. wp'.key = CacheKey(entries', wp'.key.cleared)
        /\ wp'.cache = Visible(entries', wp'.key.cleared)
    BY <1>1, <1>4, <1>5, <1>7 DEF key
  <1> QED  BY <1>7, <1>8, <1>9 DEF Cached

LEMMA WireStep ==
    ASSUME WireInv, [Next]_vars
    PROVE  WireInv'
  <1>1. ASSUME NEW x \in Exch, NEW r, Turn(x, r)
        PROVE  WireInv'
    <2>1. ExchSound' /\ Timed'  BY <1>1, TurnKeepsExchanges
    <2>2. Logged' /\ Ringed'  BY <1>1, TurnKeepsLog
    <2>3. Cached'  BY <1>1, TurnKeepsCache
    <2>4. enabled' \in BOOLEAN  BY <1>1 DEF Turn, WireInv
    <2> QED  BY <2>1, <2>2, <2>3, <2>4 DEF WireInv
  <1>2. ASSUME UNCHANGED <<entries, ex, log>>, clock' \in Nat, clock <= clock'
        PROVE  ExchSound' /\ Timed' /\ Logged' /\ Ringed'
    <2>1. ExchSound'  BY <1>2 DEF WireInv, ExchSound, Exact, Wired
    <2>2. Timed'
      <3>1. \A y \in Exch : ex[y].at \in Nat  BY DEF WireInv, ExchSound, Exchanges
      <3>2. clock \in Nat  BY DEF WireInv, Timed
      <3> QED  BY <1>2, <3>1, <3>2 DEF WireInv, Timed
    <2>3. Logged'  BY <1>2 DEF WireInv, Logged, Ended
    <2>4. Ringed'  BY <1>2 DEF WireInv, Ringed, EntryOf
    <2> QED  BY <2>1, <2>2, <2>3, <2>4
  <1>3. clock \in Nat /\ enabled \in BOOLEAN
        /\ wp = [cleared |-> wp.cleared, turns |-> wp.turns, key |-> wp.key,
                 drawn |-> wp.drawn, cache |-> wp.cache]
    BY DEF WireInv, Timed, Cached
  <1>4. ASSUME UNCHANGED <<entries, ex, log>>,
               wp'.key = wp.key, wp'.drawn = wp.drawn, wp'.cache = wp.cache,
               wp' = [cleared |-> wp'.cleared, turns |-> wp'.turns, key |-> wp'.key,
                      drawn |-> wp'.drawn, cache |-> wp'.cache]
        PROVE  Cached'
    <2>1. wp.drawn => Known(wp.key.lastAt)'  BY <1>4 DEF WireInv, Cached, Known
    <2> QED  BY <1>4, <2>1 DEF WireInv, Cached
  <1>5. CASE SetEnabled
    <2>1. wp' = [wp EXCEPT !.turns = wp.turns + 1]  BY <1>5 DEF SetEnabled
    <2>2. Cached'  BY <1>3, <1>4, <1>5, <2>1 DEF SetEnabled
    <2> QED  BY <1>2, <1>3, <1>5, <2>2 DEF SetEnabled, WireInv
  <1>6. CASE ClearWire
    <2>1. wp' = [wp EXCEPT !.cleared = clock + 1, !.turns = wp.turns + 1]  BY <1>6 DEF ClearWire
    <2>2. Cached'  BY <1>3, <1>4, <1>6, <2>1 DEF ClearWire
    <2> QED  BY <1>2, <1>3, <1>6, <2>2 DEF ClearWire, WireInv
  <1>7. CASE ShowWire
    <2>1. Cached'  BY <1>7, ShowKeepsCache
    <2> QED  BY <1>2, <1>3, <1>7, <2>1 DEF ShowWire, WireInv
  <1>8. CASE UNCHANGED wireVars
    <2>1. Cached'  BY <1>3, <1>4, <1>8 DEF wireVars
    <2> QED  BY <1>2, <1>3, <1>8, <2>1 DEF wireVars, WireInv
  <1> QED  BY <1>1, <1>5, <1>6, <1>7, <1>8, WireFrame DEF vars

------------------------------------------------------------------------------
(* What the invariant of the wire log says.                                  *)

LEMMA WireTyped == WireInv /\ MaxUnits \in Nat => WireTypeOK
  <1> SUFFICES ASSUME WireInv  PROVE WireTypeOK
    OBVIOUS
  <1>1. \A x \in Exch : /\ ex[x].st \in States /\ ex[x].read \in Nat /\ ex[x].total \in 0..MaxUnits
                        /\ ex[x].read <= ex[x].total /\ ex[x].buf = Smaller(ex[x].read, MaxBody)
    BY DEF WireInv, ExchSound, Exchanges, Exact
  <1>2. \A x \in Exch : ex[x].read \in 0..MaxUnits /\ ex[x].buf \in 0..MaxBody
    BY <1>1, WireLogAssumption DEF Smaller
  <1>3. Len(entries) <= Ring  BY WireLogAssumption DEF WireInv, Logged, Ringed, Smaller
  <1>4. ASSUME NEW i \in DOMAIN entries
        PROVE  entries[i].x \in Exch /\ entries[i].resp \in 0..MaxBody
    <2>1. entries \in Seq(EntryRecs) /\ i \in 1..Len(entries) /\ Len(entries) <= Len(log)
          /\ Len(log) \in Nat
      BY WireLogAssumption DEF WireInv, Logged, Ringed, Smaller
    <2>2. Len(log) - Len(entries) + i \in 1..Len(log)  BY <2>1
    <2>3. EntryOf(entries[i], log[Len(log) - Len(entries) + i])
          /\ log[Len(log) - Len(entries) + i] \in Exch
      BY <2>1, <2>2 DEF WireInv, Logged, Ringed
    <2> QED  BY <1>2, <2>3 DEF EntryOf
  <1> QED  BY <1>1, <1>2, <1>3, <1>4 DEF WireTypeOK, WireInv, Timed

LEMMA LogIsExact == WireInv => LogExact
  <1> SUFFICES ASSUME WireInv  PROVE LogExact
    OBVIOUS
  <1>1. log \in Seq(Exch) /\ DOMAIN log = 1..Len(log) /\ Len(log) \in Nat
    BY DEF WireInv, Logged
  <1>2. entries \in Seq(EntryRecs) /\ DOMAIN entries = 1..Len(entries)
        /\ Len(entries) = Smaller(Len(log), Ring) /\ Len(entries) \in Nat
    BY DEF WireInv, Ringed
  <1>3. Ring \in Nat  BY WireLogAssumption
  <1>4. IsInjective(log)  BY <1>1 DEF WireInv, Logged, IsInjective
  <1>5. ASSUME NEW x \in Exch
        PROVE  x \in Range(log) <=> ex[x].captured /\ ex[x].st \in {"failed", "eof", "closed"}
    <2>1. x \in Range(log) <=> \E i \in 1..Len(log) : log[i] = x  BY <1>1 DEF Range
    <2> QED  BY <2>1 DEF WireInv, Logged, Ended
  <1>6. \A i \in 1..Len(entries) :
          /\ Len(log) - Len(entries) + i \in 1..Len(log)
          /\ EntryOf(entries[i], log[Len(log) - Len(entries) + i])
          /\ log[Len(log) - Len(entries) + i] \in Exch
    <2>1. Len(entries) <= Len(log)  BY <1>1, <1>2, <1>3 DEF Smaller
    <2>2. \A i \in 1..Len(entries) : Len(log) - Len(entries) + i \in 1..Len(log)
      BY <1>1, <1>2, <2>1
    <2> QED  BY <1>1, <2>2 DEF WireInv, Ringed
  <1>7. [i \in DOMAIN entries |-> entries[i].x]
          = SubSeq(log, Max({0, Len(log) - Ring}) + 1, Len(log))
    <2> DEFINE m == Max({0, Len(log) - Ring})
    <2>1. m = Len(log) - Len(entries)
      <3>1. Len(log) - Ring \in Int  BY <1>1, <1>3
      <3> QED  BY <1>1, <1>2, <1>3, <3>1, MaxOfTwo DEF Smaller
    <2> HIDE DEF m
    <2>2. SubSeq(log, m + 1, Len(log)) = [i \in 1..Len(entries) |-> log[i + m]]
      <3>1. SubSeq(log, m + 1, Len(log))
              = [i \in 1..(1 + Len(log) - (m + 1)) |-> log[i + (m + 1) - 1]]
        BY SMTT(30), <1>1, <1>2, <2>1
      <3>2. 1 + Len(log) - (m + 1) = Len(entries)  BY <1>1, <1>2, <2>1
      <3>3. \A i \in 1..Len(entries) : i + (m + 1) - 1 = i + m  BY <1>1, <1>2, <2>1
      <3> QED  BY <3>1, <3>2, <3>3
    <2>3. \A i \in 1..Len(entries) : Len(log) - Len(entries) + i = i + m
      BY <1>1, <1>2, <2>1
    <2>4. \A i \in 1..Len(entries) : entries[i].x = log[i + m]
      BY <1>6, <2>3 DEF EntryOf
    <2> QED  BY <1>2, <2>2, <2>4 DEF m
  <1>8. ASSUME NEW i \in DOMAIN entries
        PROVE  /\ entries[i].resp = Min({ex[entries[i].x].read, MaxBody})
               /\ entries[i].trunc <=> ex[entries[i].x].read > MaxBody
    <2> DEFINE x == log[Len(log) - Len(entries) + i]
    <2>1. x \in Exch /\ EntryOf(entries[i], x)  BY <1>2, <1>6
    <2> HIDE DEF x
    <2>2. ex[x] \in Exchanges /\ Exact(ex[x])  BY <2>1 DEF WireInv, ExchSound
    <2>3. Min({ex[x].read, MaxBody}) = Smaller(ex[x].read, MaxBody)
      BY <2>2, MinOfTwo, WireLogAssumption DEF Exchanges
    <2> QED  BY <2>1, <2>2, <2>3 DEF EntryOf, Exact
  <1> QED  BY <1>4, <1>5, <1>7, <1>8 DEF LogExact

LEMMA WireIsTransparent == WireInv => CaptureTransparent
  BY DEF WireInv, ExchSound, Exact, Wired, CaptureTransparent

LEMMA FramesAreTrue == WireInv => FramesShownTrue
  <1> SUFFICES ASSUME WireInv, wp.drawn, wp.key = CacheKey(entries, wp.cleared)
               PROVE  wp.cache = Visible(entries, wp.cleared)
    BY DEF FramesShownTrue
  <1>1. wp.key.cleared = wp.cleared  BY DEF CacheKey, NoKey
  <1>2. entries # <<>> => wp.key.lastAt = Last(entries).at  BY NewestKnown
  <1> QED  BY <1>1, <1>2 DEF WireInv, Cached

------------------------------------------------------------------------------
(* The calls of the console.                                                 *)

\* The state each operation leaves its exchange in.
LEMMA Leaves ==
    ASSUME NEW x \in Exch, WireInv
    PROVE  /\ \A q \in Requests : Start(x, q) => ex[x].st = "idle" /\ ex'[x].st = "out"
           /\ Fail(x) => ex'[x].st = "failed"
           /\ \A n : Respond(x, n) => ex'[x].st = "body"
           /\ \A n : Read(x, n) => ex'[x].st = "body"
           /\ ReadEnd(x) => ex'[x].st = "eof"
           /\ ReadError(x) => ex'[x].st = "broken"
           /\ Close(x) => ex'[x].st = "closed" /\ ex'[x].total = ex[x].total
  <1>1. ex \in [Exch -> Exchanges] /\ ex[x] \in Exchanges  BY DEF WireInv, ExchSound
  <1>2. \A q \in Requests : Start(x, q) => ex[x].st = "idle" /\ ex'[x].st = "out"
    BY <1>1 DEF Start, Exchanges
  <1>3. Fail(x) => ex'[x].st = "failed"  BY <1>1 DEF Fail, Exchanges
  <1>4. \A n : Respond(x, n) => ex'[x].st = "body"  BY <1>1 DEF Respond, Exchanges
  <1>5. \A n : Read(x, n) => ex'[x].st = "body"  BY <1>1 DEF Read, Write, Exchanges
  <1>6. ReadEnd(x) => ex'[x].st = "eof"  BY <1>1 DEF ReadEnd, Commit, Write, Exchanges
  <1>7. ReadError(x) => ex'[x].st = "broken"  BY <1>1 DEF ReadError, Exchanges
  <1>8. Close(x) => ex'[x].st = "closed" /\ ex'[x].total = ex[x].total
    BY <1>1 DEF Close, Commit, Exchanges
  <1> QED  BY <1>2, <1>3, <1>4, <1>5, <1>6, <1>7, <1>8


\* Everything a step does to the calls, by the call it is a step of.
Sent(x) ==
    /\ CanSend /\ call[x].st = "none" /\ ex'[x].st = "out"
    /\ \E c : /\ call' = [call EXCEPT ![x] = c]
              /\ c \in Calls /\ c.con = target /\ c.st = "out"
    /\ inflight' = TRUE /\ UNCHANGED <<target, made, answer, strayed, history>>
Came(x) ==
    /\ call[x].st = "out" /\ ex'[x].st \in {"failed", "closed"}
    /\ \E c : /\ call' = [call EXCEPT ![x] = c]
              /\ c \in [con : {call[x].con}, st : {"result"}, sse : BOOLEAN,
                        got : Nat, err : {"none", "failed", "cap"}]
              /\ c.err = "none" => c.got = ex'[x].total
    /\ history' = Recorded(x) /\ UNCHANGED paneVars
Went(x) ==
    /\ call[x].st \in {"none", "out"}
    /\ call[x].st = "out" => ex'[x].st \in {"body", "eof", "broken"}
    /\ \E c : /\ call' = [call EXCEPT ![x] = c]
              /\ c.con = call[x].con /\ c.st = call[x].st /\ c.got = call[x].got
              /\ c.err = call[x].err /\ c \in Calls
    /\ UNCHANGED <<paneVars, history>>

LEMMA SendSends ==
    ASSUME Inv, NEW x \in Exch, NEW q \in Requests, ConsoleSend(x, q)
    PROVE  Sent(x)
  <1>1. ex[x].st = "idle" /\ ex'[x].st = "out"  BY Leaves DEF Inv, ConsoleSend
  <1>2. call[x].st = "none"
    BY <1>1 DEF Inv, Attended, Calls
  <1> DEFINE c == [NoCall EXCEPT !.con = target, !.st = "out"]
  <1>5. target \in 0..made /\ made \in Nat  BY DEF Inv, PaneTypes
  <1>6. NoCall \in Calls  BY <1>5 DEF NoCall, Calls
  <1>3. c \in Calls /\ c.con = target /\ c.st = "out"
    BY <1>5, <1>6 DEF Calls
  <1>4. call' = [call EXCEPT ![x] = c]  BY DEF ConsoleSend
  <1> HIDE DEF c
  <1> QED  BY <1>1, <1>2, <1>3, <1>4 DEF Sent, ConsoleSend

LEMMA FailsComes ==
    ASSUME Inv, NEW x \in Exch, CallFails(x)
    PROVE  Came(x)
  <1>1. call \in [Exch -> Calls] /\ ex[x].read \in Nat  BY DEF Inv, Attended, WireInv, ExchSound, Exchanges
  <1>2. ex'[x].st = "failed"  BY Leaves DEF Inv, CallFails
  <1> DEFINE got == Min({ex[x].read, MaxResponse})
             c == [call[x] EXCEPT !.st = "result", !.got = got, !.err = "failed"]
  <1>3. got \in Nat  BY <1>1, MinOfTwo, ConsoleAssumption DEF Smaller
  <1>4. call' = [call EXCEPT ![x] = c]  BY <1>1 DEF CallFails, Return
  <1> HIDE DEF got
  <1>5. /\ c \in [con : {call[x].con}, st : {"result"}, sse : BOOLEAN,
                  got : Nat, err : {"none", "failed", "cap"}]
        /\ c.err = "failed"
    BY <1>1, <1>3 DEF Calls
  <1> QED  BY <1>2, <1>4, <1>5 DEF Came, CallFails, Return, Out

\* The verdict: without an error everything there was has been read.
LEMMA ClosesComes ==
    ASSUME Inv, NEW x \in Exch, CallCloses(x)
    PROVE  Came(x)
  <1>1. call \in [Exch -> Calls] /\ ex[x] \in Exchanges /\ Exact(ex[x])
    BY DEF Inv, Attended, WireInv, ExchSound
  <1>2. ex'[x].st = "closed" /\ ex'[x].total = ex[x].total  BY Leaves DEF Inv, CallCloses
  <1> DEFINE got == Min({ex[x].read, MaxResponse})
             err == Verdict(x)
             c == [call[x] EXCEPT !.st = "result", !.got = got, !.err = err]
  <1>3. ex[x].read \in Nat /\ MaxResponse \in Nat /\ got = Smaller(ex[x].read, MaxResponse)
    BY <1>1, MinOfTwo, ConsoleAssumption DEF Exchanges
  <1>4. got \in Nat /\ err \in {"none", "failed", "cap"}  BY <1>3 DEF Smaller, Verdict
  <1>5. call' = [call EXCEPT ![x] = c]  BY <1>1 DEF CallCloses, Return
  <1>6. err = "none" => got = ex[x].total
    <2>1. SUFFICES ASSUME err = "none"  PROVE got = ex[x].total
      OBVIOUS
    <2>2. ex[x].st # "broken" /\ ~(ex[x].read >= MaxResponse + (IF call[x].sse THEN 0 ELSE 1))
      BY <2>1 DEF Verdict
    <2>3. ex[x].read <= MaxResponse  BY <1>3, <2>2
    <2>4. Wants(x)  BY <1>3, <2>2 DEF Wants
    <2>5. ex[x].st = "eof"  BY <2>2, <2>4 DEF CallCloses, Done
    <2> QED  BY <1>1, <1>3, <2>3, <2>5 DEF Exact, Smaller
  <1> HIDE DEF got, err
  <1>7. /\ c \in [con : {call[x].con}, st : {"result"}, sse : BOOLEAN,
                  got : Nat, err : {"none", "failed", "cap"}]
        /\ c.err = err /\ c.got = got
    BY <1>1, <1>4 DEF Calls
  <1> HIDE DEF c
  <1> QED  BY <1>2, <1>5, <1>6, <1>7 DEF Came, CallCloses, Return, Out

LEMMA OthersGo ==
    ASSUME Inv, NEW x \in Exch,
           \/ \E n \in 0..MaxUnits, sse \in BOOLEAN : CallAnswered(x, n, sse)
           \/ CallReads(x) \/ CallReadsEnd(x) \/ CallReadFails(x)
           \/ Traffic(x)
    PROVE  Went(x)
  <1>1. call \in [Exch -> Calls] /\ call[x] \in Calls  BY DEF Inv, Attended
  <1>2. ASSUME UNCHANGED consoleVars, call[x].st \in {"none", "out"},
               call[x].st = "out" => ex'[x].st \in {"body", "eof", "broken"}
        PROVE  Went(x)
    <2>1. call' = [call EXCEPT ![x] = call[x]]  BY <1>1, <1>2 DEF consoleVars
    <2> QED  BY <1>1, <1>2, <2>1 DEF Went, consoleVars
  <1>3. ASSUME NEW n \in 0..MaxUnits, NEW sse \in BOOLEAN, CallAnswered(x, n, sse)
        PROVE  Went(x)
    <2> DEFINE c == [call[x] EXCEPT !.sse = sse]
    <2>1. call' = [call EXCEPT ![x] = c]  BY <1>1, <1>3 DEF CallAnswered
    <2>2. /\ c.con = call[x].con /\ c.st = call[x].st /\ c.got = call[x].got
          /\ c.err = call[x].err /\ c \in Calls
      BY <1>1 DEF Calls
    <2>3. ex'[x].st = "body"  BY <1>3, Leaves DEF Inv, CallAnswered
    <2> HIDE DEF c
    <2> QED  BY <1>3, <2>1, <2>2, <2>3 DEF Went, CallAnswered, Out
  <1>4. CASE CallReads(x)  BY <1>2, <1>4, Leaves DEF Inv, CallReads, Out
  <1>5. CASE CallReadsEnd(x)  BY <1>2, <1>5, Leaves DEF Inv, CallReadsEnd, Out
  <1>6. CASE CallReadFails(x)  BY <1>2, <1>6, Leaves DEF Inv, CallReadFails, Out
  <1>7. CASE Traffic(x)  BY <1>2, <1>7 DEF Traffic, Other
  <1> QED  BY <1>3, <1>4, <1>5, <1>6, <1>7

\* What a step does to the console.
LEMMA ConsoleFrame ==
    ASSUME Inv, [Next]_vars
    PROVE  \/ SetTarget \/ Clear
           \/ UNCHANGED consoleVars /\ UNCHANGED ex
           \/ \E x \in Exch :
                /\ Sent(x) \/ Came(x) \/ Went(x) \/ ApplyResult(x)
                /\ \A y \in Exch \ {x} : ex'[y] = ex[y]
  <1>1. ASSUME NEW x \in Exch, \E r : Turn(x, r)
        PROVE  \A y \in Exch \ {x} : ex'[y] = ex[y]
    BY <1>1, TurnKeepsExchanges DEF Inv
  <1>2. ASSUME NEW x \in Exch, NEW q \in Requests, ConsoleSend(x, q)
        PROVE  Sent(x) /\ \A y \in Exch \ {x} : ex'[y] = ex[y]
    BY <1>1, <1>2, SendSends, StartTurns DEF Inv, ConsoleSend
  <1>3. ASSUME NEW x \in Exch, CallStep(x)
        PROVE  /\ Came(x) \/ Went(x) \/ ApplyResult(x)
               /\ \A y \in Exch \ {x} : ex'[y] = ex[y]
    <2>1. CASE CallFails(x)  BY <1>1, <2>1, FailsComes, FailTurns DEF Inv, CallFails
    <2>2. ASSUME NEW n \in 0..MaxUnits, NEW sse \in BOOLEAN, CallAnswered(x, n, sse)
          PROVE  Went(x) /\ \A y \in Exch \ {x} : ex'[y] = ex[y]
      BY <1>1, <2>2, OthersGo, RespondTurns DEF Inv, CallAnswered
    <2>3. CASE CallReads(x)  BY <1>1, <2>3, OthersGo, ReadTurns DEF Inv, CallReads
    <2>4. CASE CallReadsEnd(x)  BY <1>1, <2>4, OthersGo, ReadEndTurns DEF Inv, CallReadsEnd
    <2>5. CASE CallReadFails(x)  BY <1>1, <2>5, OthersGo, ReadErrorTurns DEF Inv, CallReadFails
    <2>6. CASE CallCloses(x)  BY <1>1, <2>6, ClosesComes, CloseTurns DEF Inv, CallCloses
    <2>7. CASE ApplyResult(x)  BY <2>7 DEF ApplyResult, wireVars
    <2> QED  BY <1>3, <2>1, <2>2, <2>3, <2>4, <2>5, <2>6, <2>7 DEF CallStep
  <1>4. ASSUME NEW x \in Exch, Traffic(x)
        PROVE  Went(x) /\ \A y \in Exch \ {x} : ex'[y] = ex[y]
    <2>1. ASSUME NEW n \in 1..MaxUnits, Read(x, n)  PROVE \E r : Turn(x, r)
      <3>1. n \in Nat  OBVIOUS
      <3> QED  BY <2>1, <3>1, ReadTurns DEF Inv
    <2>2. \E r : Turn(x, r)
      BY <1>4, <2>1, StartTurns, FailTurns, RespondTurns, ReadEndTurns, ReadErrorTurns, CloseTurns
      DEF Traffic, Inv
    <2> QED  BY <1>1, <1>4, <2>2, OthersGo
  <1>5. CASE WirePane
    BY <1>5 DEF WirePane, SetEnabled, ShowWire, ClearWire
  <1>6. CASE UNCHANGED vars  BY <1>6 DEF vars, wireVars
  <1> QED  BY <1>2, <1>3, <1>4, <1>5, <1>6 DEF Next

\* The form of the calls after a step.
LEMMA AttendedStep ==
    ASSUME Inv, [Next]_vars
    PROVE  Attended' /\ WholeOrTold'
  <1>1. call \in [Exch -> Calls] /\ target \in 0..made /\ made \in Nat
    BY DEF Inv, Attended, PaneTypes
  <1>2. /\ \A x \in Exch : /\ call[x].st # "none" => ex[x].st # "idle" /\ call[x].con # 0
                           /\ call[x].st = "out" => ex[x].st \in {"out", "body", "eof", "broken"}
                           /\ call[x].st \in {"result", "shown"} => ex[x].st \in {"failed", "closed"}
        /\ \A x \in Exch : call[x].st \in {"result", "shown"} /\ call[x].err = "none"
                             => call[x].got = ex[x].total
    BY DEF Inv, Attended, WholeOrTold
  <1>3. CASE UNCHANGED <<call, ex>> /\ made <= made' /\ made' \in Nat
    <2>1. call' \in [Exch -> Calls']
      <3>1. \A x \in Exch : call[x] \in Calls'  BY <1>1, <1>3 DEF Calls
      <3> QED  BY <1>1, <1>3, <3>1
    <2> QED  BY <1>2, <1>3, <2>1 DEF Attended, WholeOrTold
  <1>4. ASSUME NEW x \in Exch, NEW c \in Calls, made' = made,
               call' = [call EXCEPT ![x] = c],
               \A y \in Exch \ {x} : ex'[y] = ex[y],
               c.st # "none" => ex'[x].st # "idle" /\ c.con # 0,
               c.st = "out" => ex'[x].st \in {"out", "body", "eof", "broken"},
               c.st \in {"result", "shown"} => ex'[x].st \in {"failed", "closed"},
               c.st \in {"result", "shown"} /\ c.err = "none" => c.got = ex'[x].total
        PROVE  Attended' /\ WholeOrTold'
    <2>1. Calls' = Calls  BY <1>4 DEF Calls
    <2>2. call' \in [Exch -> Calls]  BY <1>1, <1>4
    <2>3. call'[x] = c /\ \A y \in Exch \ {x} : call'[y] = call[y]  BY <1>1, <1>4
    <2>4. ASSUME NEW y \in Exch
          PROVE  /\ call'[y].st # "none" => ex'[y].st # "idle" /\ call'[y].con # 0
                 /\ call'[y].st = "out" => ex'[y].st \in {"out", "body", "eof", "broken"}
                 /\ call'[y].st \in {"result", "shown"} => ex'[y].st \in {"failed", "closed"}
                 /\ call'[y].st \in {"result", "shown"} /\ call'[y].err = "none"
                      => call'[y].got = ex'[y].total
      <3>1. CASE y = x  BY <1>4, <2>3, <3>1
      <3>2. CASE y # x
        <4>1. ex'[y] = ex[y] /\ call'[y] = call[y]  BY <1>4, <2>3, <3>2
        <4> QED  BY <1>2, <4>1
      <3> QED  BY <3>1, <3>2
    <2> QED  BY <2>1, <2>2, <2>4 DEF Attended, WholeOrTold
  <1>5. CASE SetTarget  BY <1>1, <1>3, <1>5 DEF SetTarget, wireVars
  <1>6. CASE Clear  BY <1>1, <1>3, <1>6 DEF Clear, wireVars
  <1>7. CASE UNCHANGED consoleVars /\ UNCHANGED ex
    BY <1>1, <1>3, <1>7 DEF consoleVars, paneVars
  <1>8. ASSUME NEW x \in Exch, \A y \in Exch \ {x} : ex'[y] = ex[y],
               Sent(x) \/ Came(x) \/ Went(x) \/ ApplyResult(x)
        PROVE  Attended' /\ WholeOrTold'
    <2>1. call[x] \in Calls  BY <1>1
    <2>2. CASE Sent(x)
      <3>1. PICK c : /\ call' = [call EXCEPT ![x] = c]
                     /\ c \in Calls /\ c.con = target /\ c.st = "out"
        BY <2>2 DEF Sent
      <3>2. c \in Calls /\ c.st = "out" /\ c.con # 0
        BY <1>1, <2>2, <3>1 DEF Calls, Sent, CanSend
      <3> QED  BY <1>4, <1>8, <2>2, <3>1, <3>2 DEF Sent
    <2>3. CASE Came(x)
      <3>1. PICK c : /\ call' = [call EXCEPT ![x] = c]
                     /\ c \in [con : {call[x].con}, st : {"result"}, sse : BOOLEAN,
                               got : Nat, err : {"none", "failed", "cap"}]
                     /\ c.err = "none" => c.got = ex'[x].total
        BY <2>3 DEF Came
      <3>2. c \in Calls /\ c.st = "result" /\ c.con = call[x].con
        BY <2>1, <3>1 DEF Calls
      <3>3. call[x].con # 0  BY <1>2, <2>3 DEF Came
      <3> QED  BY <1>4, <1>8, <2>3, <3>1, <3>2, <3>3 DEF Came, paneVars
    <2>4. CASE Went(x)
      <3>1. PICK c : /\ call' = [call EXCEPT ![x] = c]
                     /\ c.con = call[x].con /\ c.st = call[x].st /\ c.got = call[x].got
                     /\ c.err = call[x].err /\ c \in Calls
        BY <2>4 DEF Went
      <3>2. c.st \in {"none", "out"}  BY <2>4, <3>1 DEF Went
      <3>3. c.st = "out" => ex'[x].st \in {"body", "eof", "broken"} /\ c.con # 0
        BY <1>2, <2>4, <3>1 DEF Went
      <3> QED  BY <1>4, <1>8, <2>4, <3>1, <3>2, <3>3 DEF Went, paneVars
    <2>5. CASE ApplyResult(x)
      <3> DEFINE c == [call[x] EXCEPT !.st = "shown"]
      <3>1. call' = [call EXCEPT ![x] = c] /\ ex' = ex /\ made' = made
        BY <1>1, <2>5 DEF ApplyResult, wireVars
      <3>2. c \in Calls /\ c.st = "shown" /\ c.con = call[x].con /\ c.err = call[x].err
            /\ c.got = call[x].got
        BY <2>1 DEF Calls
      <3> HIDE DEF c
      <3>3. call[x].st = "result"  BY <2>5 DEF ApplyResult
      <3> QED  BY <1>2, <1>4, <1>8, <3>1, <3>2, <3>3
    <2> QED  BY <1>8, <2>2, <2>3, <2>4, <2>5
  <1> QED  BY <1>5, <1>6, <1>7, <1>8, ConsoleFrame

\* The calls out of the console in use after a step.
LEMMA AloneStep ==
    ASSUME Inv, [Next]_vars
    PROVE  Alone' /\ Own'
  <1>1. call \in [Exch -> Calls] /\ target \in 0..made /\ made \in Nat
        /\ inflight \in BOOLEAN /\ strayed \in BOOLEAN /\ answer \in Exch \union {NoExch}
        /\ \A x \in Exch : call[x].st # "none" => call[x].con # 0
    BY DEF Inv, Attended, PaneTypes
  <1>2. Alone /\ Own /\ NoExch \notin Exch  BY ConsoleAssumption DEF Inv
  <1>3. \A x \in Exch : call[x].con \in 0..made /\ (call[x].st \in {"out", "result"} => call[x].con # 0)
    BY <1>1 DEF Calls
  <1>4. CASE SetTarget \/ Clear
    <2>1. call' = call /\ Reset /\ (target' = made + 1 \/ target' = 0)
      BY <1>4 DEF SetTarget, Clear
    <2>2. CallsOut(target)' = {}  BY <1>1, <1>3, <2>1 DEF CallsOut
    <2> QED  BY <2>1, <2>2 DEF Alone, Own, Reset
  <1>5. CASE UNCHANGED consoleVars
    BY <1>2, <1>5 DEF Alone, Own, CallsOut, consoleVars, paneVars
  <1>6. ASSUME NEW x \in Exch, Sent(x) \/ Came(x) \/ Went(x) \/ ApplyResult(x)
        PROVE  Alone' /\ Own'
    <2>1. CASE Sent(x)
      <3>1. PICK c : /\ call' = [call EXCEPT ![x] = c]
                     /\ c \in Calls /\ c.con = target /\ c.st = "out"
        BY <2>1 DEF Sent
      <3>2. call'[x] = c /\ c.st = "out" /\ c.con = target
            /\ \A y \in Exch \ {x} : call'[y] = call[y]
        BY <1>1, <3>1
      <3>3. ~inflight /\ inflight' = TRUE /\ call[x].st = "none"
            /\ UNCHANGED <<target, strayed, answer>>
        BY <2>1 DEF Sent, CanSend
      <3>4. CallsOut(target)' = CallsOut(target) \union {x}
        BY <3>2, <3>3 DEF CallsOut
      <3>5. Alone'  BY <1>2, <3>3, <3>4 DEF Alone
      <3>6. Own'  BY <1>1, <1>2, <3>2, <3>3 DEF Own
      <3> QED  BY <3>5, <3>6
    <2>2. CASE Came(x) \/ Went(x)
      <3>1. PICK c : /\ call' = [call EXCEPT ![x] = c]
                     /\ c.con = call[x].con
                     /\ call[x].st # "shown" /\ c.st # "shown"
                     /\ c.st \in {"out", "result"} <=> call[x].st \in {"out", "result"}
        BY <2>2 DEF Came, Went
      <3>2. call'[x] = c /\ \A y \in Exch \ {x} : call'[y] = call[y]
        BY <1>1, <3>1
      <3>3. UNCHANGED paneVars  BY <2>2 DEF Came, Went
      <3>4. CallsOut(target)' = CallsOut(target)
        BY <3>1, <3>2, <3>3 DEF CallsOut, paneVars
      <3>5. Alone'  BY <1>2, <3>3, <3>4 DEF Alone, paneVars
      <3>6. Own'  BY <1>1, <1>2, <3>1, <3>2, <3>3 DEF Own, paneVars
      <3> QED  BY <3>5, <3>6
    <2>3. CASE ApplyResult(x)
      <3> DEFINE c == [call[x] EXCEPT !.st = "shown"]
      <3>1. call' = [call EXCEPT ![x] = c]  BY <1>1, <2>3 DEF ApplyResult
      <3>2. c.st = "shown" /\ c.con = call[x].con  BY <1>1 DEF Calls
      <3> HIDE DEF c
      <3>3. call'[x] = c /\ \A y \in Exch \ {x} : call'[y] = call[y]
        BY <1>1, <3>1
      <3>4. /\ call[x].st = "result" /\ inflight' = FALSE /\ answer' = x /\ target' = target
            /\ strayed' = (strayed \/ call[x].con # target)
        BY <2>3 DEF ApplyResult
      <3>5. CallsOut(target)' = CallsOut(target) \ {x}
        BY <3>2, <3>3, <3>4 DEF CallsOut
      <3>6. ~strayed' => ~strayed /\ x \in CallsOut(target)
        BY <3>4 DEF CallsOut
      <3>7. Alone'  BY <1>2, <3>4, <3>5, <3>6 DEF Alone
      <3>8. Own'  BY <3>2, <3>3, <3>4 DEF Own
      <3> QED  BY <3>7, <3>8
    <2> QED  BY <1>6, <2>1, <2>2, <2>3
  <1> QED  BY <1>4, <1>5, <1>6, ConsoleFrame

LEMMA PaneTypesStep ==
    ASSUME Inv, [Next]_vars
    PROVE  PaneTypes'
  <1>1. PaneTypes /\ MaxTargets \in Nat /\ HistorySize \in Nat /\ HistorySize > 0
    BY ConsoleAssumption DEF Inv
  <1>2. \A x \in Exch : Recorded(x) \in Seq(Exch) /\ Len(Recorded(x)) <= HistorySize
    <2> SUFFICES ASSUME NEW x \in Exch
                 PROVE  Recorded(x) \in Seq(Exch) /\ Len(Recorded(x)) <= HistorySize
      OBVIOUS
    <2>1. history \in Seq(Exch) /\ Len(history) <= HistorySize /\ Len(history) \in Nat
      BY <1>1 DEF PaneTypes
    <2>2. CASE Len(history) < HistorySize
      <3>1. Append(history, x) \in Seq(Exch) /\ Len(Append(history, x)) = Len(history) + 1
        BY <2>1
      <3> QED  BY <1>1, <2>1, <2>2, <3>1 DEF Recorded
    <2>3. CASE ~(Len(history) < HistorySize)
      <3>1. history # <<>>  BY <1>1, <2>1, <2>3
      <3>2. Tail(history) \in Seq(Exch) /\ Len(Tail(history)) = Len(history) - 1
        BY <2>1, <3>1
      <3>3. Append(Tail(history), x) \in Seq(Exch)
            /\ Len(Append(Tail(history), x)) = Len(history)
        BY <2>1, <3>2
      <3> QED  BY <2>1, <2>3, <3>3 DEF Recorded
    <2> QED  BY <2>2, <2>3
  <1>7. ASSUME Reset
        PROVE  /\ history' \in Seq(Exch) /\ Len(history') <= HistorySize
               /\ inflight' \in BOOLEAN /\ strayed' \in BOOLEAN
               /\ answer' \in Exch \union {NoExch}
    <2>1. history' = <<>>  BY <1>7 DEF Reset
    <2>2. history' \in Seq(Exch) /\ Len(history') = 0  BY <2>1
    <2>3. Len(history') <= HistorySize  BY <1>1, <2>2
    <2>4. inflight' = FALSE /\ strayed' = FALSE /\ answer' = NoExch  BY <1>7 DEF Reset
    <2> QED  BY <2>2, <2>3, <2>4
  <1>3. CASE SetTarget
    <2>1. made' = made + 1 /\ target' = made + 1 /\ made < MaxTargets
      BY <1>3 DEF SetTarget
    <2>2. target' \in 0..made' /\ made' \in 0..MaxTargets  BY <1>1, <2>1 DEF PaneTypes
    <2> QED  BY <1>3, <1>7, <2>2 DEF SetTarget, PaneTypes
  <1>4. CASE Clear
    <2>1. target' \in 0..made' /\ made' \in 0..MaxTargets  BY <1>1, <1>4 DEF Clear, PaneTypes
    <2> QED  BY <1>4, <1>7, <2>1 DEF Clear, PaneTypes
  <1>5. CASE UNCHANGED consoleVars  BY <1>1, <1>5 DEF consoleVars, paneVars, PaneTypes
  <1>6. ASSUME NEW x \in Exch, Sent(x) \/ Came(x) \/ Went(x) \/ ApplyResult(x)
        PROVE  PaneTypes'
    <2>1. CASE Sent(x)  BY <1>1, <2>1 DEF Sent, PaneTypes
    <2>2. CASE Came(x)  BY <1>1, <1>2, <2>2 DEF Came, PaneTypes, paneVars
    <2>3. CASE Went(x)  BY <1>1, <2>3 DEF Went, PaneTypes, paneVars
    <2>4. CASE ApplyResult(x)  BY <1>1, <2>4 DEF ApplyResult, PaneTypes
    <2> QED  BY <1>6, <2>1, <2>2, <2>3, <2>4
  <1> QED  BY <1>3, <1>4, <1>5, <1>6, ConsoleFrame

------------------------------------------------------------------------------
(* The theorems.                                                             *)

LEMMA Initial == Init => Inv
  <1> SUFFICES ASSUME Init  PROVE Inv
    OBVIOUS
  <1>1. WireInv  BY WireInitial
  <1>2. /\ target = 0 /\ made = 0 /\ inflight = FALSE /\ answer = NoExch /\ strayed = FALSE
        /\ history = <<>> /\ call = [x \in Exch |-> NoCall]
    BY DEF Init
  <1>3. NoCall \in Calls /\ NoCall.st = "none" /\ NoCall.con = 0  BY <1>2 DEF NoCall, Calls
  <1>4. \A x \in Exch : call[x] = NoCall  BY <1>2
  <1>10. history \in Seq(Exch) /\ Len(history) = 0  BY <1>2
  <1>11. target \in 0..made /\ made \in 0..MaxTargets /\ Len(history) <= HistorySize
    BY <1>2, <1>10, ConsoleAssumption
  <1>5. PaneTypes  BY <1>2, <1>10, <1>11 DEF PaneTypes
  <1>6. Attended  BY <1>2, <1>3, <1>4 DEF Attended
  <1>7. Alone  BY <1>2, <1>3, <1>4 DEF Alone, CallsOut
  <1>8. Own  BY <1>2 DEF Own
  <1>9. WholeOrTold  BY <1>3, <1>4 DEF WholeOrTold
  <1> QED  BY <1>1, <1>5, <1>6, <1>7, <1>8, <1>9 DEF Inv

LEMMA Invariance == Spec => []Inv
  <1>1. Init => Inv  BY Initial
  <1>2. Inv /\ [Next]_vars => Inv'
    <2> SUFFICES ASSUME Inv, [Next]_vars  PROVE Inv'
      OBVIOUS
    <2>1. WireInv'  BY WireStep DEF Inv
    <2>2. PaneTypes'  BY PaneTypesStep
    <2>3. Attended' /\ WholeOrTold'  BY AttendedStep
    <2>4. Alone' /\ Own'  BY AloneStep
    <2> QED  BY <2>1, <2>2, <2>3, <2>4 DEF Inv
  <1> QED  BY <1>1, <1>2, PTL DEF Spec

\* The log tells what happened: an exchange that was captured is committed once, by
\* RoundTrip when its request failed or by captureReadCloser when its body ended or
\* was closed, and the ring holds the newest, each with what its reader got.
THEOREM LogTellsWhatHappened == Spec => []LogExact
  <1>1. Inv => LogExact  BY LogIsExact DEF Inv
  <1> QED  BY <1>1, Invariance, PTL

\* Capturing changes nothing on the wire: captureRequestBody leaves a body that can be
\* replayed alone and drains any other only up to readHardCap.
THEOREM CaptureChangesNothing == Spec => []CaptureTransparent
  <1>1. Inv => CaptureTransparent  BY WireIsTransparent DEF Inv
  <1> QED  BY <1>1, Invariance, PTL

\* The wire pane's cacheKeyFor tells any two logs apart that would be drawn differently:
\* a document cached under the key of the log there is, is the document of that log.
THEOREM CacheKeySuffices == Spec => []FramesShownTrue
  <1>1. Inv => FramesShownTrue  BY FramesAreTrue DEF Inv
  <1> QED  BY <1>1, Invariance, PTL

\* The flag of consoleSend keeps a console to one call, and the viewport shows that
\* console's answer, unless applyResult was given a late answer of another.
THEOREM OneCallPerConsole == Spec => []OneCallAtATime
  <1>1. Inv => OneCallAtATime
    <2> SUFFICES ASSUME Inv  PROVE OneCallAtATime
      OBVIOUS
    <2>1. TypeOK
      <3>1. WireTypeOK  BY WireTyped, WireLogAssumption DEF Inv
      <3> QED  BY <3>1 DEF Inv, PaneTypes, TypeOK
    <2>2. Cardinality(CallsOut(target)) > 1 => strayed
      <3> SUFFICES ASSUME ~strayed  PROVE ~(Cardinality(CallsOut(target)) > 1)
        BY DEF Inv, PaneTypes
      <3>1. \A x, y \in CallsOut(target) : x = y  BY DEF Inv, Alone
      <3>2. CASE CallsOut(target) = {}  BY <3>2, FS_EmptySet
      <3>3. CASE CallsOut(target) # {}
        <4>1. PICK x \in CallsOut(target) : TRUE  BY <3>3
        <4>2. CallsOut(target) = {x}  BY <3>1, <4>1
        <4>3. Cardinality({x}) = 1  BY FS_Singleton
        <4> QED  BY <4>2, <4>3
      <3> QED  BY <3>2, <3>3
    <2>3. (inflight => CallsOut(target) # {})
          /\ (answer # NoExch => strayed \/ call[answer].con = target)
      BY DEF Inv, Alone, Own
    <2> QED  BY <2>1, <2>2, <2>3 DEF OneCallAtATime
  <1> QED  BY <1>1, Invariance, PTL

\* An answer of Call without an error is all the agent sent: readCapped and
\* collectFrames say so when they cut it or it broke off.
THEOREM AnswersAreWhole == Spec => []WholeOrTold
  <1>1. Inv => WholeOrTold  BY DEF Inv
  <1> QED  BY <1>1, Invariance, PTL

\* Call returns after the body is closed, so an exchange of the console is in the wire
\* log before its answer is shown.
THEOREM AnswersAreLogged == Spec => []LoggedBeforeAnswered
  <1>1. Inv => LoggedBeforeAnswered
    <2> SUFFICES ASSUME Inv, NEW x \in Exch, call[x].st \in {"result", "shown"}, ex[x].captured
                 PROVE  x \in Range(log)
      BY DEF LoggedBeforeAnswered
    <2>1. ex[x].st \in {"failed", "closed"}  BY DEF Inv, Attended
    <2>2. LogExact  BY LogIsExact DEF Inv
    <2> QED  BY <2>1, <2>2 DEF LogExact
  <1> QED  BY <1>1, Invariance, PTL
==============================================================================
