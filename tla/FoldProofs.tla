----------------------------- MODULE FoldProofs -----------------------------
(* Proofs about Compat03, for any words of an agent, about Transcript, for a  *)
(* transcript of any length, and about SurfacePane, for any surfaces and      *)
(* batches of envelopes.  What is computed along a sequence is reasoned about *)
(* by induction over the sequence.                                            *)
EXTENDS Compat03, Transcript, SurfacePane, WellFoundedInduction, SequenceTheorems, FiniteSetTheorems, TLAPS

------------------------------------------------------------------------------
(* Along a sequence.                                                          *)

\* Induction over the numbers, and over sequences, for the elements of a set.
LEMMA NatSteps ==
    ASSUME NEW P, 0 \in P, \A n \in Nat : n \in P => n + 1 \in P
    PROVE  Nat \subseteq P
<1>1. SUFFICES ASSUME Nat \ P # {} PROVE FALSE
    OBVIOUS
<1>2. PICK n \in Nat \ P : \A m \in Nat \ P : n <= m
    <2> DEFINE Q == Nat \ P
    <2>1. Q \in SUBSET Nat /\ Q # {}
        BY <1>1
    <2> HIDE DEF Q
    <2>2. PICK n \in Q : \A m \in Q : ~(<<m, n>> \in OpToRel(<, Nat))
        BY <2>1, NatLessThanWellFounded, WFMin
    <2>3. \A m \in Q : n <= m
        <3>1. \A m \in Q : m \in Nat /\ n \in Nat /\ ~(m < n)
            BY <2>1, <2>2 DEF OpToRel
        <3> QED
            BY <3>1
    <2> QED
        BY <2>3 DEF Q
<1>3. n - 1 \in Nat /\ (n - 1) + 1 = n /\ ~(n <= n - 1)
    BY <1>2
<1>4. n - 1 \in P
    BY <1>2, <1>3
<1> QED
    BY <1>2, <1>3, <1>4

LEMMA SeqSteps ==
    ASSUME NEW S, NEW P, <<>> \in P,
           \A s \in Seq(S), e \in S : s \in P => Append(s, e) \in P
    PROVE  Seq(S) \subseteq P
<1> DEFINE N == {n \in Nat : \A s \in Seq(S) : Len(s) = n => s \in P}
<1>1. 0 \in N
    <2>1. \A s \in Seq(S) : Len(s) = 0 => s = <<>>
        OBVIOUS
    <2> QED
        BY <2>1
<1>2. ASSUME NEW n \in Nat, n \in N PROVE n + 1 \in N
    <2>1. ASSUME NEW s \in Seq(S), Len(s) = n + 1 PROVE s \in P
        <3>1. s # <<>>
            BY <2>1
        <3>2. PICK t \in Seq(S), e \in S : s = Append(t, e)
            BY <3>1, SequenceEmptyOrAppend
        <3>3. Len(t) = n
            BY <2>1, <3>2, AppendProperties, LenProperties
        <3> QED
            BY <1>2, <3>2, <3>3
    <2> QED
        BY <2>1
<1>3. Nat \subseteq N
    <2> HIDE DEF N
    <2> QED
        BY <1>1, <1>2, NatSteps
<1> QED
    BY <1>3, LenProperties

\* G steps from one value of T to the next, for each element of S; f folds it along
\* the sequences over S.
Steps(S, T, base, G) == base \in T /\ \A t \in T, e \in S : G[<<t, e>>] \in T
Folds(f, S, T, base, G) ==
    /\ f \in [Seq(S) -> T] /\ f[<<>>] = base
    /\ \A s \in Seq(S), e \in S : f[Append(s, e)] = G[<<f[s], e>>]

LEMMA FoldExists ==
    ASSUME NEW S, NEW T, NEW base, NEW G, Steps(S, T, base, G)
    PROVE  \E f : Folds(f, S, T, base, G)
<1>0. base \in T /\ \A t \in T, e \in S : G[<<t, e>>] \in T
    BY DEF Steps
<1> DEFINE Trace(s, r) ==
        /\ r \in Seq(T) /\ Len(r) = Len(s) + 1 /\ r[1] = base
        /\ \A i \in 1..Len(s) : r[i + 1] = G[<<r[i], s[i]>>]
<1>1. Trace(<<>>, <<base>>)
    BY <1>0
<1>2. ASSUME NEW s \in Seq(S), NEW e \in S, NEW r, Trace(s, r)
      PROVE  Trace(Append(s, e), Append(r, G[<<r[Len(s) + 1], e>>]))
    <2> DEFINE v == G[<<r[Len(s) + 1], e>>]
               q == Append(r, v)
               a == Append(s, e)
    <2>1. Len(s) \in Nat /\ r \in Seq(T) /\ Len(r) = Len(s) + 1
        BY <1>2, LenProperties
    <2>2. r[Len(s) + 1] \in T
        BY <2>1, ElementOfSeq
    <2>3. v \in T
        BY <1>0, <2>2
    <2> HIDE DEF v
    <2>4. /\ q \in Seq(T) /\ Len(q) = Len(r) + 1 /\ q[Len(r) + 1] = v
          /\ \A i \in 1..Len(r) : q[i] = r[i]
        BY <2>1, <2>3, AppendProperties
    <2>5. /\ Len(a) = Len(s) + 1 /\ a[Len(s) + 1] = e
          /\ \A i \in 1..Len(s) : a[i] = s[i]
        BY AppendProperties
    <2> HIDE DEF q, a
    <2>6. q[1] = base
        BY <1>2, <2>1, <2>4
    <2>7. ASSUME NEW i \in 1..Len(a) PROVE q[i + 1] = G[<<q[i], a[i]>>]
        <3>1. CASE i \in 1..Len(s)
            <4>1. i + 1 \in 1..Len(r) /\ i \in 1..Len(r)
                BY <2>1, <3>1
            <4>2. q[i + 1] = r[i + 1] /\ q[i] = r[i] /\ a[i] = s[i]
                BY <2>4, <2>5, <3>1, <4>1
            <4>3. r[i + 1] = G[<<r[i], s[i]>>]
                BY <1>2, <3>1
            <4> QED
                BY <4>2, <4>3
        <3>2. CASE i = Len(s) + 1
            <4>1. q[i + 1] = v /\ q[i] = r[i] /\ a[i] = e
                BY <2>1, <2>4, <2>5, <3>2
            <4> QED
                BY <3>2, <4>1 DEF v
        <3> QED
            BY <2>1, <2>5, <2>7, <3>1, <3>2
    <2>8. Len(q) = Len(a) + 1
        BY <2>1, <2>4, <2>5
    <2> QED
        BY <2>4, <2>6, <2>7, <2>8 DEF q, a, v
<1>3. ASSUME NEW s \in Seq(S), NEW r, NEW q, Trace(s, r), Trace(s, q)
      PROVE  r = q
    <2> DEFINE N == {n \in Nat : n + 1 <= Len(r) => r[n + 1] = q[n + 1]}
    <2>1. 0 \in N
        BY <1>3
    <2>2. ASSUME NEW n \in Nat, n \in N PROVE n + 1 \in N
        <3>1. SUFFICES ASSUME n + 2 <= Len(r) PROVE r[n + 2] = q[n + 2]
            OBVIOUS
        <3>2. Len(r) = Len(s) + 1 /\ Len(s) \in Nat
            BY <1>3, LenProperties
        <3>3. n + 1 \in 1..Len(s) /\ n + 1 <= Len(r) /\ (n + 1) + 1 = n + 2
            BY <3>1, <3>2
        <3>4. r[n + 1] = q[n + 1]
            BY <2>2, <3>3
        <3>5. r[(n + 1) + 1] = G[<<r[n + 1], s[n + 1]>>] /\ q[(n + 1) + 1] = G[<<q[n + 1], s[n + 1]>>]
            BY <1>3, <3>3
        <3> QED
            BY <3>3, <3>4, <3>5
    <2>3. Nat \subseteq N
        <3> HIDE DEF N
        <3> QED
            BY <2>1, <2>2, NatSteps
    <2>4. r \in Seq(T) /\ q \in Seq(T) /\ Len(r) = Len(q) /\ Len(r) \in Nat
        BY <1>3, LenProperties
    <2>5. ASSUME NEW i \in 1..Len(r) PROVE r[i] = q[i]
        <3>1. i - 1 \in Nat /\ (i - 1) + 1 = i /\ i <= Len(r)
            BY <2>4
        <3>2. i - 1 \in N
            BY <2>3, <3>1
        <3> QED
            BY <3>1, <3>2
    <2> QED
        BY <2>4, <2>5, SeqEqual
<1> HIDE DEF Trace
<1>4. \A s \in Seq(S) : \E r : Trace(s, r)
    <2> DEFINE P == {s \in Seq(S) : \E r : Trace(s, r)}
    <2>1. <<>> \in P
        BY <1>1
    <2>2. ASSUME NEW s \in Seq(S), NEW e \in S, s \in P PROVE Append(s, e) \in P
        BY <1>2, <2>2, AppendProperties
    <2>3. Seq(S) \subseteq P
        <3> HIDE DEF P
        <3> QED
            BY <2>1, <2>2, SeqSteps
    <2> QED
        BY <2>3
<1> DEFINE R(s) == CHOOSE r : Trace(s, r)
           f == [s \in Seq(S) |-> R(s)[Len(s) + 1]]
<1>5. \A s \in Seq(S) : Trace(s, R(s))
    BY <1>4
<1> HIDE DEF R
<1>6. ASSUME NEW s \in Seq(S) PROVE R(s)[Len(s) + 1] \in T
    <2>1. R(s) \in Seq(T) /\ Len(R(s)) = Len(s) + 1 /\ Len(s) \in Nat
        BY <1>5, LenProperties DEF Trace
    <2> QED
        BY <2>1, ElementOfSeq
<1>7. f \in [Seq(S) -> T]
    BY <1>6
<1>8. f[<<>>] = base
    <2>1. R(<<>>)[1] = base /\ Len(<<>>) = 0 /\ <<>> \in Seq(S)
        BY <1>5, EmptySeq DEF Trace
    <2> QED
        BY <2>1
<1>9. ASSUME NEW s \in Seq(S), NEW e \in S PROVE f[Append(s, e)] = G[<<f[s], e>>]
    <2> DEFINE v == G[<<R(s)[Len(s) + 1], e>>]
    <2>1. Append(s, e) \in Seq(S) /\ Len(Append(s, e)) = Len(s) + 1 /\ Len(s) \in Nat
        BY AppendProperties, LenProperties
    <2>2. R(Append(s, e)) = Append(R(s), v)
        BY <1>2, <1>3, <1>5, <2>1
    <2>3. R(s) \in Seq(T) /\ Len(R(s)) = Len(s) + 1
        BY <1>5 DEF Trace
    <2>4. v \in T
        BY <1>0, <1>6
    <2> HIDE DEF v
    <2>5. Append(R(s), v)[(Len(s) + 1) + 1] = v
        BY <2>3, <2>4, AppendProperties
    <2>6. f[Append(s, e)] = v
        BY <2>1, <2>2, <2>5
    <2> QED
        BY <2>6 DEF v
<1>10. Folds(f, S, T, base, G)
    BY <1>7, <1>8, <1>9 DEF Folds
<1> QED
    BY <1>10

\* What is computed from 0 to N, step by step.
Runs(f, N, T, base, G) ==
    /\ f \in [0..N -> T] /\ f[0] = base
    /\ \A i \in 1..N : f[i] = G[<<f[i - 1], i>>]

LEMMA RunExists ==
    ASSUME NEW N \in Nat, NEW T, NEW base, NEW G, Steps(1..N, T, base, G)
    PROVE  \E f : Runs(f, N, T, base, G)
<1>1. PICK g : Folds(g, 1..N, T, base, G)
    BY FoldExists
<1> DEFINE Id(n) == [k \in 1..n |-> k]
           f == [n \in 0..N |-> g[Id(n)]]
<1>2. \A n \in 0..N : Id(n) \in Seq(1..N)
    OBVIOUS
<1>3. Id(0) = <<>>
    OBVIOUS
<1>4. ASSUME NEW n \in 1..N PROVE Id(n) = Append(Id(n - 1), n)
    <2>1. n - 1 \in Nat /\ n \in Nat /\ (n - 1) + 1 = n
        OBVIOUS
    <2>2. Id(n - 1) \in Seq(Nat) /\ Len(Id(n - 1)) = n - 1 /\ Id(n) \in Seq(Nat) /\ Len(Id(n)) = n
        BY <2>1
    <2>3. /\ Append(Id(n - 1), n) \in Seq(Nat) /\ Len(Append(Id(n - 1), n)) = n
          /\ (\A k \in 1..(n - 1) : Append(Id(n - 1), n)[k] = Id(n - 1)[k])
          /\ Append(Id(n - 1), n)[n] = n
        <3>1. n \in Nat
            OBVIOUS
        <3> HIDE DEF Id
        <3> QED
            BY <2>1, <2>2, <3>1, AppendProperties
    <2>4. \A k \in 1..n : Id(n)[k] = Append(Id(n - 1), n)[k]
        BY <2>3
    <2> HIDE DEF Id
    <2> QED
        BY <2>2, <2>3, <2>4, SeqEqual
<1> HIDE DEF Id
<1>5. f \in [0..N -> T] /\ f[0] = base
    BY <1>1, <1>2, <1>3 DEF Folds
<1>6. ASSUME NEW n \in 1..N PROVE f[n] = G[<<f[n - 1], n>>]
    <2>1. n - 1 \in 0..N /\ n \in 0..N
        OBVIOUS
    <2>2. g[Id(n)] = G[<<g[Id(n - 1)], n>>]
        BY <1>1, <1>2, <1>4, <2>1 DEF Folds
    <2> QED
        BY <2>1, <2>2
<1>7. Runs(f, N, T, base, G)
    BY <1>5, <1>6 DEF Runs
<1> QED
    BY <1>7

------------------------------------------------------------------------------
(* What the agent said.                                                       *)

DataLines == [line : {"data"}, frame : Frames, half : 0..2]
Groups    == Seq(DataLines)
Events    == {EventFromResult(f.result) : f \in Frames}
Hearings  == [events : Seq(Events), stray : SUBSET Groups, group : Groups]

\* b goes on from a.
Begins(a, b) == Len(a) <= Len(b) /\ \A i \in 1..Len(a) : a[i] = b[i]

LEMMA BeginsOn ==
    ASSUME NEW a \in Seq(Events), NEW b \in Seq(Events), NEW c \in Seq(Events),
           Begins(a, b), Begins(b, c)
    PROVE  Begins(a, c)
<1>1. Len(a) \in Nat /\ Len(b) \in Nat /\ Len(c) \in Nat
    BY LenProperties
<1> QED
    BY <1>1 DEF Begins

LEMMA LinesAre ==
    ASSUME NEW l \in Lines
    PROVE  l \in DataLines \/ l \in {Blank, Ignored, Huge}
<1>1. \A f \in Frames : \A i \in 0..2 : Half(f, i) \in DataLines
    BY DEF Half, DataLines
<1>2. \A f \in Frames : Data1(f) \in DataLines
    BY DEF Data1, DataLines
<1> QED
    BY <1>1, <1>2, Compat03Assumption DEF Lines

LEMMA DataLinesAre ==
    ASSUME NEW l \in Lines
    PROVE  l.line = "data" => l \in DataLines
BY LinesAre DEF Blank, Ignored, Huge

LEMMA OtherLines ==
    Blank.line # "data" /\ Ignored.line # "data" /\ Huge.line # "data" /\ Ignored # Blank /\ Huge # Blank
BY DEF Blank, Ignored, Huge

LEMMA EventsAre ==
    ASSUME NEW g \in Groups, g # <<>>
    PROVE  EventFromResult(g[1].frame.result) \in Events
<1>1. g[1] \in DataLines
    BY DEF Groups
<1> QED
    BY <1>1 DEF DataLines, Events

LEMMA FinishedIs ==
    ASSUME NEW h \in Hearings
    PROVE  /\ Finished(h) \in Hearings /\ Finished(h).group = <<>>
           /\ Begins(h.events, Finished(h).events)
           /\ h.group = <<>> => Finished(h) = h
<1>0. h.events \in Seq(Events) /\ h.stray \in SUBSET Groups /\ h.group \in Groups
    BY DEF Hearings
<1>1. CASE h.group = <<>>
    BY <1>0, <1>1 DEF Finished, Begins
<1>2. CASE h.group # <<>>
    <2> DEFINE v == EventFromResult(h.group[1].frame.result)
               es == IF IsEvent(h.group) THEN Append(h.events, v) ELSE h.events
               st == IF IsEvent(h.group) \/ IsNull(h.group) THEN h.stray
                     ELSE h.stray \union {h.group}
    <2>1. Finished(h) = [events |-> es, stray |-> st, group |-> <<>>]
        BY <1>2 DEF Finished
    <2>2. v \in Events
        BY <1>0, <1>2, EventsAre
    <2> HIDE DEF v
    <2>3. es \in Seq(Events) /\ Begins(h.events, es)
        <3>1. h.events \in Seq(Events) /\ Begins(h.events, h.events)
            BY <1>0, LenProperties DEF Begins
        <3>2. Append(h.events, v) \in Seq(Events) /\ Begins(h.events, Append(h.events, v))
            BY <1>0, <2>2, AppendProperties, LenProperties DEF Begins
        <3> QED
            BY <3>1, <3>2
    <2>4. st \in SUBSET Groups
        BY <1>0
    <2>5. <<>> \in Groups
        BY DEF Groups
    <2> HIDE DEF es, st
    <2> QED
        BY <1>2, <2>1, <2>3, <2>4, <2>5 DEF Hearings
<1> QED
    BY <1>1, <1>2

LEMMA ReadsIs ==
    ASSUME NEW h \in Hearings, NEW l \in Lines
    PROVE  Reads(h, l) \in Hearings /\ Begins(h.events, Reads(h, l).events)
<1>0. h.events \in Seq(Events) /\ h.stray \in SUBSET Groups /\ h.group \in Groups
    BY DEF Hearings
<1>1. Begins(h.events, h.events)
    BY <1>0, LenProperties DEF Begins
<1>2. CASE l.line = "data"
    <2>1. l \in DataLines
        BY <1>2, DataLinesAre
    <2>2. Append(h.group, l) \in Groups
        BY <1>0, <2>1, AppendProperties DEF Groups
    <2>3. Reads(h, l) = [h EXCEPT !.group = Append(h.group, l)]
        BY <1>2 DEF Reads
    <2> QED
        BY <1>1, <2>2, <2>3 DEF Hearings
<1>3. CASE l.line # "data"
    BY <1>1, <1>3, FinishedIs DEF Reads
<1> QED
    BY <1>2, <1>3

\* Heard is what it is defined to be: a fold over the lines.
LEMMA HeardIs ==
    /\ Heard \in [Seq(Lines) -> Hearings] /\ Heard[<<>>] = Nothing
    /\ \A s \in Seq(Lines), l \in Lines : Heard[Append(s, l)] = Reads(Heard[s], l)
<1> DEFINE G == [p \in Hearings \X Lines |-> Reads(p[1], p[2])]
           Fits(f) == f = [lines \in Seq(Lines) |->
                             IF lines = <<>> THEN Nothing ELSE Reads(f[Front(lines)], Last(lines))]
<1>1. Nothing \in Hearings
    BY DEF Nothing, Hearings, Groups
<1>2. \A h \in Hearings, l \in Lines : G[<<h, l>>] = Reads(h, l)
    OBVIOUS
<1> HIDE DEF G
<1>3. Steps(Lines, Hearings, Nothing, G)
    BY <1>1, <1>2, ReadsIs DEF Steps
<1>4. PICK f : Folds(f, Lines, Hearings, Nothing, G)
    BY <1>3, FoldExists
<1>5. ASSUME NEW s \in Seq(Lines), s # <<>>
      PROVE  \E t \in Seq(Lines), l \in Lines : s = Append(t, l) /\ Front(s) = t /\ Last(s) = l
    <2>1. PICK t \in Seq(Lines), l \in Lines : s = Append(t, l)
        BY <1>5, SequenceEmptyOrAppend
    <2>2. Len(s) = Len(t) + 1 /\ Len(t) \in Nat /\ s[Len(s)] = l
        BY <2>1, AppendProperties, LenProperties
    <2>3. SubSeq(s, 1, Len(s) - 1) = t
        BY <2>1, <2>2
    <2> QED
        BY <2>1, <2>2, <2>3 DEF Front, Last
<1>6. Fits(f)
    <2>1. ASSUME NEW s \in Seq(Lines)
          PROVE  f[s] = IF s = <<>> THEN Nothing ELSE Reads(f[Front(s)], Last(s))
        <3>1. CASE s = <<>>
            BY <3>1, <1>4 DEF Folds
        <3>2. CASE s # <<>>
            <4>1. PICK t \in Seq(Lines), l \in Lines : s = Append(t, l) /\ Front(s) = t /\ Last(s) = l
                BY <3>2, <1>5
            <4>2. f[s] = G[<<f[t], l>>] /\ f[t] \in Hearings
                BY <1>4, <4>1 DEF Folds
            <4> QED
                BY <1>2, <3>2, <4>1, <4>2
        <3> QED
            BY <3>1, <3>2
    <2>2. f = [s \in Seq(Lines) |-> f[s]]
        BY <1>4 DEF Folds
    <2> QED
        BY <2>1, <2>2
<1>7. Fits(Heard)
    <2> HIDE DEF Fits
    <2>1. Heard = CHOOSE g : Fits(g)
        BY DEF Heard, Fits
    <2> QED
        BY <2>1, <1>6
<1>8. Heard[<<>>] = Nothing
    BY <1>7, EmptySeq
<1>9. ASSUME NEW s \in Seq(Lines), NEW l \in Lines PROVE Heard[Append(s, l)] = Reads(Heard[s], l)
    <2>1. Append(s, l) \in Seq(Lines) /\ Append(s, l) # <<>>
        BY AppendProperties
    <2>2. PICK t \in Seq(Lines), k \in Lines :
              Append(s, l) = Append(t, k) /\ Front(Append(s, l)) = t /\ Last(Append(s, l)) = k
        BY <1>5, <2>1
    <2>3. s = t /\ l = k
        BY <2>2, AppendInjective
    <2> QED
        BY <1>7, <2>1, <2>2, <2>3
<1>10. \A s \in Seq(Lines) : Heard[s] \in Hearings
    <2> DEFINE P == {s \in Seq(Lines) : Heard[s] \in Hearings}
    <2>1. <<>> \in P
        BY <1>1, <1>8, EmptySeq
    <2>2. \A s \in Seq(Lines), l \in Lines : s \in P => Append(s, l) \in P
        BY <1>9, ReadsIs, AppendProperties
    <2>3. Seq(Lines) \subseteq P
        <3> HIDE DEF P
        <3> QED
            BY <2>1, <2>2, SeqSteps
    <2> QED
        BY <2>3
<1> QED
    BY <1>7, <1>8, <1>9, <1>10

\* What comes later goes on from what came before.
LEMMA HeardGrows ==
    ASSUME NEW w \in Seq(Lines), NEW n \in 0..Len(w)
    PROVE  Begins(Heard[SubSeq(w, 1, n)].events, Heard[w].events)
<1> DEFINE s == SubSeq(w, 1, n)
           rest == SubSeq(w, n + 1, Len(w))
           P == {t \in Seq(Lines) : Begins(Heard[s].events, Heard[s \o t].events)}
<1>1. Len(w) \in Nat /\ (\A i \in 1..Len(w) : w[i] \in Lines)
    BY LenProperties, ElementOfSeq
<1>2. s \in Seq(Lines) /\ rest \in Seq(Lines) /\ s \o rest = w
    <2>1. 1 \in 1..Len(w) + 1 /\ n \in (1 - 1)..Len(w) /\ Len(w) \in n..Len(w)
        BY <1>1
    <2>2. SubSeq(w, 1, n) \o SubSeq(w, n + 1, Len(w)) = SubSeq(w, 1, Len(w))
        BY <2>1, ConcatAdjacentSubSeq, Zenon
    <2>3. s \in Seq(Lines) /\ rest \in Seq(Lines)
        BY <1>1
    <2> QED
        BY <2>2, <2>3, SubSeqFull, Zenon
<1>3. ASSUME NEW t \in Seq(Lines)
      PROVE  s \o t \in Seq(Lines) /\ Heard[s \o t].events \in Seq(Events)
    <2>1. s \o t \in Seq(Lines)
        BY <1>2, ConcatProperties
    <2> QED
        BY <2>1, HeardIs DEF Hearings
<1> HIDE DEF s, rest
<1>4. s \o <<>> = s /\ Heard[s].events \in Seq(Events)
    BY <1>2, HeardIs, ConcatEmptySeq DEF Hearings
<1>5. <<>> \in P
    BY <1>4, EmptySeq, LenProperties DEF Begins
<1>6. ASSUME NEW t \in Seq(Lines), NEW l \in Lines, t \in P PROVE Append(t, l) \in P
    <2> DEFINE u == s \o t
    <2>1. s \o Append(t, l) = Append(u, l)
        BY <1>2
    <2>2. u \in Seq(Lines) /\ Heard[u] \in Hearings
        BY <1>3, HeardIs
    <2>3. Append(t, l) \in Seq(Lines) /\ Append(u, l) \in Seq(Lines)
        BY <2>2, AppendProperties
    <2>4. Heard[Append(u, l)] = Reads(Heard[u], l)
        BY <2>2, HeardIs
    <2>5. Begins(Heard[u].events, Heard[Append(u, l)].events)
        BY <2>2, <2>4, ReadsIs
    <2>6. Begins(Heard[s].events, Heard[u].events)
        BY <1>6
    <2>7. Heard[u].events \in Seq(Events) /\ Heard[Append(u, l)].events \in Seq(Events)
        BY <2>2, <2>3, HeardIs DEF Hearings
    <2> HIDE DEF u
    <2>8. Begins(Heard[s].events, Heard[Append(u, l)].events)
        BY <1>4, <2>5, <2>6, <2>7, BeginsOn
    <2> QED
        BY <2>1, <2>3, <2>8
<1>7. Seq(Lines) \subseteq P
    <2> HIDE DEF P
    <2> QED
        BY <1>5, <1>6, SeqSteps
<1> QED
    BY <1>2, <1>7 DEF s

------------------------------------------------------------------------------
(* The state of a stream, and the blocking calls.                             *)

\* What the stream holds at each step.
Handed ==
    {[event |-> EventFromResult(f.result), final |-> FinalOf(f.result)] : f \in Frames}
StreamTyped ==
    /\ pc \in {"idle", "check", "read", "frame", "yield", "closing", "done"}
    /\ wire \in Seq(Lines)
    /\ rd \in 0..Len(wire)
    /\ dataLines \in Seq(DataLines) /\ (pc = "frame" => dataLines # <<>>)
    /\ out \in Seq(Handed) /\ (pc = "yield" => out # <<>>)
    /\ timer \in 0..Off

LEMMA LinesSaid ==
    AgentSays => \E l \in Lines : Say(l)
BY Compat03Assumption DEF AgentSays, Lines

LEMMA ClientStreamSteps ==
    ASSUME StreamTyped, Released, [ClientNext]_clientVars
    PROVE  StreamTyped' /\ Released'
<1> DEFINE Over == {"yield", "closing", "done"}
<1>0. /\ IdleTicks \in Nat \ {0} /\ Off = IdleTicks + 1
      /\ Off \in Nat /\ 0 \in 0..Off
    BY Compat03Assumption DEF Off
<1>1. /\ pc = "done" => body # "open" /\ timer = Off
      /\ \A i \in DOMAIN out : out[i].final => i = Len(out) /\ pc \in Over
    BY DEF Released
<1>2. SUFFICES /\ StreamTyped'
               /\ pc' = "done" => body' # "open" /\ timer' = Off
               /\ \A i \in DOMAIN out' : out'[i].final => i = Len(out') /\ pc' \in Over
    BY DEF Released, Off
<1>3. CASE UNCHANGED clientVars
    BY <1>1, <1>3 DEF clientVars, readerVars, watchVars, StreamTyped
<1>4. CASE Open \/ OpenFails
    BY <1>0, <1>1, <1>4 DEF Open, OpenFails, Ended, readerVars,
        watchVars, StreamTyped
<1>5. CASE CheckContext
    BY <1>1, <1>5 DEF CheckContext, Ended, Goes, readerVars,
        watchVars, StreamTyped
<1>6. Kicked \in 0..Off
    BY <1>0 DEF Kicked, StreamTyped
<1>7. CASE ReadIgnored \/ ReadBlank \/ ReadHuge
    <2>1. /\ pc' \in {"check", "frame", "closing"} /\ (pc' = "frame" => dataLines # <<>>)
          /\ rd < Len(wire) /\ rd' = rd + 1 /\ timer' = Kicked
          /\ UNCHANGED <<wire, dataLines, out>>
        BY <1>7 DEF ReadIgnored, ReadBlank, ReadHuge, ReadsOn,
            HasLine, Ended, Goes
    <2>2. pc = "read"
        BY <1>7 DEF ReadIgnored, ReadBlank, ReadHuge, ReadsOn
    <2>3. rd' \in 0..Len(wire')
        BY <2>1 DEF StreamTyped
    <2>4. StreamTyped'
        BY <1>6, <2>1, <2>3 DEF StreamTyped
    <2> QED
        BY <1>1, <2>1, <2>2, <2>4
<1>8. CASE ReadData
    <2>1. /\ pc = "read" /\ rd < Len(wire) /\ wire[rd + 1].line = "data" /\ rd' = rd + 1
          /\ UNCHANGED <<wire, out, body>> /\ timer' = Kicked
          /\ \/ pc' = "closing" /\ UNCHANGED dataLines
             \/ pc' = "check" /\ dataLines' = Append(dataLines, wire[rd + 1])
        BY <1>8 DEF ReadData, ReadsOn, HasLine, NextLine, Ended,
            Goes
    <2>2. wire[rd + 1] \in Lines
        BY <2>1, ElementOfSeq DEF StreamTyped
    <2>3. wire[rd + 1] \in DataLines
        BY <2>1, <2>2, DataLinesAre
    <2> HIDE DEF DataLines
    <2>4. dataLines \in Seq(DataLines) /\ dataLines' \in Seq(DataLines)
        <3>1. dataLines \in Seq(DataLines)
            BY DEF StreamTyped
        <3>2. dataLines' = dataLines \/ dataLines' = Append(dataLines, wire[rd + 1])
            BY <2>1
        <3>3. \A l \in DataLines : Append(dataLines, l) \in Seq(DataLines)
            BY <3>1
        <3> QED
            BY <2>3, <3>1, <3>2, <3>3
    <2>5. pc' \in {"closing", "check"} /\ rd + 1 \in 0..Len(wire)
        <3>1. rd \in 0..Len(wire) /\ Len(wire) \in Nat
            BY DEF StreamTyped
        <3>2. rd < Len(wire) /\ pc' \in {"closing", "check"}
            BY <2>1
        <3> QED
            BY <3>1, <3>2
    <2>6. StreamTyped'
        BY <1>6, <2>1, <2>4, <2>5 DEF StreamTyped
    <2> QED
        BY <1>1, <2>1, <2>5, <2>6
<1>9. CASE ReadEOF \/ ReadFails
    BY <1>1, <1>6, <1>9 DEF ReadEOF, ReadFails, ReadsOn, readerVars,
        Ended, Goes, StreamTyped
<1>10. CASE FrameRefused \/ FrameNull
    <2>1. /\ pc = "frame" /\ pc' \in {"closing", "check"} /\ dataLines' = <<>>
          /\ UNCHANGED <<wire, rd, out, timer, body>>
        BY <1>10 DEF FrameRefused, FrameNull, InFrame, watchVars,
            AfterFrame, Ended, Goes
    <2> QED
        BY <1>1, <2>1 DEF StreamTyped
<1>11. CASE FrameEvent
    <2> DEFINE e == [event |-> EventFromResult(dataLines[1].frame.result),
                     final |-> FinalOf(dataLines[1].frame.result)]
    <2>1. /\ pc = "frame" /\ pc' = "yield" /\ dataLines' = <<>> /\ out' = Append(out, e)
          /\ UNCHANGED <<wire, rd, timer>>
        BY <1>11 DEF FrameEvent, InFrame, watchVars, Goes
    <2>2. dataLines[1].frame \in Frames
        <3>1. dataLines \in Seq(DataLines) /\ dataLines # <<>>
            BY <2>1 DEF StreamTyped
        <3>2. dataLines[1] \in DataLines
            BY <3>1
        <3> QED
            BY <3>2 DEF DataLines
    <2>3. e \in Handed
        BY <2>2 DEF Handed
    <2>4. \A i \in DOMAIN out : ~out[i].final
        BY <1>1, <2>1
    <2> HIDE DEF e
    <2>5. out' \in Seq(Handed) /\ out' # <<>> /\ Len(out') = Len(out) + 1
        BY <2>1, <2>3 DEF StreamTyped
    <2>6. \A i \in DOMAIN out' : i # Len(out') => i \in DOMAIN out /\ out'[i] = out[i]
        BY <2>1, <2>3 DEF StreamTyped
    <2>7. StreamTyped'
        BY <2>1, <2>5 DEF StreamTyped
    <2> QED
        BY <2>1, <2>4, <2>6, <2>7
<1>12. CASE ConsumerTakes
    <2>1. /\ pc = "yield" /\ UNCHANGED <<wire, rd, dataLines, last, out, timer, body>>
          /\ \/ pc' = "closing"
             \/ pc' = "check" /\ ~out[Len(out)].final
        BY <1>12 DEF ConsumerTakes, AfterFrame, Ended, Goes,
            readerVars, watchVars, Last
    <2> QED
        BY <1>1, <2>1 DEF StreamTyped
<1>13. CASE ConsumerStops \/ Cancel
    BY <1>1, <1>13 DEF ConsumerStops, Cancel, Ended, readerVars,
        watchVars, StreamTyped
<1>14. CASE Close
    BY <1>0, <1>1, <1>14 DEF Close, readerVars, StreamTyped
<1>15. CASE Tick \/ Fire \/ WatchdogCloses
    <2>1. /\ UNCHANGED <<pc, wire, rd, dataLines, out>>
          /\ (timer < IdleTicks /\ timer' = timer + 1) \/ UNCHANGED timer
          /\ body' = body \/ body' = "closed"
        BY <1>15 DEF Tick, Fire, WatchdogCloses, readerVars
    <2>2. timer' \in 0..Off /\ (timer = Off => timer' = timer)
        BY <1>0, <2>1 DEF StreamTyped
    <2>3. pc' = pc /\ wire' = wire /\ rd' = rd /\ dataLines' = dataLines /\ out' = out
        BY <2>1
    <2>4. StreamTyped'
        BY ZenonT(40), <2>2, <2>3 DEF StreamTyped, Off
    <2> QED
        BY <1>1, <2>1, <2>2, <2>3, <2>4
<1>16. ASSUME NEW l \in Lines, Say(l)
       PROVE  /\ StreamTyped'
              /\ pc' = "done" => body' # "open" /\ timer' = Off
              /\ \A i \in DOMAIN out' : out'[i].final => i = Len(out') /\ pc' \in Over
    <2>1. wire' = Append(wire, l) /\ UNCHANGED <<pc, rd, dataLines, out, body, timer>>
        BY <1>16 DEF Say, readerVars, watchVars
    <2>2. wire' \in Seq(Lines) /\ Len(wire') = Len(wire) + 1 /\ Len(wire) \in Nat
        BY <2>1, AppendProperties, LenProperties DEF StreamTyped
    <2>3. rd' \in 0..Len(wire')
        BY <2>1, <2>2 DEF StreamTyped
    <2>4. StreamTyped'
        BY <2>1, <2>2, <2>3 DEF StreamTyped, Off
    <2> QED
        BY <1>1, <2>1, <2>4
<1>17. CASE AgentSays
    BY <1>16, <1>17, LinesSaid
<1>18. ASSUME NEW how \in {"eof", "cut"}, AgentEnds(how)
       PROVE  /\ StreamTyped'
              /\ pc' = "done" => body' # "open" /\ timer' = Off
              /\ \A i \in DOMAIN out' : out'[i].final => i = Len(out') /\ pc' \in Over
    BY <1>1, <1>18 DEF AgentEnds, readerVars, watchVars, StreamTyped
<1>19. CASE \/ \E m \in CallMethods, a \in Answers : BlockingCall(m, a)
            \/ \E p \in PushConfigs : CreatePush(p)
    BY <1>1, <1>19 DEF BlockingCall, CreatePush, readerVars, watchVars,
        StreamTyped
<1> QED
    BY <1>3, <1>4, <1>5, <1>7, <1>8, <1>9, <1>10, <1>11, <1>12, <1>13, <1>14, <1>15, <1>17, <1>18,
       <1>19 DEF ClientNext, Reader, Watchdog

\* What a call comes to, judged as NoErrorSwallowed judges it.
Judged(g) ==
    IF g.method = "push/set" THEN g.outcome = Success(g.answer)
    ELSE g.outcome.ok <=>
           /\ g.method \in {"message/send", "tasks/get", "tasks/cancel"}
           /\ g.answer.came = "whole" /\ g.answer.http = 200
           /\ g.answer.says \in {"result", "null"}
           /\ g.method = "message/send" =>
                g.answer.says = "result" /\ ResultKind(g.answer.result) \in {"task", "message"}

\* A scheme survives the way to the wire and back.
LEMMA PushComesBack ==
    ASSUME NEW p \in PushConfigs
    PROVE  PushFromWire(PushToWire(p)) = p
<1>1. /\ p = [url |-> p.url, auth |-> p.auth]
      /\ p.auth = <<>> \/ p.auth = <<[scheme |-> p.auth[1].scheme]>>
    BY Compat03Assumption
<1> DEFINE sent == [i \in DOMAIN p.auth |-> AuthToWire(p.auth[i])]
           back == [i \in DOMAIN sent |-> AuthFromWire(sent[i])]
<1>2. PushFromWire(PushToWire(p)) = [url |-> p.url, auth |-> back]
    BY DEF PushFromWire, PushToWire, Member, Mapped
<1>3. back = p.auth
    <2>1. CASE p.auth = <<>>
        BY <2>1
    <2>2. CASE p.auth = <<[scheme |-> p.auth[1].scheme]>>
        <3>1. DOMAIN p.auth = {1} /\ DOMAIN sent = {1} /\ DOMAIN back = {1}
            BY <2>2
        <3>2. back[1] = [scheme |-> p.auth[1].scheme]
            BY <3>1, <2>2 DEF AuthToWire, AuthFromWire
        <3> HIDE DEF back
        <3>3. p.auth = [i \in {1} |-> p.auth[i]] /\ p.auth[1] = [scheme |-> p.auth[1].scheme]
            BY <2>2, <3>1
        <3>4. back = [i \in {1} |-> back[i]]
            BY <3>1 DEF back
        <3> QED
            BY <3>1, <3>2, <3>3, <3>4
    <2> QED
        BY <2>1, <2>2, <1>1
<1> QED
    BY <1>1, <1>2, <1>3

LEMMA OutcomesAreJudged ==
    ASSUME NEW m \in CallMethods, NEW a \in Answers
    PROVE  Judged([method |-> m, answer |-> a, outcome |-> Outcome(m, a)])
<1>1. /\ a.came \in {"refused", "huge", "cut", "whole"}
      /\ a.came = "whole" => a.says \in {"result", "null", "error", "junk"}
    BY Compat03Assumption
<1> DEFINE Answered == a.came = "whole" /\ a.http = 200 /\ a.says \in {"result", "null"}
<1>2. /\ Answered => Post(a) = Success(a)
      /\ ~Answered => \E e : Post(a) = Failed(e)
    BY <1>1 DEF Post
<1>3. \A v : Success(v).ok = TRUE /\ Success(v).value = v
    BY DEF Success
<1>4. \A e : Failed(e).ok = FALSE
    BY DEF Failed
<1>5. CASE m = "message/send"
    <2>1. Outcome(m, a) = IF Post(a).ok THEN SendResult(Post(a).value)
                                 ELSE Post(a)
        BY <1>5 DEF Outcome, Then
    <2>2. SendResult(a).ok <=>
            a.says = "result" /\ ResultKind(a.result) \in {"task", "message"}
        BY <1>3, <1>4 DEF SendResult
    <2> QED
        BY <1>2, <1>3, <1>4, <1>5, <2>1, <2>2 DEF Judged
<1>6. CASE m \in {"tasks/get", "tasks/cancel"}
    <2>1. Outcome(m, a) = IF Post(a).ok THEN TaskDecoded(Post(a).value)
                                 ELSE Post(a)
        BY <1>6 DEF Outcome, Then
    <2>2. TaskDecoded(a).ok = TRUE
        BY <1>3 DEF TaskDecoded
    <2> QED
        BY <1>2, <1>3, <1>4, <1>6, <2>1, <2>2 DEF Judged
<1>7. CASE m \in {"tasks/list", "extendedCard"}
    <2>1. Outcome(m, a) = Failed("unsupported")
        BY <1>7 DEF Outcome
    <2> QED
        BY <1>4, <1>7, <2>1 DEF Judged
<1> QED
    BY <1>5, <1>6, <1>7 DEF CallMethods

LEMMA ClientAnswers ==
    ASSUME NoErrorSwallowed, [ClientNext]_clientVars
    PROVE  NoErrorSwallowed'
<1>1. ASSUME got' = got \/ got' = <<>> \/ \E g : Judged(g) /\ got' = <<g>>
      PROVE  NoErrorSwallowed'
    BY <1>1 DEF NoErrorSwallowed, Range, Judged
<1>2. ASSUME NEW m \in CallMethods, NEW a \in Answers, BlockingCall(m, a)
      PROVE  \E g : Judged(g) /\ got' = <<g>>
    BY <1>2, OutcomesAreJudged DEF BlockingCall
<1>3. ASSUME NEW p \in PushConfigs, CreatePush(p)
      PROVE  \E g : Judged(g) /\ got' = <<g>>
    <2> DEFINE g == [method |-> "push/set", answer |-> p,
                     outcome |-> Success(PushFromWire(PushToWire(p)))]
    <2>1. got' = <<g>>
        BY <1>3 DEF CreatePush
    <2>2. Judged(g)
        BY PushComesBack DEF Judged
    <2> QED
        BY <2>1, <2>2
<1>4. CASE UNCHANGED clientVars
    BY <1>1, <1>4 DEF clientVars
<1>5. CASE Reader
    <2>1. got' = got \/ got' = <<>>
        BY <1>5 DEF Reader, Open, OpenFails, CheckContext,
            ReadIgnored, ReadBlank, ReadData, ReadHuge, ReadEOF,
            ReadFails, ReadsOn, FrameRefused, FrameNull,
            FrameEvent, InFrame, Close
    <2> QED
        BY <1>1, <2>1
<1>6. CASE \/ Watchdog \/ ConsumerTakes \/ ConsumerStops \/ Cancel
           \/ AgentSays \/ \E how \in {"eof", "cut"} : AgentEnds(how)
    <2>1. got' = got
        BY <1>6 DEF Watchdog, Tick, Fire, WatchdogCloses,
            ConsumerTakes, ConsumerStops, Cancel, AgentSays, Say,
            AgentEnds
    <2> QED
        BY <1>1, <2>1
<1> QED
    BY <1>1, <1>2, <1>3, <1>4, <1>5, <1>6 DEF ClientNext

------------------------------------------------------------------------------
(* What the program is handed.                                                *)

\* What the lines read so far say, what is settled of it once the body has ended, and
\* what the client makes of it.
Sofar   == Heard[SubSeq(wire, 1, rd)]
Settled == IF last THEN Finished(Sofar) ELSE Sofar
InHand  == [events |-> Given, stray |-> {}, group |-> dataLines]

\* The client keeps up with the agent: what it holds is what it has read, and an event
\* in hand is what makes the difference.
Following ==
    /\ verdict = "" <=> pc \notin {"closing", "done"}
    /\ last => peer = "eof" /\ rd = Len(wire)
    /\ Begins(Given, Settled.events)
    /\ pc \in {"idle", "check", "read"} => ~last /\ InHand = Sofar
    /\ pc = "frame" => Finished(InHand) = Settled
    /\ pc = "yield" => InHand = Settled /\ dataLines = <<>>
    /\ verdict = "ended" => InHand = Finished(Sofar) /\ peer = "eof" /\ rd = Len(wire)
    /\ verdict = "final" => out # <<>> /\ Last(out).final /\ InHand = Finished(Sofar)

LEMMA GivenIs ==
    ASSUME StreamTyped
    PROVE  /\ Given \in Seq(Events) /\ Len(Given) = Len(out)
           /\ \A h \in Handed : out' = Append(out, h) => Given' = Append(Given, h.event)
<1>1. out \in Seq(Handed) /\ Len(out) \in Nat /\ DOMAIN out = 1..Len(out)
    BY LenProperties DEF StreamTyped
<1>2. \A h \in Handed : h.event \in Events
    BY DEF Handed, Events
<1>3. \A i \in 1..Len(out) : out[i] \in Handed
    BY <1>1, ElementOfSeq
<1>4. Given = [i \in 1..Len(out) |-> out[i].event]
    BY <1>1 DEF Given
<1>5. \A i \in 1..Len(out) : out[i].event \in Events
    BY <1>2, <1>3
<1>6. Given \in Seq(Events) /\ Len(Given) = Len(out)
    BY <1>1, <1>4, <1>5
<1>7. ASSUME NEW h \in Handed, out' = Append(out, h) PROVE Given' = Append(Given, h.event)
    <2>1. /\ out' \in Seq(Handed) /\ Len(out') = Len(out) + 1
          /\ (\A i \in 1..Len(out) : out'[i] = out[i]) /\ out'[Len(out) + 1] = h
        BY <1>1, <1>7, AppendProperties
    <2>2. Given' = [i \in 1..Len(out) + 1 |-> out'[i].event]
        <3>1. DOMAIN out' = 1..Len(out')
            BY <2>1, LenProperties
        <3> QED
            BY <2>1, <3>1 DEF Given
    <2>3. \A i \in 1..Len(out) + 1 : out'[i].event \in Events
        BY <1>1, <1>2, <1>5, <2>1
    <2>4. Given' \in Seq(Events) /\ Len(Given') = Len(out) + 1
        BY <1>1, <2>2, <2>3
    <2>5. /\ Append(Given, h.event) \in Seq(Events) /\ Len(Append(Given, h.event)) = Len(out) + 1
          /\ \A i \in 1..Len(out) : Append(Given, h.event)[i] = Given[i]
          /\ Append(Given, h.event)[Len(out) + 1] = h.event
        BY <1>2, <1>6, AppendProperties
    <2>6. \A i \in 1..Len(out) + 1 : Given'[i] = Append(Given, h.event)[i]
        BY <1>1, <1>4, <2>1, <2>2, <2>5
    <2> QED
        BY <2>4, <2>5, <2>6, SeqEqual
<1> QED
    BY <1>6, <1>7

LEMMA SofarIs ==
    ASSUME StreamTyped
    PROVE  /\ Sofar \in Hearings /\ InHand \in Hearings /\ Settled \in Hearings
           /\ rd < Len(wire) /\ wire' = wire /\ rd' = rd + 1 =>
                NextLine \in Lines /\ Sofar' = Reads(Sofar, NextLine)
<1>1. wire \in Seq(Lines) /\ Len(wire) \in Nat /\ rd \in 0..Len(wire)
    BY LenProperties DEF StreamTyped
<1>2. \A i \in 1..Len(wire) : wire[i] \in Lines
    BY <1>1, ElementOfSeq
<1>3. SubSeq(wire, 1, rd) \in Seq(Lines)
    BY <1>1, <1>2
<1>4. Sofar \in Hearings
    BY <1>3, HeardIs DEF Sofar
<1>5. InHand \in Hearings
    BY GivenIs DEF InHand, Hearings, Groups, StreamTyped
<1>6. ASSUME rd < Len(wire), wire' = wire, rd' = rd + 1
      PROVE  NextLine \in Lines /\ Sofar' = Reads(Sofar, NextLine)
    <2>1. NextLine \in Lines
        BY <1>1, <1>2, <1>6 DEF NextLine
    <2>2. SubSeq(wire, 1, rd + 1) = Append(SubSeq(wire, 1, rd), NextLine)
        <3>1. 1 \in 1..Len(wire) /\ rd + 1 \in 1..Len(wire) /\ (rd + 1) - 1 = rd
            BY <1>1, <1>6
        <3>2. SubSeq(wire, 1, rd + 1) = SubSeq(wire, 1, (rd + 1) - 1) \o <<wire[rd + 1]>>
            BY <1>1, <3>1, SubSeqRecursiveSecond
        <3> QED
            BY <1>3, <2>1, <3>1, <3>2, AppendIsConcat DEF NextLine
    <2> QED
        BY <1>3, <1>6, <2>1, <2>2, HeardIs DEF Sofar
<1> QED
    BY <1>4, <1>5, <1>6, FinishedIs DEF Settled

\* The steps that neither read, nor hand over, nor end: where the reader is may change
\* only from one place between lines to another, and the body is not opened.
LEMMA StandsStill ==
    ASSUME StreamTyped, Following, UNCHANGED <<wire, rd, dataLines, last, out, verdict>>,
           peer' = peer \/ (peer = "open"),
           \/ pc' = pc
           \/ pc \in {"idle", "check", "read"} /\ pc' \in {"check", "read"}
           \/ pc = "closing" /\ pc' = "done"
    PROVE  Following'
<1>1. Sofar' = Sofar /\ InHand' = InHand /\ Settled' = Settled /\ Given' = Given
    BY DEF Sofar, InHand, Settled, Given
<1>2. (last => peer = "eof") /\ (verdict = "ended" => peer = "eof")
    BY DEF Following
<1>3. peer = "eof" => peer' = "eof"
    OBVIOUS
<1> QED
    BY <1>1, <1>2, <1>3 DEF Following

\* A stream that ends otherwise than by the agent's word: what was handed over stays.
LEMMA BreaksOff ==
    ASSUME StreamTyped, Following, UNCHANGED <<wire, peer, last, out>>,
           pc \notin {"closing", "done"}, pc' = "closing",
           verdict' \in {"error", "canceled", "idle", "stopped"},
           \/ rd' = rd
           \/ rd' = rd + 1 /\ rd < Len(wire) /\ ~last
    PROVE  Following'
<1>1. Given' = Given
    BY DEF Given
<1>2. Begins(Given', Settled'.events)
    <2>1. CASE rd' = rd
        BY <1>1, <2>1 DEF Following, Settled, Sofar
    <2>2. CASE rd' = rd + 1 /\ rd < Len(wire) /\ ~last
        <3>1. NextLine \in Lines /\ Sofar' = Reads(Sofar, NextLine) /\ Sofar \in Hearings
            BY <2>2, SofarIs
        <3>2. Begins(Sofar.events, Sofar'.events) /\ Sofar' \in Hearings
            BY <3>1, ReadsIs
        <3>3. Settled = Sofar /\ Settled' = Sofar'
            BY <2>2 DEF Settled
        <3>4. Begins(Given, Sofar.events)
            BY <3>3 DEF Following
        <3>5. Given \in Seq(Events) /\ Sofar.events \in Seq(Events) /\ Sofar'.events \in Seq(Events)
            BY <3>1, <3>2, GivenIs DEF Hearings
        <3> QED
            BY <1>1, <3>2, <3>3, <3>4, <3>5, BeginsOn
    <2> QED
        BY <2>1, <2>2
<1>3. last' => peer' = "eof" /\ rd' = Len(wire')
    BY DEF Following
<1> QED
    BY <1>2, <1>3 DEF Following

\* A line that is not one of an event, and the blank line after one.
LEMMA FollowsLines ==
    ASSUME StreamTyped, Following, ReadIgnored \/ ReadBlank \/ ReadData \/ ReadHuge
    PROVE  Following'
<1>1. /\ pc = "read" /\ rd < Len(wire) /\ rd' = rd + 1 /\ verdict = ""
      /\ UNCHANGED <<wire, peer, last, out>> /\ ~last /\ InHand = Sofar
    BY DEF ReadIgnored, ReadBlank, ReadData, ReadHuge, HasLine, ReadsOn, Following
<1>2. /\ NextLine \in Lines /\ Sofar' = Reads(Sofar, NextLine)
      /\ Sofar \in Hearings /\ Sofar' \in Hearings
    BY <1>1, SofarIs, ReadsIs
<1>3. Given' = Given /\ Settled' = Sofar' /\ Settled = Sofar
    BY <1>1 DEF Given, Settled
<1>4. Begins(Given, Sofar'.events)
    <2>1. Sofar.events = Given
        BY <1>1 DEF InHand
    <2> QED
        BY <1>2, <2>1, ReadsIs
<1>5. dataLines = Sofar.group /\ Given = Sofar.events /\ Sofar.stray = {}
    BY <1>1 DEF InHand
<1>6. CASE ReadIgnored
    <2>1. NextLine = Ignored /\ pc' = "check" /\ verdict' = "" /\ dataLines' = dataLines
        BY <1>1, <1>6 DEF ReadIgnored, Goes
    <2>2. Sofar' = Sofar
        BY <1>2, <2>1, OtherLines DEF Reads
    <2>3. InHand' = Sofar'
        BY <1>1, <1>3, <2>1, <2>2 DEF InHand
    <2> QED
        BY <1>1, <1>3, <1>4, <2>1, <2>3 DEF Following
<1>7. CASE ReadBlank
    <2>1. /\ NextLine = Blank /\ verdict' = "" /\ dataLines' = dataLines
          /\ pc' = IF dataLines = <<>> THEN "check" ELSE "frame"
        BY <1>1, <1>7 DEF ReadBlank, Goes
    <2>2. Sofar' = Finished(Sofar)
        BY <1>2, <2>1, OtherLines DEF Reads
    <2>3. InHand' = Sofar
        BY <1>1, <1>3, <2>1 DEF InHand
    <2>4. dataLines = <<>> => Sofar' = Sofar
        BY <1>2, <1>5, <2>2, FinishedIs
    <2> QED
        BY <1>1, <1>3, <1>4, <2>1, <2>2, <2>3, <2>4 DEF Following
<1>8. CASE ReadData
    <2>1. CASE pc' = "closing"
        <3>1. verdict' = "error"
            BY <1>8, <2>1 DEF ReadData, Ended, Goes
        <3> QED
            BY <1>1, <2>1, <3>1, BreaksOff
    <2>2. CASE pc' # "closing"
        <3>1. /\ NextLine.line = "data" /\ pc' = "check" /\ verdict' = ""
              /\ dataLines' = Append(dataLines, NextLine)
            BY <1>1, <1>8, <2>2 DEF ReadData, Ended, Goes
        <3>2. Sofar' = [Sofar EXCEPT !.group = Append(Sofar.group, NextLine)]
            BY <1>2, <3>1 DEF Reads
        <3>3. InHand' = Sofar'
            BY <1>1, <1>2, <1>3, <1>5, <3>1, <3>2 DEF InHand, Hearings
        <3> QED
            BY <1>1, <1>3, <1>4, <3>1, <3>3 DEF Following
    <2> QED
        BY <2>1, <2>2
<1>9. CASE ReadHuge
    <2>1. pc' = "closing" /\ verdict' \in {"idle", "error"}
        BY <1>9 DEF ReadHuge, Ended
    <2> QED
        BY <1>1, <2>1, BreaksOff
<1> QED
    BY <1>6, <1>7, <1>8, <1>9

\* The end of the body settles what has been read.
LEMMA FollowsEnd ==
    ASSUME StreamTyped, Following, ReadEOF
    PROVE  Following'
<1>1. /\ pc = "read" /\ rd = Len(wire) /\ peer = "eof" /\ verdict = "" /\ ~last /\ InHand = Sofar
      /\ UNCHANGED <<wire, rd, peer, dataLines, out>>
      /\ \/ dataLines = <<>> /\ pc' = "closing" /\ verdict' = "ended" /\ last' = last
         \/ dataLines # <<>> /\ pc' = "frame" /\ verdict' = verdict /\ last' = TRUE
    <2>1. rd \in 0..Len(wire) /\ Len(wire) \in Nat /\ ~(rd < Len(wire))
        BY LenProperties DEF StreamTyped, ReadEOF, HasLine
    <2>2. rd = Len(wire)
        BY <2>1
    <2> QED
        BY <2>2 DEF ReadEOF, ReadsOn, Ended, Goes, Following
<1>2. Given' = Given /\ Sofar' = Sofar /\ InHand' = InHand
    BY <1>1 DEF Given, Sofar, InHand
<1>3. Sofar \in Hearings /\ Sofar.group = dataLines /\ Sofar.events = Given
    BY <1>1, SofarIs DEF InHand
<1>4. dataLines = <<>> => Finished(Sofar) = Sofar
    BY <1>3, FinishedIs
<1>5. Begins(Given, Sofar.events) /\ Begins(Given, Finished(Sofar).events)
    <2>1. Begins(Given, Sofar.events)
        BY <1>1 DEF Following, Settled
    <2> QED
        BY <2>1, <1>3, FinishedIs
<1>6. CASE dataLines = <<>>
    <2>0. ~last' /\ pc' = "closing" /\ verdict' = "ended"
        <3>1. dataLines = <<>> /\ pc' = "closing" /\ verdict' = "ended" /\ last' = last
            BY <1>1, <1>6
        <3> QED
            BY <1>1, <3>1
    <2>1. Settled' = Sofar
        BY <1>2, <2>0 DEF Settled
    <2> QED
        BY <1>1, <1>2, <1>4, <1>5, <1>6, <2>1 DEF Following
<1>7. CASE dataLines # <<>>
    <2>1. Settled' = Finished(Sofar) /\ Finished(InHand') = Finished(Sofar)
        BY <1>1, <1>2, <1>7 DEF Settled
    <2> QED
        BY <1>1, <1>2, <1>5, <1>7, <2>1 DEF Following
<1> QED
    BY <1>6, <1>7

\* AfterFrame: what is in hand is settled, and the stream goes on or has ended.
LEMMA GoesOn ==
    ASSUME StreamTyped, StreamTyped', Following, pc \in {"frame", "yield"}, AfterFrame,
           UNCHANGED <<wire, rd, peer, last>>, InHand' = Settled, dataLines' = <<>>
    PROVE  Following'
<1>1. verdict = "" /\ (last => peer = "eof" /\ rd = Len(wire))
    BY DEF Following
<1>2. Sofar' = Sofar /\ Settled' = Settled /\ Settled \in Hearings
    BY SofarIs DEF Sofar, Settled
<1>3. Given' = Settled.events /\ Given' \in Seq(Events)
    BY <1>2 DEF InHand, Hearings
<1>4. Begins(Given', Settled'.events)
    BY <1>2, <1>3, LenProperties DEF Begins
<1>5. CASE last
    <2>1. pc' = "closing" /\ verdict' = "ended" /\ Settled = Finished(Sofar)
        BY <1>5 DEF AfterFrame, Ended, Settled
    <2> QED
        BY <1>1, <1>2, <1>4, <1>5, <2>1 DEF Following
<1>6. CASE ~last
    <2>1. pc' = "check" /\ verdict' = "" /\ Settled = Sofar
        BY <1>1, <1>6 DEF AfterFrame, Goes, Settled
    <2> QED
        BY <1>1, <1>2, <1>4, <1>6, <2>1 DEF Following
<1> QED
    BY <1>5, <1>6

LEMMA FollowsFrame ==
    ASSUME StreamTyped, StreamTyped', Following, FrameNull \/ FrameEvent
    PROVE  Following'
<1>1. /\ pc = "frame" /\ dataLines' = <<>> /\ UNCHANGED <<wire, rd, peer, last>>
      /\ Finished(InHand) = Settled /\ dataLines # <<>>
    BY DEF FrameNull, FrameEvent, InFrame, Following, StreamTyped
<1>2. InHand.group = dataLines /\ InHand.events = Given /\ InHand.stray = {}
    BY DEF InHand
<1>3. CASE FrameNull
    <2>1. IsNull(dataLines) /\ ~IsEvent(dataLines)
        BY <1>3 DEF FrameNull, Speaks, IsNull, IsEvent
    <2>2. Finished(InHand) = [events |-> Given, stray |-> {}, group |-> <<>>]
        BY <1>1, <1>2, <2>1 DEF Finished
    <2>3. Given' = Given
        BY <1>3 DEF FrameNull, Given
    <2>4. InHand' = Settled
        BY <1>1, <2>2, <2>3 DEF InHand
    <2>5. AfterFrame
        BY <1>3 DEF FrameNull
    <2> QED
        BY <1>1, <2>4, <2>5, GoesOn
<1>4. CASE FrameEvent
    <2> DEFINE v == EventFromResult(dataLines[1].frame.result)
               e == [event |-> v, final |-> FinalOf(dataLines[1].frame.result)]
    <2>1. out' = Append(out, e) /\ pc' = "yield" /\ verdict' = verdict /\ IsEvent(dataLines)
        BY <1>4 DEF FrameEvent, Speaks, IsEvent, Goes
    <2>2. e \in Handed
        <3>1. dataLines \in Seq(DataLines) /\ dataLines # <<>>
            BY <1>1 DEF StreamTyped
        <3>2. dataLines[1] \in DataLines
            BY <3>1
        <3> QED
            BY <3>2 DEF DataLines, Handed
    <2>3. Given' = Append(Given, v)
        BY <2>1, <2>2, GivenIs
    <2>4. Finished(InHand) = [events |-> Append(Given, v), stray |-> {}, group |-> <<>>]
        BY <1>1, <1>2, <2>1 DEF Finished
    <2>5. InHand' = Settled
        BY <1>1, <2>3, <2>4 DEF InHand
    <2>6. Sofar' = Sofar /\ Settled' = Settled /\ Settled \in Hearings
        BY <1>1, SofarIs DEF Sofar, Settled
    <2>7. Given' = Settled.events /\ Given' \in Seq(Events)
        BY <2>5, <2>6 DEF InHand, Hearings
    <2>8. Begins(Given', Settled'.events)
        BY <2>6, <2>7, LenProperties DEF Begins
    <2>9. verdict = "" /\ (last => peer = "eof" /\ rd = Len(wire))
        BY <1>1 DEF Following
    <2> QED
        BY <1>1, <2>1, <2>5, <2>6, <2>8, <2>9 DEF Following
<1> QED
    BY <1>3, <1>4

LEMMA FollowsConsumer ==
    ASSUME StreamTyped, StreamTyped', Following, ConsumerTakes
    PROVE  Following'
<1>1. /\ pc = "yield" /\ UNCHANGED <<wire, rd, peer, last, dataLines, out>>
      /\ InHand = Settled /\ dataLines = <<>> /\ out # <<>>
    BY DEF ConsumerTakes, readerVars, Following, StreamTyped
<1>2. InHand' = InHand /\ Given' = Given /\ Sofar' = Sofar /\ Settled' = Settled
    BY <1>1 DEF InHand, Given, Sofar, Settled
<1>3. CASE Last(out).final
    <2>1. pc' = "closing" /\ verdict' = "final"
        BY <1>3 DEF ConsumerTakes, Ended
    <2>2. Sofar \in Hearings /\ Settled.group = <<>>
        BY <1>1, SofarIs DEF InHand
    <2>3. Finished(Sofar) = Settled
        BY <2>2, FinishedIs DEF Settled
    <2>4. Begins(Given, Settled.events) /\ (last => peer = "eof" /\ rd = Len(wire))
        BY DEF Following
    <2>5. out' # <<>> /\ Last(out').final
        BY <1>1, <1>3
    <2> QED
        BY <1>1, <1>2, <2>1, <2>3, <2>4, <2>5 DEF Following
<1>4. CASE ~Last(out).final
    <2>1. AfterFrame
        BY <1>4 DEF ConsumerTakes
    <2> QED
        BY <1>1, <1>2, <2>1, GoesOn
<1> QED
    BY <1>3, <1>4

LEMMA FollowsAgent ==
    ASSUME StreamTyped, Following, NEW l \in Lines, Say(l)
    PROVE  Following'
<1>1. /\ peer = "open" /\ wire' = Append(wire, l)
      /\ UNCHANGED <<pc, peer, rd, dataLines, last, out, verdict>>
    BY DEF Say, readerVars
<1>2. /\ wire \in Seq(Lines) /\ Len(wire) \in Nat /\ rd \in 0..Len(wire)
      /\ wire' \in Seq(Lines) /\ Len(wire') = Len(wire) + 1
      /\ \A i \in 1..Len(wire) : wire'[i] = wire[i] /\ wire[i] \in Lines
    BY <1>1, AppendProperties, LenProperties, ElementOfSeq DEF StreamTyped
<1>3. SubSeq(wire', 1, rd') = SubSeq(wire, 1, rd)
    BY <1>1, <1>2
<1>4. Sofar' = Sofar /\ Given' = Given /\ InHand' = InHand
    BY <1>1, <1>3 DEF Sofar, Given, InHand
<1>5. ~last /\ verdict # "ended"
    BY <1>1 DEF Following
<1>6. Settled' = Settled
    BY <1>1, <1>4, <1>5 DEF Settled
<1> QED
    BY <1>1, <1>4, <1>5, <1>6 DEF Following

LEMMA ClientFollows ==
    ASSUME StreamTyped, StreamTyped', Following, [ClientNext]_clientVars
    PROVE  Following'
<1>1. CASE \/ UNCHANGED clientVars \/ Open \/ (CheckContext /\ ~canceled) \/ Close \/ Watchdog \/ Cancel
           \/ \E how \in {"eof", "cut"} : AgentEnds(how)
           \/ \E m \in CallMethods, a \in Answers : BlockingCall(m, a)
           \/ \E p \in PushConfigs : CreatePush(p)
    <2>1. /\ UNCHANGED <<wire, rd, dataLines, last, out, verdict>> /\ (peer' = peer \/ peer = "open")
          /\ \/ pc' = pc
             \/ pc \in {"idle", "check", "read"} /\ pc' \in {"check", "read"}
             \/ pc = "closing" /\ pc' = "done"
        BY <1>1 DEF clientVars, readerVars, watchVars, Open, CheckContext, Close, Watchdog, Tick,
            Fire, WatchdogCloses, Cancel, AgentEnds, BlockingCall, CreatePush, Ended, Goes
    <2> QED
        BY <2>1, StandsStill
<1>2. CASE OpenFails \/ (CheckContext /\ canceled) \/ ReadFails \/ FrameRefused \/ ConsumerStops
    <2>1. /\ UNCHANGED <<wire, peer, last, out, rd>> /\ pc \notin {"closing", "done"}
          /\ pc' = "closing" /\ verdict' \in {"error", "canceled", "idle", "stopped"}
        BY <1>2 DEF readerVars, watchVars, OpenFails, CheckContext, ReadFails, ReadsOn, FrameRefused,
            InFrame, ConsumerStops, Ended
    <2> QED
        BY <2>1, BreaksOff
<1>3. CASE AgentSays
    BY <1>3, LinesSaid, FollowsAgent
<1>4. CASE ReadIgnored \/ ReadBlank \/ ReadData \/ ReadHuge
    BY <1>4, FollowsLines
<1>5. CASE ReadEOF
    BY <1>5, FollowsEnd
<1>6. CASE FrameNull \/ FrameEvent
    BY <1>6, FollowsFrame
<1>7. CASE ConsumerTakes
    BY <1>7, FollowsConsumer
<1> QED
    <2>1. CASE Reader
        BY <2>1, <1>1, <1>2, <1>4, <1>5, <1>6, Zenon DEF Reader
    <2>2. CASE ~Reader
        BY <2>2, <1>1, <1>2, <1>3, <1>7, Zenon DEF ClientNext
    <2> QED
        BY <2>1, <2>2

\* What was handed over is what the agent meant.
LEMMA FollowingIsTrue ==
    ASSUME StreamTyped, Following
    PROVE  NothingMadeUp
<1>0. /\ wire \in Seq(Lines) /\ Len(wire) \in Nat /\ rd \in 0..Len(wire)
      /\ Sofar \in Hearings /\ Heard[wire] \in Hearings
    BY SofarIs, HeardIs, LenProperties DEF StreamTyped
<1> DEFINE all == Heard[wire]
<1>1. rd = Len(wire) => Sofar = all
    BY <1>0, SubSeqFull DEF Sofar
<1>2. Finished(all) \in Hearings /\ Begins(all.events, Finished(all).events)
    BY <1>0, FinishedIs
<1>3. Begins(Sofar.events, all.events)
    BY <1>0, HeardGrows DEF Sofar
<1>4. /\ Given \in Seq(Events) /\ Sofar.events \in Seq(Events) /\ all.events \in Seq(Events)
      /\ Finished(all).events \in Seq(Events)
    BY <1>0, <1>2, GivenIs DEF Hearings
<1> HIDE DEF all
<1>5. Begins(Given, Finished(all).events)
    <2>1. CASE last
        <3>1. rd = Len(wire) /\ Begins(Given, Finished(Sofar).events)
            BY <2>1 DEF Following, Settled
        <3> QED
            BY <1>1, <3>1
    <2>2. CASE ~last
        <3>1. Begins(Given, Sofar.events)
            BY <2>2 DEF Following, Settled
        <3>2. Begins(Given, all.events)
            BY <1>3, <1>4, <3>1, BeginsOn
        <3> QED
            BY <1>2, <1>4, <3>2, BeginsOn
    <2> QED
        BY <2>1, <2>2
<1>6. IsPrefix(Given, Finished(all).events)
    <2> DEFINE b == Finished(all).events
    <2>1. /\ Len(Given) \in Nat /\ Len(b) \in Nat /\ Len(Given) <= Len(b)
          /\ \A i \in 1..Len(Given) : Given[i] = b[i]
        BY <1>4, <1>5, LenProperties DEF Begins
    <2> HIDE DEF b
    <2>2. b \in Seq(Events)
        BY <1>4 DEF b
    <2>3. SubSeq(Given, 1, Len(Given)) = SubSeq(b, 1, Len(Given))
        BY <1>4, <2>1, <2>2
    <2> QED
        BY <2>1, <2>3 DEF IsPrefix, b
<1>7. Meant(wire) = Finished(all) /\ Meant(SubSeq(wire, 1, rd)) = Finished(Sofar)
    BY DEF Meant, all, Sofar
<1>8. verdict = "ended" => Given = Meant(wire).events
    <2>1. verdict = "ended" => InHand = Finished(Sofar) /\ rd = Len(wire)
        BY DEF Following
    <2>2. InHand.events = Given
        BY DEF InHand
    <2> QED
        BY <1>1, <1>7, <2>1, <2>2
<1>9. verdict \in {"ended", "final"} => Meant(SubSeq(wire, 1, rd)).stray = {}
    <2>1. verdict \in {"ended", "final"} => InHand = Finished(Sofar)
        BY DEF Following
    <2>2. InHand.stray = {}
        BY DEF InHand
    <2> QED
        BY <1>7, <2>1, <2>2
<1>10. verdict = "final" => out # <<>> /\ Last(out).final
    BY DEF Following
<1> QED
    BY <1>6, <1>7, <1>8, <1>9, <1>10 DEF NothingMadeUp

------------------------------------------------------------------------------
(* What was decoded can be said again.                                        *)

\* What PartFromWire and its callers return, whatever is on the wire.
Decoded(p) ==
    \/ p = [content |-> "text", compat |-> p.compat]
    \/ p = [content |-> "raw", compat |-> p.compat]
    \/ p = [content |-> "url", compat |-> p.compat]
    \/ /\ p = Data(p.value, p.compat)
       /\ p.compat \in BOOLEAN /\ p.value.json \in {"null", "scalar", "object"}
IsParts(ps) == IsList(ps, Decoded) /\ Len(ps) <= MaxParts
IsMessage(m) ==
    /\ m = [kind |-> "message", role |-> m.role, parts |-> m.parts]
    /\ m.role \in {"user", "agent", "unspecified"} /\ IsParts(m.parts)
IsArtifact(a) == a = [parts |-> a.parts] /\ IsParts(a.parts)
HasStatus(s) ==
    /\ s = [state |-> s.state, message |-> s.message]
    /\ s.state \in States \union {"unspecified"}
    /\ IsList(s.message, IsMessage)
IsTask(e) ==
    /\ e = [kind |-> "task", id |-> e.id, status |-> e.status, artifacts |-> e.artifacts]
    /\ HasStatus(e.status)
    /\ IsList(e.artifacts, IsArtifact) /\ Len(e.artifacts) <= MaxArtifacts
IsStatusUpdate(e) ==
    e = [kind |-> "status-update", taskId |-> e.taskId, status |-> e.status] /\ HasStatus(e.status)
IsArtifactUpdate(e) ==
    /\ e = [kind |-> "artifact-update", taskId |-> e.taskId, artifact |-> e.artifact,
            append |-> e.append]
    /\ IsArtifact(e.artifact)
IsEventOf(e) == IsTask(e) \/ IsStatusUpdate(e) \/ IsArtifactUpdate(e) \/ IsMessage(e)

\* A part has one of four shapes, and unless it is Unspeakable it comes back; only a value
\* that gets its wrapper on the way comes back with a flag.
LEMMA PartIsDecoded ==
    ASSUME NEW w, IsPart(w)
    PROVE  Decoded(PartFromWire(w))
<1>1. Decoded(RawFallback(w))
    BY DEF Decoded, RawFallback, Data, Object
<1>2. CASE w.kind = "text"
    BY <1>2 DEF PartFromWire, Decoded
<1>3. CASE w.kind = "file"
    <2>1. PartFromWire(w) = FilePartFromWire(w)
        BY <1>3 DEF PartFromWire
    <2>2. \/ FilePartFromWire(w) = [content |-> "raw", compat |-> Member(w, "compat", FALSE)]
          \/ FilePartFromWire(w) = [content |-> "url", compat |-> Member(w, "compat", FALSE)]
          \/ FilePartFromWire(w) = RawFallback(w)
        BY DEF FilePartFromWire
    <2>3. ASSUME NEW c PROVE /\ Decoded([content |-> "raw", compat |-> c])
                             /\ Decoded([content |-> "url", compat |-> c])
        BY DEF Decoded
    <2> QED
        BY <1>1, <2>1, <2>2, <2>3
<1>4. CASE w.kind = "data"
    <2> DEFINE v == Member(w, "data", Null)
               compat == Member(w, "compat", FALSE)
               wrapped == compat /\ v.json = "object" /\ DOMAIN v.members = {"value"}
               value == IF wrapped THEN v.members.value ELSE v
    <2>1. PartFromWire(w) = Data(value, compat)
        BY <1>4 DEF PartFromWire, DataPartFromWire
    <2>2. compat \in BOOLEAN /\ IsJson(v)
        BY DEF IsPart
    <2>3. value.json \in {"null", "scalar", "object"}
        BY <2>2 DEF IsJson
    <2> HIDE DEF value, compat
    <2> QED
        BY <2>1, <2>2, <2>3 DEF Decoded, Data
<1>5. CASE w.kind \notin {"text", "file", "data"}
    BY <1>1, <1>5 DEF PartFromWire
<1> QED
    BY <1>2, <1>3, <1>4, <1>5

LEMMA PartSaidAgain ==
    ASSUME NEW p, Decoded(p), ~Unspeakable(p)
    PROVE  /\ SameContent(p, PartFromWire(PartToWire(p)))
           /\ ~NewlyWrapped(p) => PartFromWire(PartToWire(p)) = p
<1>1. CASE p = [content |-> "text", compat |-> p.compat]
    <2>1. PartToWire(p) = [kind |-> "text", compat |-> p.compat]
        BY <1>1 DEF PartToWire
    <2>2. PartFromWire(PartToWire(p)) = [content |-> "text", compat |-> p.compat]
        BY <2>1 DEF PartFromWire, Member
    <2> QED
        BY <1>1, <2>2 DEF SameContent
<1>2. CASE p = [content |-> "raw", compat |-> p.compat]
    <2>1. PartToWire(p) = [kind |-> "file", file |-> {"bytes"}, compat |-> p.compat]
        BY <1>2 DEF PartToWire
    <2>2. PartFromWire(PartToWire(p)) = FilePartFromWire(PartToWire(p))
        BY <2>1 DEF PartFromWire
    <2>3. FilePartFromWire(PartToWire(p)) = [content |-> "raw", compat |-> p.compat]
        BY <2>1 DEF FilePartFromWire, Member
    <2> QED
        BY <1>2, <2>2, <2>3 DEF SameContent
<1>3. CASE p = [content |-> "url", compat |-> p.compat]
    <2>1. PartToWire(p) = [kind |-> "file", file |-> {"uri"}, compat |-> p.compat]
        BY <1>3 DEF PartToWire
    <2>2. PartFromWire(PartToWire(p)) = FilePartFromWire(PartToWire(p))
        BY <2>1 DEF PartFromWire
    <2>3. FilePartFromWire(PartToWire(p)) = [content |-> "url", compat |-> p.compat]
        BY <2>1 DEF FilePartFromWire, Member
    <2> QED
        BY <1>3, <2>2, <2>3 DEF SameContent
<1>4. CASE /\ p = Data(p.value, p.compat) /\ p.compat \in BOOLEAN
           /\ p.value.json \in {"null", "scalar", "object"}
    <2> DEFINE w == PartToWire(p)
    <2>1. p.content = "data" /\ w = WrapDataValue(p)
        BY <1>4 DEF PartToWire, Data
    <2>2. ASSUME NEW d, NEW c \in BOOLEAN, w = [kind |-> "data", data |-> d, compat |-> c]
          PROVE  PartFromWire(w) =
                   Data(IF c /\ d.json = "object" /\ DOMAIN d.members = {"value"}
                          THEN d.members.value ELSE d, c)
        <3> HIDE DEF w
        <3>1. Member(w, "data", Null) = d /\ Member(w, "compat", FALSE) = c /\ w.kind = "data"
            BY <2>2 DEF Member
        <3> QED
            BY <3>1 DEF PartFromWire, DataPartFromWire
    <2>3. CASE p.value.json = "object"
        <3>1. w = [kind |-> "data", data |-> p.value, compat |-> p.compat]
            BY <2>1, <2>3 DEF WrapDataValue
        <3>2. ~(p.compat /\ DOMAIN p.value.members = {"value"})
            BY <2>1, <2>3 DEF Unspeakable
        <3>3. PartFromWire(w) = Data(p.value, p.compat)
            BY <1>4, <2>2, <3>1, <3>2
        <3> HIDE DEF w
        <3> QED
            BY <1>4, <2>1, <3>3 DEF SameContent, w
    <2>4. CASE p.value.json = "null"
        BY <2>1, <2>4 DEF Unspeakable
    <2>5. CASE p.value.json = "scalar"
        <3> DEFINE d == Object([value |-> p.value])
        <3>1. w = [kind |-> "data", data |-> d, compat |-> TRUE]
            BY <2>1, <2>5 DEF WrapDataValue
        <3>2. d.json = "object" /\ DOMAIN d.members = {"value"} /\ d.members.value = p.value
            BY DEF Object
        <3> HIDE DEF d
        <3>3. PartFromWire(w) = Data(p.value, TRUE)
            BY <2>2, <3>1, <3>2
        <3>4. SameContent(p, PartFromWire(w))
            BY <2>1, <3>3 DEF SameContent, Data
        <3>5. ~NewlyWrapped(p) => p.compat = TRUE
            BY <1>4, <2>1, <2>5 DEF NewlyWrapped
        <3> HIDE DEF w
        <3> QED
            BY <1>4, <3>3, <3>4, <3>5 DEF w
    <2> QED
        BY <1>4, <2>3, <2>4, <2>5
<1> QED
    BY <1>1, <1>2, <1>3, <1>4 DEF Decoded

\* A function on an interval is a list, and a list is one; a list that is capped is a
\* beginning of it.
LEMMA ListIs ==
    ASSUME NEW n \in Nat, NEW s, s = [i \in 1..n |-> s[i]]
    PROVE  s \in Seq(Range(s)) /\ Len(s) = n /\ DOMAIN s = 1..n
<1>1. DOMAIN s = 1..n
    BY Zenon
<1>2. Range(s) = {s[i] : i \in 1..n}
    BY <1>1 DEF Range
<1>3. s \in [1..n -> Range(s)]
    BY <1>2
<1>4. s \in Seq(Range(s))
    BY <1>3
<1> QED
    BY <1>1, <1>4, LenProperties

LEMMA ListHas ==
    ASSUME NEW s, s \in Seq(Range(s))
    PROVE  Len(s) \in Nat /\ DOMAIN s = 1..Len(s) /\ s = [i \in 1..Len(s) |-> s[i]]
<1>1. Len(s) \in Nat /\ DOMAIN s = 1..Len(s)
    BY LenProperties
<1>2. s \in [1..Len(s) -> Range(s)]
    BY LenProperties
<1> QED
    BY <1>1, <1>2

LEMMA CappedIs ==
    ASSUME NEW s, s \in Seq(Range(s)), NEW n \in Nat
    PROVE  /\ Len(Capped(s, n)) \in Nat /\ Len(Capped(s, n)) <= n
           /\ DOMAIN Capped(s, n) = 1..Len(Capped(s, n))
           /\ \A i \in DOMAIN Capped(s, n) : i \in DOMAIN s /\ Capped(s, n)[i] = s[i]
           /\ Len(s) <= n => Capped(s, n) = s
<1>1. Len(s) \in Nat /\ DOMAIN s = 1..Len(s)
    BY ListHas
<1>2. CASE Len(s) <= n
    BY <1>1, <1>2 DEF Capped
<1>3. CASE ~(Len(s) <= n)
    <2>1. Capped(s, n) = SubSeq(s, 1, n)
        BY <1>3 DEF Capped
    <2>2. SubSeq(s, 1, n) = [i \in 1..n |-> s[i]]
        BY <1>1
    <2> DEFINE c == [i \in 1..n |-> s[i]]
    <2>3. c = [i \in 1..n |-> c[i]] /\ \A i \in 1..n : c[i] = s[i]
        OBVIOUS
    <2> HIDE DEF c
    <2>4. Len(c) = n /\ DOMAIN c = 1..n
        BY <2>3, ListIs
    <2>5. Capped(s, n) = c
        BY <2>1, <2>2 DEF c
    <2>6. \A i \in 1..n : i \in 1..Len(s)
        BY <1>1, <1>3
    <2> QED
        BY <1>1, <1>3, <2>3, <2>4, <2>5, <2>6
<1> QED
    BY <1>2, <1>3

\* Lists of parts are no longer than the cap that they meet on the way back.
LEMMA PartsAreDecoded ==
    ASSUME NEW w, HasParts(w)
    PROVE  IsParts(PartsFromWire(Member(w, "parts", <<>>)))
<1> DEFINE ws == Member(w, "parts", <<>>)
           cs == Capped(ws, MaxParts)
           ps == [i \in DOMAIN cs |-> PartFromWire(cs[i])]
<1>1. ws \in Seq(Range(ws)) /\ \A i \in DOMAIN ws : IsPart(ws[i])
    BY DEF HasParts, IsList
<1>2. /\ Len(cs) \in Nat /\ Len(cs) <= MaxParts /\ DOMAIN cs = 1..Len(cs)
      /\ \A i \in DOMAIN cs : i \in DOMAIN ws /\ cs[i] = ws[i]
    <2> HIDE DEF ws
    <2> QED
        BY <1>1, CappedIs, Compat03Assumption
<1>3. PartsFromWire(ws) = ps
    BY DEF PartsFromWire, Mapped
<1> HIDE DEF ws, cs
<1>4. \A i \in 1..Len(cs) : Decoded(ps[i])
    BY <1>1, <1>2, PartIsDecoded
<1>5. ps = [i \in 1..Len(cs) |-> ps[i]]
    BY <1>2
<1> HIDE DEF ps
<1>6. ps \in Seq(Range(ps)) /\ Len(ps) = Len(cs) /\ DOMAIN ps = 1..Len(cs)
    BY <1>2, <1>5, ListIs
<1>7. IsParts(ps)
    BY <1>2, <1>4, <1>6 DEF IsParts, IsList
<1> QED
    BY <1>3, <1>7 DEF ws

\* Parts that all come back as they are come back as a list.
Returns(ps) == \A p \in Range(ps) : PartFromWire(PartToWire(p)) = p

LEMMA PartsSaidAgain ==
    ASSUME NEW ps, IsParts(ps), Returns(ps)
    PROVE  PartsFromWire(PartsToWire(ps)) = ps
<1>1. ps \in Seq(Range(ps)) /\ Len(ps) <= MaxParts
    BY DEF IsParts, IsList
<1>2. Len(ps) \in Nat /\ DOMAIN ps = 1..Len(ps) /\ ps = [i \in 1..Len(ps) |-> ps[i]]
    BY <1>1, ListHas
<1> DEFINE ws == [i \in DOMAIN ps |-> PartToWire(ps[i])]
<1>3. PartsToWire(ps) = ws
    BY DEF PartsToWire, Mapped
<1>4. ws = [i \in 1..Len(ps) |-> ws[i]] /\ \A i \in 1..Len(ps) : ws[i] = PartToWire(ps[i])
    BY <1>2
<1> HIDE DEF ws
<1>5. ws \in Seq(Range(ws)) /\ Len(ws) = Len(ps) /\ DOMAIN ws = 1..Len(ps)
    BY <1>2, <1>4, ListIs
<1>6. Capped(ws, MaxParts) = ws
    BY <1>1, <1>5, CappedIs, Compat03Assumption
<1>7. PartsFromWire(ws) = [i \in 1..Len(ps) |-> PartFromWire(ws[i])]
    BY <1>5, <1>6 DEF PartsFromWire, Mapped
<1>8. \A i \in 1..Len(ps) : PartFromWire(ws[i]) = ps[i]
    BY <1>2, <1>4 DEF Returns, Range
<1>9. [i \in 1..Len(ps) |-> PartFromWire(ws[i])] = [i \in 1..Len(ps) |-> ps[i]]
    BY <1>8
<1> QED
    BY <1>2, <1>3, <1>7, <1>9

\* Messages, artifacts and statuses come back if their parts and their roles do.
Repeats(m) == Returns(m.parts) /\ m.role # "unspecified"

LEMMA MessageIsDecoded ==
    ASSUME NEW w, HasParts(w)
    PROVE  IsMessage(MessageFromWire(w))
<1>1. IsParts(PartsFromWire(Member(w, "parts", <<>>)))
    BY PartsAreDecoded
<1>2. RoleFromWire(Member(w, "role", "")) \in {"user", "agent", "unspecified"}
    BY DEF RoleFromWire
<1> QED
    BY <1>1, <1>2 DEF IsMessage, MessageFromWire

LEMMA MessageSaidAgain ==
    ASSUME NEW m, IsMessage(m), Repeats(m)
    PROVE  MessageFromWire(MessageToWire(m)) = m
<1> DEFINE w == MessageToWire(m)
<1>1. w = [kind |-> "message", messageId |-> "id", role |-> RoleToWire(m.role),
           parts |-> PartsToWire(m.parts)]
    BY DEF MessageToWire
<1> HIDE DEF w
<1>2. Member(w, "role", "") = RoleToWire(m.role)
    BY <1>1 DEF Member
<1>3. Member(w, "parts", <<>>) = PartsToWire(m.parts)
    BY <1>1 DEF Member
<1>4. RoleFromWire(RoleToWire(m.role)) = m.role
    BY DEF IsMessage, Repeats, RoleFromWire, RoleToWire
<1>5. PartsFromWire(PartsToWire(m.parts)) = m.parts
    BY PartsSaidAgain DEF IsMessage, Repeats
<1>6. MessageFromWire(w) = [kind |-> "message", role |-> m.role, parts |-> m.parts]
    BY <1>2, <1>3, <1>4, <1>5 DEF MessageFromWire
<1> QED
    BY <1>6 DEF IsMessage, w

LEMMA ArtifactIsDecoded ==
    ASSUME NEW w, HasParts(w)
    PROVE  IsArtifact(ArtifactFromWire(w))
BY PartsAreDecoded DEF IsArtifact, ArtifactFromWire

LEMMA ArtifactSaidAgain ==
    ASSUME NEW a, IsArtifact(a), Returns(a.parts)
    PROVE  ArtifactFromWire(ArtifactToWire(a)) = a
<1> DEFINE w == ArtifactToWire(a)
<1>1. w = [artifactId |-> "id", parts |-> PartsToWire(a.parts)]
    BY DEF ArtifactToWire
<1> HIDE DEF w
<1>2. Member(w, "parts", <<>>) = PartsToWire(a.parts)
    BY <1>1 DEF Member
<1>3. PartsFromWire(PartsToWire(a.parts)) = a.parts
    BY PartsSaidAgain DEF IsArtifact
<1>4. ArtifactFromWire(w) = [parts |-> a.parts]
    BY <1>2, <1>3 DEF ArtifactFromWire
<1> QED
    BY <1>4 DEF IsArtifact, w

LEMMA StatusIsDecoded ==
    ASSUME NEW w, IsStatus(w)
    PROVE  HasStatus(StatusFromWire(w))
<1> DEFINE ws == Member(w, "message", <<>>)
           ms == [i \in DOMAIN ws |-> MessageFromWire(ws[i])]
<1>1. ws \in Seq(Range(ws)) /\ \A i \in DOMAIN ws : HasParts(ws[i])
    BY DEF IsStatus, IsList
<1>2. StatusFromWire(w) = [state |-> StateFromWire(Member(w, "state", "")), message |-> ms]
    BY DEF StatusFromWire, Mapped
<1> HIDE DEF ws
<1>3. Len(ws) \in Nat /\ DOMAIN ws = 1..Len(ws)
    BY <1>1, ListHas
<1>4. \A i \in 1..Len(ws) : IsMessage(ms[i])
    BY <1>1, <1>3, MessageIsDecoded
<1>5. ms = [i \in 1..Len(ws) |-> ms[i]]
    BY <1>3
<1> HIDE DEF ms
<1>6. ms \in Seq(Range(ms)) /\ DOMAIN ms = 1..Len(ws)
    BY <1>3, <1>5, ListIs
<1>7. IsList(ms, IsMessage)
    BY <1>4, <1>6 DEF IsList
<1> DEFINE st == StateFromWire(Member(w, "state", ""))
<1>8. st \in States \union {"unspecified"}
    BY DEF StateFromWire
<1>9. StatusFromWire(w) = [state |-> st, message |-> ms]
    BY <1>2
<1> HIDE DEF st
<1>10. HasStatus([state |-> st, message |-> ms])
    BY <1>7, <1>8 DEF HasStatus
<1> QED
    BY <1>9, <1>10

LEMMA StatusSaidAgain ==
    ASSUME NEW s, HasStatus(s), \A m \in Range(s.message) : Repeats(m)
    PROVE  StatusFromWire(StatusToWire(s)) = s
<1> DEFINE ms == s.message
           ws == [i \in DOMAIN ms |-> MessageToWire(ms[i])]
           w  == StatusToWire(s)
<1>1. ms \in Seq(Range(ms)) /\ \A i \in DOMAIN ms : IsMessage(ms[i])
    BY DEF HasStatus, IsList
<1>2. w = [state |-> StateToWire(s.state), message |-> ws]
    BY DEF StatusToWire, Mapped
<1> HIDE DEF w
<1>3. Member(w, "state", "") = StateToWire(s.state) /\ Member(w, "message", <<>>) = ws
    BY <1>2 DEF Member
<1>4. StateFromWire(StateToWire(s.state)) = s.state
    BY DEF HasStatus, StateFromWire, StateToWire, States
<1>5. StatusFromWire(w) = [state |-> s.state,
                           message |-> [i \in DOMAIN ws |-> MessageFromWire(ws[i])]]
    BY <1>3, <1>4 DEF StatusFromWire, Mapped
<1>6. \A i \in DOMAIN ms : MessageFromWire(MessageToWire(ms[i])) = ms[i]
    BY <1>1, MessageSaidAgain DEF Range
<1>7. [i \in DOMAIN ws |-> MessageFromWire(ws[i])] = [i \in DOMAIN ms |-> ms[i]]
    BY <1>6
<1>8. ms = [i \in DOMAIN ms |-> ms[i]]
    <2> HIDE DEF ms
    <2> QED
        BY <1>1, ListHas
<1>9. s = [state |-> s.state, message |-> ms]
    BY DEF HasStatus
<1> QED
    BY <1>5, <1>7, <1>8, <1>9 DEF w

\* Results and events: what is decoded keeps its kind, hence is decoded by the same operator
\* again.
LEMMA TaskIsDecoded ==
    ASSUME NEW w, IsResult(w)
    PROVE  IsTask(TaskFromWire(w))
<1> DEFINE ws == Member(w, "artifacts", <<>>)
           cs == Capped(ws, MaxArtifacts)
           as == [i \in DOMAIN cs |-> ArtifactFromWire(cs[i])]
           id == Member(w, "id", "")
           st == StatusFromWire(Member(w, "status", NoStatus))
<1>1. TaskFromWire(w) = [kind |-> "task", id |-> id, status |-> st, artifacts |-> as]
    BY DEF TaskFromWire, Mapped
<1>2. HasStatus(st)
    BY StatusIsDecoded DEF IsResult
<1>3. ws \in Seq(Range(ws)) /\ \A i \in DOMAIN ws : HasParts(ws[i])
    BY DEF IsResult, IsList
<1> HIDE DEF ws, id, st
<1>4. /\ Len(cs) \in Nat /\ Len(cs) <= MaxArtifacts /\ DOMAIN cs = 1..Len(cs)
      /\ \A i \in DOMAIN cs : i \in DOMAIN ws /\ cs[i] = ws[i]
    BY <1>3, CappedIs, Compat03Assumption
<1> HIDE DEF cs
<1>5. \A i \in 1..Len(cs) : IsArtifact(as[i])
    BY <1>3, <1>4, ArtifactIsDecoded
<1>6. as = [i \in 1..Len(cs) |-> as[i]]
    BY <1>4
<1> HIDE DEF as
<1>7. as \in Seq(Range(as)) /\ Len(as) = Len(cs) /\ DOMAIN as = 1..Len(cs)
    BY <1>4, <1>6, ListIs
<1>8. IsList(as, IsArtifact) /\ Len(as) <= MaxArtifacts
    BY <1>4, <1>5, <1>7 DEF IsList
<1>9. IsTask([kind |-> "task", id |-> id, status |-> st, artifacts |-> as])
    BY <1>2, <1>8 DEF IsTask
<1> QED
    BY <1>1, <1>9

LEMMA ResultIsDecoded ==
    ASSUME NEW w, IsResult(w), ResultKind(w) # "unknown"
    PROVE  IsEventOf(EventFromResult(w))
<1>1. ResultKind(w) \in Kinds
    BY DEF ResultKind, SniffKind, Kinds
<1>2. CASE ResultKind(w) = "task"
    BY <1>2, TaskIsDecoded DEF EventFromResult, IsEventOf
<1>3. CASE ResultKind(w) = "status-update"
    <2> DEFINE id == Member(w, "taskId", "")
               st == StatusFromWire(Member(w, "status", NoStatus))
    <2>1. EventFromResult(w) = [kind |-> "status-update", taskId |-> id, status |-> st]
        BY <1>3 DEF EventFromResult, StatusUpdateFromWire
    <2>2. HasStatus(st)
        BY StatusIsDecoded DEF IsResult
    <2> HIDE DEF id, st
    <2>3. IsStatusUpdate([kind |-> "status-update", taskId |-> id, status |-> st])
        BY <2>2 DEF IsStatusUpdate
    <2> QED
        BY <2>1, <2>3 DEF IsEventOf
<1>4. CASE ResultKind(w) = "artifact-update"
    <2> DEFINE id == Member(w, "taskId", "")
               a == ArtifactFromWire(Member(w, "artifact", [artifactId |-> ""]))
               app == Member(w, "append", FALSE)
    <2>1. EventFromResult(w) =
            [kind |-> "artifact-update", taskId |-> id, artifact |-> a, append |-> app]
        BY <1>4 DEF EventFromResult, ArtifactUpdateFromWire
    <2>2. IsArtifact(a)
        BY ArtifactIsDecoded DEF IsResult
    <2> HIDE DEF id, a, app
    <2>3. IsArtifactUpdate([kind |-> "artifact-update", taskId |-> id, artifact |-> a,
                            append |-> app])
        BY <2>2 DEF IsArtifactUpdate
    <2> QED
        BY <2>1, <2>3 DEF IsEventOf
<1>5. CASE ResultKind(w) = "message"
    <2>1. EventFromResult(w) = MessageFromWire(w)
        BY <1>5 DEF EventFromResult
    <2> QED
        BY <2>1, MessageIsDecoded DEF IsEventOf, IsResult
<1> QED
    BY <1>1, <1>2, <1>3, <1>4, <1>5 DEF Kinds

\* An event has the parts and the roles of what it consists of, and they are decoded.
LEMMA PartsOfIs ==
    ASSUME NEW e, IsEventOf(e), NEW p \in PartsOf(e)
    PROVE  Decoded(p)
<1>1. ASSUME NEW ps, IsParts(ps), p \in Range(ps) PROVE Decoded(p)
    BY <1>1 DEF IsParts, IsList, Range
<1>2. ASSUME NEW ms, IsList(ms, IsMessage), NEW m \in Range(ms) PROVE IsParts(m.parts)
    BY <1>2 DEF IsList, IsMessage, Range
<1>3. CASE IsTask(e)
    <2>1. e.kind = "task"
        BY <1>3 DEF IsTask
    <2>2. \/ \E a \in Range(e.artifacts) : p \in Range(a.parts)
          \/ \E m \in Range(e.status.message) : p \in Range(m.parts)
        BY <2>1 DEF PartsOf
    <2>3. \A a \in Range(e.artifacts) : IsParts(a.parts)
        BY <1>3 DEF IsTask, IsList, IsArtifact, Range
    <2>4. IsList(e.status.message, IsMessage)
        BY <1>3 DEF IsTask, HasStatus
    <2> QED
        BY <1>1, <1>2, <2>2, <2>3, <2>4
<1>4. CASE IsStatusUpdate(e)
    <2>1. e.kind = "status-update"
        BY <1>4 DEF IsStatusUpdate
    <2>2. \E m \in Range(e.status.message) : p \in Range(m.parts)
        BY <2>1 DEF PartsOf
    <2>3. IsList(e.status.message, IsMessage)
        BY <1>4 DEF IsStatusUpdate, HasStatus
    <2> QED
        BY <1>1, <1>2, <2>2, <2>3
<1>5. CASE IsArtifactUpdate(e)
    <2>1. e.kind = "artifact-update" /\ IsParts(e.artifact.parts)
        BY <1>5 DEF IsArtifactUpdate, IsArtifact
    <2> QED
        BY <1>1, <2>1 DEF PartsOf
<1>6. CASE IsMessage(e)
    <2>1. e.kind = "message" /\ IsParts(e.parts)
        BY <1>6 DEF IsMessage
    <2> QED
        BY <1>1, <2>1 DEF PartsOf
<1> QED
    BY <1>3, <1>4, <1>5, <1>6 DEF IsEventOf

LEMMA TaskSaidAgain ==
    ASSUME NEW e, IsTask(e), \A a \in Range(e.artifacts) : Returns(a.parts),
           \A m \in Range(e.status.message) : Repeats(m)
    PROVE  EventFromResult(EventToWire(e)) = e
<1> DEFINE as == e.artifacts
           ws == [i \in DOMAIN as |-> ArtifactToWire(as[i])]
           w  == TaskToWire(e)
<1>1. w = [kind |-> "task", id |-> e.id, status |-> StatusToWire(e.status), artifacts |-> ws]
    BY DEF TaskToWire, Mapped
<1>2. EventToWire(e) = w
    BY DEF IsTask, EventToWire
<1>3. as \in Seq(Range(as)) /\ (\A i \in DOMAIN as : IsArtifact(as[i])) /\ Len(as) <= MaxArtifacts
    BY DEF IsTask, IsList
<1>4. \A i \in DOMAIN as : ArtifactFromWire(ArtifactToWire(as[i])) = as[i]
    BY <1>3, ArtifactSaidAgain DEF Range
<1>5. e = [kind |-> "task", id |-> e.id, status |-> e.status, artifacts |-> as]
    BY DEF IsTask
<1>6. StatusFromWire(StatusToWire(e.status)) = e.status
    BY StatusSaidAgain DEF IsTask
<1> HIDE DEF w, as
<1>7. Len(as) \in Nat /\ DOMAIN as = 1..Len(as) /\ as = [i \in 1..Len(as) |-> as[i]]
    BY <1>3, ListHas
<1>8. ws = [i \in 1..Len(as) |-> ws[i]] /\ \A i \in 1..Len(as) : ws[i] = ArtifactToWire(as[i])
    BY <1>7
<1> HIDE DEF ws
<1>9. ws \in Seq(Range(ws)) /\ Len(ws) = Len(as) /\ DOMAIN ws = 1..Len(as)
    BY <1>7, <1>8, ListIs
<1>10. Capped(ws, MaxArtifacts) = ws
    BY <1>3, <1>9, CappedIs, Compat03Assumption
<1>11. /\ Member(w, "id", "") = e.id /\ Member(w, "status", NoStatus) = StatusToWire(e.status)
       /\ Member(w, "artifacts", <<>>) = ws /\ Member(w, "kind", "") = "task"
    BY <1>1 DEF Member
<1>12. TaskFromWire(w) = [kind |-> "task", id |-> e.id, status |-> e.status,
                          artifacts |-> [i \in DOMAIN ws |-> ArtifactFromWire(ws[i])]]
    BY <1>6, <1>10, <1>11 DEF TaskFromWire, Mapped
<1>13. [i \in DOMAIN ws |-> ArtifactFromWire(ws[i])] = as
    BY <1>4, <1>7, <1>8, <1>9
<1>14. ResultKind(w) = "task"
    BY <1>11 DEF ResultKind, Kinds
<1> QED
    BY <1>2, <1>5, <1>12, <1>13, <1>14 DEF EventFromResult

LEMMA UpdatesSaidAgain ==
    ASSUME NEW e
    PROVE  /\ IsStatusUpdate(e) /\ (\A m \in Range(e.status.message) : Repeats(m)) =>
                EventFromResult(EventToWire(e)) = e
           /\ IsArtifactUpdate(e) /\ Returns(e.artifact.parts) =>
                EventFromResult(EventToWire(e)) = e
           /\ IsMessage(e) /\ Repeats(e) => EventFromResult(EventToWire(e)) = e
<1>1. ASSUME IsStatusUpdate(e), \A m \in Range(e.status.message) : Repeats(m)
      PROVE  EventFromResult(EventToWire(e)) = e
    <2> DEFINE w == StatusUpdateToWire(e)
    <2>1. e = [kind |-> "status-update", taskId |-> e.taskId, status |-> e.status]
        BY <1>1 DEF IsStatusUpdate
    <2>2. EventToWire(e) = w
        BY <2>1 DEF EventToWire
    <2>3. StatusFromWire(StatusToWire(e.status)) = e.status
        BY <1>1, StatusSaidAgain DEF IsStatusUpdate
    <2>4. /\ Member(w, "kind", "") = "status-update" /\ Member(w, "taskId", "") = e.taskId
          /\ Member(w, "status", NoStatus) = StatusToWire(e.status)
        BY DEF StatusUpdateToWire, Member
    <2> HIDE DEF w
    <2>5. ResultKind(w) = "status-update"
        BY <2>4 DEF ResultKind, Kinds
    <2>6. EventFromResult(w) = [kind |-> "status-update", taskId |-> e.taskId, status |-> e.status]
        BY <2>3, <2>4, <2>5 DEF EventFromResult, StatusUpdateFromWire
    <2> QED
        BY <2>1, <2>2, <2>6
<1>2. ASSUME IsArtifactUpdate(e), Returns(e.artifact.parts)
      PROVE  EventFromResult(EventToWire(e)) = e
    <2> DEFINE w == ArtifactUpdateToWire(e)
    <2>1. e = [kind |-> "artifact-update", taskId |-> e.taskId, artifact |-> e.artifact,
               append |-> e.append]
        BY <1>2 DEF IsArtifactUpdate
    <2>2. EventToWire(e) = w
        BY <2>1 DEF EventToWire
    <2>3. ArtifactFromWire(ArtifactToWire(e.artifact)) = e.artifact
        BY <1>2, ArtifactSaidAgain DEF IsArtifactUpdate
    <2>4. /\ Member(w, "kind", "") = "artifact-update" /\ Member(w, "taskId", "") = e.taskId
          /\ Member(w, "artifact", [artifactId |-> ""]) = ArtifactToWire(e.artifact)
          /\ Member(w, "append", FALSE) = e.append
        BY DEF ArtifactUpdateToWire, Member
    <2> HIDE DEF w
    <2>5. ResultKind(w) = "artifact-update"
        BY <2>4 DEF ResultKind, Kinds
    <2>6. EventFromResult(w) = [kind |-> "artifact-update", taskId |-> e.taskId,
                                artifact |-> e.artifact, append |-> e.append]
        BY <2>3, <2>4, <2>5 DEF EventFromResult, ArtifactUpdateFromWire
    <2> QED
        BY <2>1, <2>2, <2>6
<1>3. ASSUME IsMessage(e), Repeats(e)
      PROVE  EventFromResult(EventToWire(e)) = e
    <2> DEFINE w == MessageToWire(e)
    <2>1. e.kind = "message"
        BY <1>3 DEF IsMessage
    <2>2. EventToWire(e) = w
        BY <2>1 DEF EventToWire
    <2>3. MessageFromWire(w) = e
        BY <1>3, MessageSaidAgain
    <2>4. Member(w, "kind", "") = "message"
        BY DEF MessageToWire, Member
    <2> HIDE DEF w
    <2>5. ResultKind(w) = "message"
        BY <2>4 DEF ResultKind, Kinds
    <2> QED
        BY <2>2, <2>3, <2>5 DEF EventFromResult
<1> QED
    BY <1>1, <1>2, <1>3

LEMMA EventsSaidAgain ==
    ASSUME NEW e, IsEventOf(e)
    PROVE  SaidAgain(e)
<1> SUFFICES ASSUME \A p \in PartsOf(e) : ~Unspeakable(p), "unspecified" \notin RolesOf(e)
             PROVE  SaidAgain(e)
    BY DEF SaidAgain
<1>1. ASSUME NEW p \in PartsOf(e)
      PROVE  /\ SameContent(p, PartFromWire(PartToWire(p)))
             /\ ~NewlyWrapped(p) => PartFromWire(PartToWire(p)) = p
    BY PartsOfIs, PartSaidAgain
<1>2. ASSUME \A p \in PartsOf(e) : ~NewlyWrapped(p)
      PROVE  EventFromResult(EventToWire(e)) = e
    <2>1. \A ps : Range(ps) \subseteq PartsOf(e) => Returns(ps)
        BY <1>1, <1>2 DEF Returns
    <2>2. CASE IsTask(e)
        <3>1. e.kind = "task"
            BY <2>2 DEF IsTask
        <3>2. \A a \in Range(e.artifacts) : Range(a.parts) \subseteq PartsOf(e)
            BY <3>1 DEF PartsOf
        <3>3. \A m \in Range(e.status.message) : Range(m.parts) \subseteq PartsOf(e)
            BY <3>1 DEF PartsOf
        <3>4. \A m \in Range(e.status.message) : m.role # "unspecified"
            BY <3>1 DEF RolesOf
        <3>5. \A m \in Range(e.status.message) : Repeats(m)
            BY <2>1, <3>3, <3>4 DEF Repeats
        <3>6. \A a \in Range(e.artifacts) : Returns(a.parts)
            BY <2>1, <3>2
        <3> QED
            BY <2>2, <3>5, <3>6, TaskSaidAgain
    <2>3. CASE IsStatusUpdate(e)
        <3>1. e.kind = "status-update"
            BY <2>3 DEF IsStatusUpdate
        <3>2. \A m \in Range(e.status.message) : Range(m.parts) \subseteq PartsOf(e)
            BY <3>1 DEF PartsOf
        <3>3. \A m \in Range(e.status.message) : m.role # "unspecified"
            BY <3>1 DEF RolesOf
        <3>4. \A m \in Range(e.status.message) : Repeats(m)
            BY <2>1, <3>2, <3>3 DEF Repeats
        <3> QED
            BY <2>3, <3>4, UpdatesSaidAgain
    <2>4. CASE IsArtifactUpdate(e)
        <3>1. e.kind = "artifact-update"
            BY <2>4 DEF IsArtifactUpdate
        <3>2. Returns(e.artifact.parts)
            BY <2>1, <3>1 DEF PartsOf
        <3> QED
            BY <2>4, <3>2, UpdatesSaidAgain
    <2>5. CASE IsMessage(e)
        <3>1. e.kind = "message"
            BY <2>5 DEF IsMessage
        <3>2. Returns(e.parts) /\ e.role # "unspecified"
            BY <2>1, <3>1 DEF PartsOf, RolesOf
        <3> QED
            BY <2>5, <3>2, UpdatesSaidAgain DEF Repeats
    <2> QED
        BY <2>2, <2>3, <2>4, <2>5 DEF IsEventOf
<1> QED
    BY <1>1, <1>2 DEF SaidAgain

LEMMA NullIsDecoded == SaidAgain(TaskFromWire(<<>>))
<1>1. \A f, zero : Member(<<>>, f, zero) = zero
    BY DEF Member
<1>2. <<>> \in Seq(Range(<<>>)) /\ DOMAIN <<>> = {}
    OBVIOUS
<1>3. \A w : Member(w, "parts", <<>>) = <<>> => HasParts(w)
    BY <1>2 DEF HasParts, IsList
<1>4. /\ Member(NoStatus, "message", <<>>) = <<>>
      /\ Member([artifactId |-> ""], "parts", <<>>) = <<>>
    BY DEF Member, NoStatus
<1>5. IsStatus(NoStatus)
    BY <1>2, <1>4 DEF IsStatus, IsList
<1>6. HasParts([artifactId |-> ""]) /\ HasParts(<<>>)
    BY <1>1, <1>3, <1>4
<1>7. IsList(<<>>, HasParts)
    BY <1>2 DEF IsList
<1>8. IsResult(<<>>)
    BY <1>1, <1>5, <1>6, <1>7 DEF IsResult
<1>9. IsEventOf(TaskFromWire(<<>>))
    BY <1>8, TaskIsDecoded DEF IsEventOf
<1> QED
    BY <1>9, EventsSaidAgain

\* What the last call returned can be said again.
Repeatable(g) == g.method # "push/set" /\ g.outcome.ok => SaidAgain(g.outcome.value)

LEMMA OutcomesAreFaithful ==
    ASSUME NEW m \in CallMethods, NEW a \in Answers
    PROVE  Repeatable([method |-> m, answer |-> a, outcome |-> Outcome(m, a)])
<1>1. a.came \in {"refused", "huge", "cut", "whole"}
    BY Compat03Assumption
<1>2. \A v : Success(v).ok = TRUE /\ Success(v).value = v
    BY DEF Success
<1>3. \A x : Failed(x).ok = FALSE
    BY DEF Failed
<1>4. Post(a).ok => Post(a).value = a /\ a.came = "whole"
    BY <1>1, <1>2, <1>3, Compat03Assumption DEF Post
<1>5. a.came = "whole" /\ a.says = "result" => IsResult(a.result)
    BY WordsAssumption
<1>6. Outcome(m, a).ok => SaidAgain(Outcome(m, a).value)
    <2>1. CASE m = "message/send"
        <3>1. Outcome(m, a) = IF Post(a).ok THEN SendResult(Post(a).value) ELSE Post(a)
            BY <2>1 DEF Outcome, Then
        <3>2. SendResult(a).ok =>
                /\ a.says = "result" /\ ResultKind(a.result) # "unknown"
                /\ SendResult(a).value = EventFromResult(a.result)
            BY <1>2, <1>3 DEF SendResult
        <3>3. a.came = "whole" /\ SendResult(a).ok => SaidAgain(SendResult(a).value)
            BY <1>5, <3>2, ResultIsDecoded, EventsSaidAgain
        <3> QED
            BY <1>4, <3>1, <3>3
    <2>2. CASE m \in {"tasks/get", "tasks/cancel"}
        <3>1. Outcome(m, a) = IF Post(a).ok THEN TaskDecoded(Post(a).value) ELSE Post(a)
            BY <2>2 DEF Outcome, Then
        <3>2. TaskDecoded(a).value = TaskFromWire(IF a.says = "result" THEN a.result ELSE <<>>)
            BY <1>2 DEF TaskDecoded
        <3>3. a.came = "whole" => SaidAgain(TaskDecoded(a).value)
            <4>1. CASE a.says = "result"
                BY <1>5, <3>2, <4>1, TaskIsDecoded, EventsSaidAgain DEF IsEventOf
            <4>2. CASE a.says # "result"
                BY <3>2, <4>2, NullIsDecoded
            <4> QED
                BY <4>1, <4>2
        <3> QED
            BY <1>4, <3>1, <3>3
    <2>3. CASE m \in {"tasks/list", "extendedCard"}
        <3>1. Outcome(m, a) = Failed("unsupported")
            BY <2>3 DEF Outcome
        <3> QED
            BY <1>3, <3>1
    <2> QED
        BY <2>1, <2>2, <2>3 DEF CallMethods
<1> QED
    BY <1>6 DEF Repeatable

LEMMA ClientRepeats ==
    ASSUME StreamTyped, Faithful, [ClientNext]_clientVars
    PROVE  Faithful'
<1> DEFINE OutKept == \A i \in DOMAIN out' : SaidAgain(out'[i].event)
           GotKept == got' = got \/ got' = <<>> \/ \E g : Repeatable(g) /\ got' = <<g>>
<1>1. ASSUME OutKept, GotKept PROVE Faithful'
    <2>1. \A g \in Range(got') : Repeatable(g)
        BY <1>1 DEF Faithful, Range, Repeatable
    <2> QED
        BY <1>1, <2>1 DEF Faithful, Repeatable
<1>2. out' = out => OutKept
    BY DEF Faithful
<1> HIDE DEF OutKept, GotKept
<1>3. CASE UNCHANGED clientVars
    BY <1>1, <1>2, <1>3 DEF clientVars, GotKept
<1>4. ASSUME NEW m \in CallMethods, NEW a \in Answers, BlockingCall(m, a)
      PROVE  Faithful'
    BY <1>1, <1>2, <1>4, OutcomesAreFaithful DEF BlockingCall, GotKept
<1>5. ASSUME NEW p \in PushConfigs, CreatePush(p)
      PROVE  Faithful'
    <2> DEFINE g == [method |-> "push/set", answer |-> p,
                     outcome |-> Success(PushFromWire(PushToWire(p)))]
    <2>1. got' = <<g>> /\ out' = out
        BY <1>5 DEF CreatePush
    <2>2. Repeatable(g)
        BY DEF Repeatable
    <2> QED
        BY <1>1, <1>2, <2>1, <2>2 DEF GotKept
<1>6. CASE FrameEvent
    <2> DEFINE f == dataLines[1].frame
               x == [event |-> EventFromResult(f.result), final |-> FinalOf(f.result)]
    <2>1. /\ pc = "frame" /\ got' = got /\ out' = Append(out, x)
          /\ f.says = "result" /\ ResultKind(f.result) # "unknown"
        BY <1>6 DEF FrameEvent, InFrame
    <2>2. dataLines \in Seq(DataLines) /\ dataLines # <<>>
        BY <2>1 DEF StreamTyped
    <2>3. f \in Frames
        <3>1. dataLines[1] \in DataLines
            BY <2>2
        <3> QED
            BY <3>1 DEF DataLines
    <2>4. IsResult(f.result)
        BY <2>1, <2>3, WordsAssumption
    <2>5. SaidAgain(x.event)
        BY <2>1, <2>4, ResultIsDecoded, EventsSaidAgain
    <2> HIDE DEF x
    <2>6. \A i \in DOMAIN out' : (i \in DOMAIN out /\ out'[i] = out[i]) \/ out'[i] = x
        <3>1. out \in Seq(Handed)
            BY DEF StreamTyped
        <3> QED
            BY <2>1, <3>1, LenProperties
    <2>7. OutKept
        BY <2>5, <2>6 DEF OutKept, Faithful
    <2> QED
        BY <1>1, <2>1, <2>7 DEF GotKept
<1>7. CASE \/ Open \/ OpenFails \/ CheckContext
           \/ ReadIgnored \/ ReadBlank \/ ReadData \/ ReadHuge \/ ReadEOF \/ ReadFails
           \/ FrameRefused \/ FrameNull \/ Close
    <2>1. out' = out /\ (got' = got \/ got' = <<>>)
        BY <1>7 DEF Open, OpenFails, CheckContext, ReadIgnored, ReadBlank, ReadData,
            ReadHuge, ReadEOF, ReadFails, ReadsOn, FrameRefused, FrameNull, InFrame, Close
    <2> QED
        BY <1>1, <1>2, <2>1 DEF GotKept
<1>8. CASE \/ Watchdog \/ ConsumerTakes \/ ConsumerStops \/ Cancel
           \/ AgentSays \/ \E how \in {"eof", "cut"} : AgentEnds(how)
    <2>1. out' = out /\ got' = got
        BY <1>8 DEF Watchdog, Tick, Fire, WatchdogCloses,
            ConsumerTakes, ConsumerStops, Cancel, AgentSays, Say, AgentEnds
    <2> QED
        BY <1>1, <1>2, <2>1 DEF GotKept
<1> QED
    BY <1>3, <1>4, <1>5, <1>6, <1>7, <1>8 DEF ClientNext, Reader

------------------------------------------------------------------------------
(* The theorems.                                                              *)

\* The invariant: what the client holds is typed, is let go, is what was said, and can be
\* said again.
ClientInv == StreamTyped /\ Released /\ NoErrorSwallowed /\ Following /\ Faithful

LEMMA ClientStarts == ClientInit => ClientInv
<1> SUFFICES ASSUME ClientInit PROVE ClientInv
    OBVIOUS
<1>1. /\ pc = "idle" /\ wire = <<>> /\ rd = 0 /\ dataLines = <<>> /\ out = <<>> /\ got = <<>>
      /\ timer = Off /\ last = FALSE
    BY DEF ClientInit
<1>2. verdict = ""
    BY Zenon DEF ClientInit
<1>3. Off \in 0..Off
    BY Compat03Assumption DEF Off
<1>4. StreamTyped
    BY <1>1, <1>3 DEF StreamTyped
<1>5. Released
    BY <1>1 DEF Released
<1>6. NoErrorSwallowed
    BY <1>1 DEF NoErrorSwallowed, Range
<1>7. Sofar = Nothing
    <2>1. SubSeq(wire, 1, rd) = <<>>
        BY <1>1
    <2> QED
        BY <2>1, HeardIs DEF Sofar
<1>8. Given = <<>>
    BY <1>1 DEF Given
<1>9. InHand = Sofar /\ Settled = Sofar
    BY <1>1, <1>7, <1>8 DEF InHand, Settled, Nothing
<1>10. Begins(Given, Settled.events)
    BY <1>7, <1>8, <1>9 DEF Begins, Nothing
<1>11. verdict # "ended" /\ verdict # "final"
    BY <1>2
<1>12. Following
    BY <1>1, <1>2, <1>9, <1>10, <1>11, Zenon DEF Following
<1>13. Faithful
    BY <1>1 DEF Faithful, Range
<1> QED
    BY <1>4, <1>5, <1>6, <1>12, <1>13 DEF ClientInv

LEMMA ClientIsSound == ClientSpec => []ClientInv
<1>1. ClientInv /\ [ClientNext]_clientVars => ClientInv'
    BY ClientStreamSteps, ClientAnswers, ClientFollows, ClientRepeats DEF ClientInv
<1> QED
    BY <1>1, ClientStarts, PTL DEF ClientSpec

\* The program is handed what the agent said, event by event, and nothing made of half an
\* event or of two (Frames, its flush, stream), whatever cut in: for any
\* words of an agent, in any lines.
THEOREM WordsAreTheAgents == ClientSpec => []NothingMadeUp
<1>1. ClientInv => NothingMadeUp
    BY FollowingIsTrue DEF ClientInv
<1> QED
    BY <1>1, ClientIsSound, PTL

\* A stream that is over holds neither its connection nor a timer, and nothing comes
\* after a final event (Frames, Body.Close, watchdog.stop), for any agent.
THEOREM StreamsLetGo == ClientSpec => []Released
BY ClientIsSound, PTL DEF ClientInv

\* A blocking call succeeds exactly when the agent answered, and with what the method
\* asks for (post, decodeResult).
THEOREM ErrorsAreErrors == ClientSpec => []NoErrorSwallowed
BY ClientIsSound, PTL DEF ClientInv

\* What was decoded from 0.3, encoded for 0.3 again and decoded, is the same, but for what
\* the two dialects cannot say to each other (PartFromWire, PartToWire, wrapDataValue and
\* their callers): whatever an agent says, streamed or as an answer.
THEOREM DecodedComesBack == ClientSpec => []Faithful
BY ClientIsSound, PTL DEF ClientInv

------------------------------------------------------------------------------
(* The transcript: its blocks.                                                *)

PillIds     == {PillId(t) : t \in Tasks}
ArtifactIds == {ArtifactId(t) : t \in Tasks}
Numbered    == [inst : Nat, block : Blocks]
Transcripts == [entries : Seq(Numbered), seq : Nat, crashed : BOOLEAN]

\* No instance ID is used twice, and no task has two pills.
KeepsIds(es) ==
    \A i, j \in DOMAIN es : i # j =>
        /\ es[i].inst # es[j].inst
        /\ es[i].block.id = es[j].block.id => es[i].block.id \notin PillIds

\* What events alone leave behind: one block for an artifact, and nothing of a task below
\* its verdict; TidyBut does not look at the verdict of one task.
TidyBut(es, but) ==
    \A i, j \in DOMAIN es : i < j =>
        /\ es[i].block.id = es[j].block.id => es[i].block.id \notin ArtifactIds
        /\ es[i].block.content = "completed" =>
               es[i].block.of = but \/ es[i].block.of # es[j].block.of
Tidy(es) == TidyBut(es, "none")

\* A transcript whose instance IDs are its own, and what becomes of it: entries are taken
\* over, or get an instance ID that none had.
Sound(t) ==
    /\ t \in Transcripts
    /\ \A i \in DOMAIN t.entries : t.entries[i].inst \in 1..t.seq
    /\ KeepsIds(t.entries)
Renews(t, u) ==
    /\ t.seq <= u.seq
    /\ \A i \in DOMAIN u.entries :
           u.entries[i].inst > t.seq \/ \E j \in DOMAIN t.entries : u.entries[i] = t.entries[j]

LEMMA IdsDiffer ==
    /\ \A t, k : PillId(t) = PillId(k) => t = k
    /\ \A t, k : ArtifactId(t) = ArtifactId(k) => t = k
    /\ \A t, k : PillId(t) # ArtifactId(k)
    /\ \A t : TextId # PillId(t) /\ TextId # ArtifactId(t)
    /\ \A t : SurfaceId # PillId(t) /\ SurfaceId # ArtifactId(t)
    /\ \A t : <<"status">> # PillId(t) /\ <<"status">> # ArtifactId(t)
    /\ \A t : <<"welcome">> # PillId(t) /\ <<"welcome">> # ArtifactId(t)
BY DEF PillId, ArtifactId, TextId, SurfaceId

LEMMA BlocksBy ==
    \A b : b \in Blocks <=> b \in {SurfaceBlock, Status, Welcome} \/ \E t \in Tasks : b \in Of(t)
BY DEF Blocks

LEMMA BlocksAre ==
    /\ \A t \in Tasks, st \in PillStates : Pill(t, st) \in Blocks
    /\ \A t \in Tasks, c \in {"one", "two"} : Artifact(t, c) \in Blocks
    /\ \A t \in Tasks : Text(t) \in Blocks
    /\ SurfaceBlock \in Blocks /\ Status \in Blocks /\ Welcome \in Blocks
BY BlocksBy, Zenon DEF Of

\* A pill's ID and state are those of its task; nothing but a pill is a verdict.
LEMMA BlockFacts ==
    ASSUME NEW b \in Blocks
    PROVE  /\ \A t \in Tasks : b.id = PillId(t) \/ b.id = ArtifactId(t) => b.of = t
           /\ b.content = "completed" => b.of \in Tasks /\ b.id = PillId(b.of)
<1>1. ASSUME NEW k \in Tasks, NEW st \in PillStates, b = Pill(k, st)
      PROVE  /\ \A t \in Tasks : b.id = PillId(t) \/ b.id = ArtifactId(t) => b.of = t
             /\ b.content = "completed" => b.of \in Tasks /\ b.id = PillId(b.of)
    BY <1>1, IdsDiffer DEF Pill, Block
<1>2. ASSUME NEW k \in Tasks, NEW c \in {"one", "two"}, b = Artifact(k, c)
      PROVE  /\ \A t \in Tasks : b.id = PillId(t) \/ b.id = ArtifactId(t) => b.of = t
             /\ b.content = "completed" => b.of \in Tasks /\ b.id = PillId(b.of)
    BY <1>2, IdsDiffer DEF Artifact, Block
<1>3. ASSUME NEW k \in Tasks, b = Text(k)
      PROVE  /\ \A t \in Tasks : b.id = PillId(t) \/ b.id = ArtifactId(t) => b.of = t
             /\ b.content = "completed" => b.of \in Tasks /\ b.id = PillId(b.of)
    BY <1>3, IdsDiffer DEF Text, Block
<1>4. ASSUME b \in {SurfaceBlock, Status, Welcome}
      PROVE  /\ \A t \in Tasks : b.id = PillId(t) \/ b.id = ArtifactId(t) => b.of = t
             /\ b.content = "completed" => b.of \in Tasks /\ b.id = PillId(b.of)
    BY <1>4, IdsDiffer DEF SurfaceBlock, Status, Welcome, Block
<1>5. \/ \E k \in Tasks : \/ \E st \in PillStates : b = Pill(k, st)
                          \/ \E c \in {"one", "two"} : b = Artifact(k, c)
                          \/ b = Text(k)
      \/ b \in {SurfaceBlock, Status, Welcome}
    <2>1. CASE b \in {SurfaceBlock, Status, Welcome}
        BY <2>1, Zenon
    <2>2. CASE \E k \in Tasks : b \in Of(k)
        BY <2>2, Zenon DEF Of
    <2> QED
        BY <2>1, <2>2, BlocksBy, Zenon
<1> QED
    BY <1>1, <1>2, <1>3, <1>4, <1>5

\* A sequence without its element i.
LEMMA RemoveAtIs ==
    ASSUME NEW S, NEW es \in Seq(S), NEW i \in 1..Len(es)
    PROVE  /\ RemoveAt(es, i) \in Seq(S) /\ Len(RemoveAt(es, i)) = Len(es) - 1
           /\ \A j \in 1..Len(es) - 1 :
                  RemoveAt(es, i)[j] = IF j < i THEN es[j] ELSE es[j + 1]
<1>1. Len(es) \in Nat /\ i \in Nat /\ i >= 1 /\ i <= Len(es)
    BY LenProperties
<1>2. \A j \in 1..Len(es) : es[j] \in S
    BY ElementOfSeq
<1> DEFINE a == SubSeq(es, 1, i - 1)
           b == SubSeq(es, i + 1, Len(es))
<1>3. a \in Seq(S) /\ Len(a) = i - 1 /\ \A j \in 1..i - 1 : a[j] = es[j]
    BY <1>1, <1>2
<1>4. b \in Seq(S) /\ Len(b) = Len(es) - i /\ \A j \in 1..Len(es) - i : b[j] = es[j + i]
    BY <1>1, <1>2
<1> HIDE DEF a, b
<1>5. /\ a \o b \in Seq(S) /\ Len(a \o b) = Len(es) - 1
      /\ \A j \in 1..Len(es) - 1 :
             (a \o b)[j] = IF j <= i - 1 THEN a[j] ELSE b[j - (i - 1)]
    <2>1. /\ a \o b \in Seq(S) /\ Len(a \o b) = Len(a) + Len(b)
          /\ \A j \in 1..Len(a) + Len(b) :
                 (a \o b)[j] = IF j <= Len(a) THEN a[j] ELSE b[j - Len(a)]
        BY <1>3, <1>4, ConcatProperties
    <2>2. Len(a) + Len(b) = Len(es) - 1
        BY <1>1, <1>3, <1>4
    <2> QED
        BY <1>3, <2>1, <2>2
<1>6. ASSUME NEW j \in 1..Len(es) - 1
      PROVE  (a \o b)[j] = IF j < i THEN es[j] ELSE es[j + 1]
    <2>1. CASE j < i
        BY <1>1, <1>3, <1>5, <2>1
    <2>2. CASE ~(j < i)
        <3>1. j - (i - 1) \in 1..Len(es) - i /\ (j - (i - 1)) + i = j + 1
            BY <1>1, <2>2
        <3>2. ~(j <= i - 1)
            BY <1>1, <2>2
        <3>3. (a \o b)[j] = b[j - (i - 1)]
            BY <1>5, <3>2
        <3> QED
            BY <1>4, <2>2, <3>1, <3>3
    <2> QED
        BY <2>1, <2>2
<1> QED
    BY <1>5, <1>6 DEF RemoveAt, a, b

\* a has elements of the first n of es, in their order: what is true of any two of es is
\* true of any two of a.
Picks(a, es, n) ==
    /\ \A i \in DOMAIN a : \E j \in 1..n : a[i] = es[j]
    /\ \A i, k \in DOMAIN a : i < k => \E j, l \in 1..n : j < l /\ a[i] = es[j] /\ a[k] = es[l]

LEMMA PicksKeep ==
    ASSUME NEW es \in Seq(Numbered), NEW a \in Seq(Numbered), Picks(a, es, Len(es))
    PROVE  /\ KeepsIds(es) => KeepsIds(a)
           /\ \A but : TidyBut(es, but) => TidyBut(a, but)
<1>1. DOMAIN es = 1..Len(es) /\ DOMAIN a = 1..Len(a) /\ Len(es) \in Nat /\ Len(a) \in Nat
    BY LenProperties
<1>2. ASSUME KeepsIds(es), NEW i \in DOMAIN a, NEW k \in DOMAIN a, i # k
      PROVE  /\ a[i].inst # a[k].inst
             /\ a[i].block.id = a[k].block.id => a[i].block.id \notin PillIds
    <2>1. CASE i < k
        <3>1. PICK j \in 1..Len(es), l \in 1..Len(es) : j < l /\ a[i] = es[j] /\ a[k] = es[l]
            BY <2>1 DEF Picks
        <3> QED
            BY <1>1, <1>2, <3>1 DEF KeepsIds
    <2>2. CASE k < i
        <3>1. PICK j \in 1..Len(es), l \in 1..Len(es) : j < l /\ a[k] = es[j] /\ a[i] = es[l]
            BY <2>2 DEF Picks
        <3> QED
            BY <1>1, <1>2, <3>1 DEF KeepsIds
    <2> QED
        BY <1>1, <1>2, <2>1, <2>2
<1>3. ASSUME NEW but, TidyBut(es, but), NEW i \in DOMAIN a, NEW k \in DOMAIN a, i < k
      PROVE  /\ a[i].block.id = a[k].block.id => a[i].block.id \notin ArtifactIds
             /\ a[i].block.content = "completed" =>
                    a[i].block.of = but \/ a[i].block.of # a[k].block.of
    <2>1. PICK j \in 1..Len(es), l \in 1..Len(es) : j < l /\ a[i] = es[j] /\ a[k] = es[l]
        BY <1>3 DEF Picks
    <2> QED
        BY <1>1, <1>3, <2>1 DEF TidyBut
<1> QED
    BY <1>2, <1>3 DEF KeepsIds, TidyBut

LEMMA PicksRemoved ==
    ASSUME NEW es \in Seq(Numbered), NEW i \in 1..Len(es)
    PROVE  Picks(RemoveAt(es, i), es, Len(es))
<1> DEFINE a == RemoveAt(es, i)
           at(j) == IF j < i THEN j ELSE j + 1
<1>1. Len(es) \in Nat /\ a \in Seq(Numbered) /\ Len(a) = Len(es) - 1 /\ DOMAIN a = 1..Len(es) - 1
    BY RemoveAtIs, LenProperties
<1>2. \A j \in DOMAIN a : at(j) \in 1..Len(es) /\ a[j] = es[at(j)]
    <2>1. \A j \in 1..Len(es) - 1 : a[j] = IF j < i THEN es[j] ELSE es[j + 1]
        BY RemoveAtIs
    <2> HIDE DEF a
    <2> QED
        BY <1>1, <2>1
<1>3. \A j, k \in DOMAIN a : j < k => at(j) < at(k)
    BY <1>1
<1> HIDE DEF a, at
<1>4. Picks(a, es, Len(es))
    BY <1>1, <1>2, <1>3 DEF Picks
<1> QED
    BY <1>4 DEF a

------------------------------------------------------------------------------
(* The transcript: its operations.                                            *)

LEMMA SoundIs ==
    ASSUME NEW t, Sound(t)
    PROVE  /\ t.entries \in Seq(Numbered) /\ t.seq \in Nat /\ t.crashed \in BOOLEAN
           /\ Len(t.entries) \in Nat /\ DOMAIN t.entries = 1..Len(t.entries)
           /\ \A i \in 1..Len(t.entries) :
                  /\ t.entries[i] \in Numbered /\ t.entries[i].block \in Blocks
                  /\ t.entries[i].inst \in 1..t.seq
<1>1. t.entries \in Seq(Numbered) /\ t.seq \in Nat /\ t.crashed \in BOOLEAN
    BY DEF Sound, Transcripts
<1>2. Len(t.entries) \in Nat /\ DOMAIN t.entries = 1..Len(t.entries)
    BY <1>1, LenProperties
<1>3. \A i \in 1..Len(t.entries) : t.entries[i] \in Numbered
    BY <1>1, ElementOfSeq
<1> QED
    BY <1>1, <1>2, <1>3 DEF Sound, Numbered

LEMMA RenewsOn ==
    ASSUME NEW t, NEW u, NEW v, Renews(t, u), Renews(u, v), Sound(t), Sound(u), Sound(v)
    PROVE  Renews(t, v)
<1>1. ASSUME NEW i \in DOMAIN v.entries
      PROVE  v.entries[i].inst > t.seq \/ \E j \in DOMAIN t.entries : v.entries[i] = t.entries[j]
    <2>1. CASE v.entries[i].inst > u.seq
        <3>1. v.entries[i].inst \in Nat /\ u.seq \in Nat /\ t.seq \in Nat
            BY SoundIs DEF Numbered
        <3>2. t.seq <= u.seq
            BY DEF Renews
        <3> QED
            BY <2>1, <3>1, <3>2
    <2>2. CASE \E j \in DOMAIN u.entries : v.entries[i] = u.entries[j]
        BY <2>2 DEF Renews
    <2> QED
        BY <1>1, <2>1, <2>2 DEF Renews
<1>2. t.seq <= v.seq
    BY SoundIs DEF Renews
<1> QED
    BY <1>1, <1>2 DEF Renews

\* A block goes to the end under the next instance ID.
Adds(t, b, u) ==
    /\ u \in Transcripts /\ u.seq = t.seq + 1
    /\ u.entries = Append(t.entries, Entry(t.seq + 1, b))

LEMMA AddsIs ==
    ASSUME NEW t, Sound(t), NEW b \in Blocks, NEW u, Adds(t, b, u)
    PROVE  LET n == Len(t.entries)
           IN  /\ u.entries \in Seq(Numbered) /\ Len(u.entries) = n + 1 /\ DOMAIN u.entries = 1..n + 1
               /\ \A i \in 1..n : u.entries[i] = t.entries[i]
               /\ u.entries[n + 1] = Entry(t.seq + 1, b)
<1>1. t.entries \in Seq(Numbered) /\ t.seq \in Nat /\ Len(t.entries) \in Nat
    BY SoundIs
<1> DEFINE e == Entry(t.seq + 1, b)
<1>2. e \in Numbered
    BY <1>1 DEF Entry, Numbered
<1> HIDE DEF e
<1>3. /\ Append(t.entries, e) \in Seq(Numbered) /\ Len(Append(t.entries, e)) = Len(t.entries) + 1
      /\ \A i \in 1..Len(t.entries) : Append(t.entries, e)[i] = t.entries[i]
      /\ Append(t.entries, e)[Len(t.entries) + 1] = e
    BY <1>1, <1>2, AppendProperties
<1>4. u.entries = Append(t.entries, e)
    BY DEF Adds, e
<1>5. DOMAIN u.entries = 1..Len(t.entries) + 1
    BY <1>3, <1>4, LenProperties
<1> QED
    BY <1>3, <1>4, <1>5 DEF e

LEMMA AddsSound ==
    ASSUME NEW t, Sound(t), NEW b \in Blocks, NEW u, Adds(t, b, u),
           b.id \in PillIds => \A i \in DOMAIN t.entries : t.entries[i].block.id # b.id
    PROVE  Sound(u) /\ Renews(t, u)
<1> DEFINE n == Len(t.entries)
<1>1. /\ n \in Nat /\ t.seq \in Nat /\ DOMAIN t.entries = 1..n
      /\ \A i \in 1..n : t.entries[i].inst \in 1..t.seq
    BY SoundIs
<1>2. /\ DOMAIN u.entries = 1..n + 1 /\ u.seq = t.seq + 1 /\ u \in Transcripts
      /\ \A i \in 1..n : u.entries[i] = t.entries[i]
      /\ u.entries[n + 1].inst = t.seq + 1 /\ u.entries[n + 1].block = b
    BY AddsIs DEF Adds, Entry
<1> HIDE DEF n
<1>3. \A i \in 1..n + 1 : i \in 1..n \/ i = n + 1
    BY <1>1
<1>4. \A i \in DOMAIN u.entries : u.entries[i].inst \in 1..u.seq
    <2>1. \A m \in 1..t.seq : m \in 1..t.seq + 1
        BY <1>1
    <2>2. \A i \in 1..n : u.entries[i].inst \in 1..t.seq + 1
        BY <1>1, <1>2, <2>1
    <2>3. t.seq + 1 \in 1..t.seq + 1
        BY <1>1
    <2> QED
        BY <1>2, <1>3, <2>2, <2>3
<1>5. KeepsIds(u.entries)
    <2>1. ASSUME NEW i \in 1..n + 1, NEW j \in 1..n + 1, i # j
          PROVE  /\ u.entries[i].inst # u.entries[j].inst
                 /\ u.entries[i].block.id = u.entries[j].block.id => u.entries[i].block.id \notin PillIds
        <3>1. CASE i \in 1..n /\ j \in 1..n
            <4>1. u.entries[i] = t.entries[i] /\ u.entries[j] = t.entries[j]
                BY <1>2, <3>1
            <4>2. i \in DOMAIN t.entries /\ j \in DOMAIN t.entries /\ KeepsIds(t.entries)
                BY <1>1, <3>1 DEF Sound
            <4> QED
                BY <2>1, <4>1, <4>2 DEF KeepsIds
        <3>2. CASE i \in 1..n /\ j = n + 1
            <4>1. u.entries[i] = t.entries[i] /\ u.entries[j].inst = t.seq + 1 /\ u.entries[j].block = b
                BY <1>2, <3>2
            <4>2. t.entries[i].inst # t.seq + 1
                BY <1>1, <3>2
            <4>3. t.entries[i].block.id = b.id => b.id \notin PillIds
                BY <1>1, <3>2
            <4> QED
                BY <4>1, <4>2, <4>3
        <3>3. CASE i = n + 1 /\ j \in 1..n
            <4>1. u.entries[j] = t.entries[j] /\ u.entries[i].inst = t.seq + 1 /\ u.entries[i].block = b
                BY <1>2, <3>3
            <4>2. t.entries[j].inst # t.seq + 1
                BY <1>1, <3>3
            <4>3. t.entries[j].block.id = b.id => b.id \notin PillIds
                BY <1>1, <3>3
            <4> QED
                BY <4>1, <4>2, <4>3
        <3> QED
            BY <1>3, <2>1, <3>1, <3>2, <3>3
    <2> QED
        BY <1>2, <2>1 DEF KeepsIds
<1>6. Renews(t, u)
    BY <1>1, <1>2, <1>3 DEF Renews
<1> QED
    BY <1>2, <1>4, <1>5, <1>6 DEF Sound

LEMMA Append1Adds ==
    ASSUME NEW t, Sound(t), NEW b \in Blocks
    PROVE  Adds(t, b, Append1(t, b)) /\ Append1(t, b).crashed = t.crashed
<1>1. t \in Transcripts /\ t.entries \in Seq(Numbered) /\ t.seq \in Nat
    BY SoundIs DEF Sound
<1>2. Entry(t.seq + 1, b) \in Numbered
    BY <1>1 DEF Entry, Numbered
<1>3. Append(t.entries, Entry(t.seq + 1, b)) \in Seq(Numbered)
    BY <1>1, <1>2, AppendProperties
<1> DEFINE es == Append(t.entries, Entry(t.seq + 1, b))
<1>4. Append1(t, b) = [t EXCEPT !.seq = t.seq + 1, !.entries = es]
    BY DEF Append1
<1> HIDE DEF es
<1>5. Append1(t, b) = [entries |-> es, seq |-> t.seq + 1, crashed |-> t.crashed]
    BY <1>1, <1>4 DEF Transcripts
<1>6. es \in Seq(Numbered) /\ t.seq + 1 \in Nat /\ t.crashed \in BOOLEAN
    BY <1>1, <1>3 DEF Transcripts, es
<1> QED
    BY <1>5, <1>6 DEF Adds, Transcripts, es

LEMMA AppendAllIs ==
    ASSUME NEW t, Sound(t), NEW b \in Blocks, NEW c \in Blocks
    PROVE  /\ AppendAll(t, <<>>) = t
           /\ AppendAll(t, <<b>>) = Append1(t, b)
           /\ AppendAll(t, <<b, c>>) = Append1(Append1(t, b), c)
<1>1. t \in Transcripts /\ t.entries \in Seq(Numbered) /\ t.seq \in Nat
    BY SoundIs DEF Sound
<1> DEFINE es == t.entries
           x == Entry(t.seq + 1, b)
           y == Entry((t.seq + 1) + 1, c)
<1>2. x \in Numbered /\ y \in Numbered
    BY <1>1 DEF Entry, Numbered
<1>3. es \o <<>> = es
    BY <1>1, ConcatEmptySeq
<1>4. AppendAll(t, <<>>) = t
    <2>1. [i \in DOMAIN <<>> |-> Entry(t.seq + i, <<>>[i])] = <<>> /\ Len(<<>>) = 0 /\ t.seq + 0 = t.seq
        BY <1>1
    <2>2. AppendAll(t, <<>>) = [t EXCEPT !.seq = t.seq, !.entries = es]
        BY <1>3, <2>1 DEF AppendAll
    <2> QED
        BY <1>1, <2>2 DEF Transcripts
<1>5. AppendAll(t, <<b>>) = Append1(t, b)
    <2>1. [i \in DOMAIN <<b>> |-> Entry(t.seq + i, <<b>>[i])] = <<x>> /\ Len(<<b>>) = 1
        BY <1>1
    <2>2. es \o <<x>> = Append(es, x)
        BY <1>1, <1>2, AppendIsConcat
    <2>3. AppendAll(t, <<b>>) = [t EXCEPT !.seq = t.seq + 1, !.entries = Append(es, x)]
        BY <2>1, <2>2 DEF AppendAll
    <2> QED
        BY <2>3 DEF Append1
<1>6. AppendAll(t, <<b, c>>) = Append1(Append1(t, b), c)
    <2>1. [i \in DOMAIN <<b, c>> |-> Entry(t.seq + i, <<b, c>>[i])] = <<x, y>> /\ Len(<<b, c>>) = 2
        BY <1>1
    <2>2. es \o <<x, y>> = Append(Append(es, x), y)
        BY <1>1, <1>2
    <2>3. AppendAll(t, <<b, c>>) = [t EXCEPT !.seq = t.seq + 2, !.entries = Append(Append(es, x), y)]
        BY <2>1, <2>2 DEF AppendAll
    <2>4. Append1(t, b) = [t EXCEPT !.seq = t.seq + 1, !.entries = Append(es, x)]
        BY DEF Append1
    <2>5. Append1(t, b).seq = t.seq + 1 /\ Append1(t, b).entries = Append(es, x)
        BY <1>1, <2>4 DEF Transcripts
    <2>6. Append1(Append1(t, b), c) = [Append1(t, b) EXCEPT !.seq = (t.seq + 1) + 1,
                                                           !.entries = Append(Append(es, x), y)]
        BY <2>5 DEF Append1
    <2>7. (t.seq + 1) + 1 = t.seq + 2
        BY <1>1
    <2> QED
        BY <1>1, <2>3, <2>4, <2>6, <2>7 DEF Transcripts
<1> QED
    BY <1>4, <1>5, <1>6

LEMMA LeastIs ==
    ASSUME NEW S \in SUBSET Nat, S # {}
    PROVE  Least(S) \in S /\ \A j \in S : Least(S) <= j
<1>1. PICK i \in S : \A j \in S : ~(<<j, i>> \in OpToRel(<, Nat))
    BY NatLessThanWellFounded, WFMin
<1>2. \A j \in S : i <= j
    <2>1. \A j \in S : j \in Nat /\ i \in Nat /\ ~(j < i)
        BY <1>1 DEF OpToRel
    <2> QED
        BY <2>1
<1> QED
    BY <1>2 DEF Least

LEMMA RenewsSame == ASSUME NEW t, Sound(t) PROVE Renews(t, t)
BY SoundIs DEF Renews

\* What is left when an entry is taken out.
Without(t, i) == [entries |-> RemoveAt(t.entries, i), seq |-> t.seq, crashed |-> t.crashed]

LEMMA WithoutIs ==
    ASSUME NEW t, Sound(t), NEW i \in 1..Len(t.entries)
    PROVE  /\ Sound(Without(t, i)) /\ Renews(t, Without(t, i))
           /\ \A but : TidyBut(t.entries, but) => TidyBut(Without(t, i).entries, but)
           /\ t.entries[i].block.id \in PillIds =>
                  \A j \in DOMAIN Without(t, i).entries :
                      Without(t, i).entries[j].block.id # t.entries[i].block.id
<1> DEFINE es == t.entries
           a == RemoveAt(es, i)
           n == Len(es)
           at(j) == IF j < i THEN j ELSE j + 1
<1>1. /\ es \in Seq(Numbered) /\ t.seq \in Nat /\ t.crashed \in BOOLEAN /\ n \in Nat /\ DOMAIN es = 1..n
      /\ \A j \in 1..n : es[j].inst \in 1..t.seq
    BY SoundIs
<1>2. /\ a \in Seq(Numbered) /\ Len(a) = n - 1 /\ DOMAIN a = 1..n - 1
      /\ \A j \in 1..n - 1 : a[j] = IF j < i THEN es[j] ELSE es[j + 1]
    <2>1. i \in 1..n
        OBVIOUS
    <2> HIDE DEF es
    <2>2. /\ a \in Seq(Numbered) /\ Len(a) = n - 1
          /\ \A j \in 1..n - 1 : a[j] = IF j < i THEN es[j] ELSE es[j + 1]
        BY <1>1, <2>1, RemoveAtIs
    <2>3. DOMAIN a = 1..Len(a)
        BY <2>2, LenProperties
    <2> QED
        BY <2>2, <2>3
<1>3. Picks(a, es, n)
    BY <1>1, PicksRemoved
<1>4. \A j \in DOMAIN a : at(j) \in 1..n /\ at(j) # i /\ a[j] = es[at(j)]
    <2> HIDE DEF a, es
    <2> QED
        BY <1>1, <1>2
<1>5. (\A but : TidyBut(es, but) => TidyBut(a, but)) /\ KeepsIds(a)
    BY <1>1, <1>2, <1>3, PicksKeep DEF Sound
<1> HIDE DEF a
<1>6. Without(t, i) = [entries |-> a, seq |-> t.seq, crashed |-> t.crashed]
    BY DEF Without, a
<1>7. \A j \in DOMAIN a : a[j].inst \in 1..t.seq
    BY <1>1, <1>4
<1>8. Sound(Without(t, i))
    BY <1>1, <1>2, <1>5, <1>6, <1>7 DEF Sound, Transcripts
<1>9. Renews(t, Without(t, i))
    BY <1>1, <1>4, <1>6 DEF Renews
<1>10. ASSUME es[i].block.id \in PillIds, NEW j \in DOMAIN a PROVE a[j].block.id # es[i].block.id
    <2>1. at(j) \in DOMAIN es /\ i \in DOMAIN es /\ at(j) # i /\ a[j] = es[at(j)] /\ KeepsIds(es)
        BY <1>1, <1>4 DEF Sound
    <2> HIDE DEF at
    <2> QED
        BY <1>10, <2>1 DEF KeepsIds
<1> QED
    BY <1>5, <1>6, <1>8, <1>9, <1>10

\* MoveToEnd: nothing, or an entry taken out and its block added.
LEMMA MovedIs ==
    ASSUME NEW t, Sound(t), NEW id
    PROVE  LET u == MoveToEnd(t, id)
           IN  /\ Sound(u) /\ Renews(t, u) /\ u.crashed = t.crashed
               /\ \/ u = t /\ (t.crashed \/ Matches(t.entries, id) = {})
                  \/ \E i \in 1..Len(t.entries) :
                        t.entries[i].block.id = id /\ Adds(Without(t, i), t.entries[i].block, u)
<1> DEFINE u == MoveToEnd(t, id)
           S == Matches(t.entries, id)
<1>1. CASE t.crashed \/ S = {}
    <2>1. u = t
        BY <1>1 DEF MoveToEnd
    <2> QED
        BY <1>1, <2>1, RenewsSame
<1>2. CASE ~(t.crashed \/ S = {})
    <2> DEFINE i == Least(S)
               b == t.entries[i].block
               r == Without(t, i)
    <2>1. t.entries \in Seq(Numbered) /\ DOMAIN t.entries = 1..Len(t.entries) /\ t \in Transcripts /\ t.seq \in Nat
        BY SoundIs DEF Sound
    <2>2. i \in S
        <3>1. S \in SUBSET Nat
            BY <2>1 DEF Matches
        <3> HIDE DEF S
        <3> QED
            BY <1>2, <3>1, LeastIs
    <2>3. i \in 1..Len(t.entries) /\ b.id = id /\ b \in Blocks
        BY <2>1, <2>2, SoundIs DEF Matches
    <2>4. u = [t EXCEPT !.seq = t.seq + 1, !.entries = Append(RemoveAt(t.entries, i), Entry(t.seq + 1, b))]
        BY <1>2 DEF MoveToEnd
    <2> HIDE DEF i, b, S
    <2>5. Sound(r) /\ Renews(t, r)
        BY <2>3, WithoutIs
    <2>6. b = t.entries[i].block
        BY DEF b
    <2>7. b.id \in PillIds => \A j \in DOMAIN r.entries : r.entries[j].block.id # b.id
        BY <2>3, <2>6, WithoutIs
    <2>8. r.seq = t.seq /\ r.entries = RemoveAt(t.entries, i) /\ r.crashed = t.crashed
        BY DEF Without
    <2> HIDE DEF r
    <2>9. u = Append1(r, b)
        <3>1. r \in Transcripts
            BY <2>5 DEF Sound
        <3> QED
            BY <2>1, <2>4, <2>8, <3>1 DEF Append1, Transcripts
    <2>10. Adds(r, b, u) /\ u.crashed = t.crashed
        BY <2>3, <2>5, <2>8, <2>9, Append1Adds
    <2> HIDE DEF u
    <2>11. Sound(u) /\ Renews(r, u)
        BY <2>3, <2>5, <2>7, <2>10, AddsSound
    <2>12. Renews(t, u)
        BY <2>5, <2>11, RenewsOn
    <2> QED
        BY <2>3, <2>6, <2>10, <2>11, <2>12 DEF u, r
<1> QED
    BY <1>1, <1>2

\* The pill of a task goes below what the task has said.
LEMMA MovedTidy ==
    ASSUME NEW t, Sound(t), ~t.crashed, NEW k \in Tasks, TidyBut(t.entries, k)
    PROVE  Tidy(MoveToEnd(t, PillId(k)).entries)
<1> DEFINE u == MoveToEnd(t, PillId(k))
<1>0. PillId(k) \in PillIds /\ PillId(k) \notin ArtifactIds
    BY IdsDiffer DEF PillIds, ArtifactIds
<1>1. ASSUME NEW s, Sound(s), TidyBut(s.entries, k), \A i \in DOMAIN s.entries : s.entries[i].block.id # PillId(k)
      PROVE  /\ Tidy(s.entries)
             /\ \A i \in DOMAIN s.entries : s.entries[i].block.content = "completed" => s.entries[i].block.of # k
    <2>1. ASSUME NEW i \in DOMAIN s.entries, s.entries[i].block.content = "completed"
          PROVE  s.entries[i].block.of # k
        <3>1. s.entries[i].block \in Blocks
            BY SoundIs, <1>1
        <3>2. s.entries[i].block.id = PillId(s.entries[i].block.of)
            BY <2>1, <3>1, BlockFacts
        <3> QED
            BY <1>1, <3>2
    <2> QED
        BY <1>1, <2>1 DEF Tidy, TidyBut
<1>2. CASE u = t /\ Matches(t.entries, PillId(k)) = {}
    <2>1. \A i \in DOMAIN t.entries : t.entries[i].block.id # PillId(k)
        BY <1>2 DEF Matches
    <2> QED
        BY <1>1, <1>2, <2>1
<1>3. ASSUME NEW i \in 1..Len(t.entries), t.entries[i].block.id = PillId(k),
             Adds(Without(t, i), t.entries[i].block, u)
      PROVE  Tidy(u.entries)
    <2> DEFINE r == Without(t, i)
               b == t.entries[i].block
               n == Len(r.entries)
    <2>1. Sound(r) /\ TidyBut(r.entries, k) /\ \A j \in DOMAIN r.entries : r.entries[j].block.id # PillId(k)
        BY <1>0, <1>3, WithoutIs
    <2>2. b \in Blocks /\ b.id = PillId(k) /\ b.of = k
        BY <1>3, SoundIs, BlockFacts
    <2>3. Adds(r, b, u)
        BY <1>3
    <2> HIDE DEF r, b, u
    <2>4. /\ Tidy(r.entries)
          /\ \A j \in DOMAIN r.entries : r.entries[j].block.content = "completed" => r.entries[j].block.of # k
        BY <1>1, <2>1
    <2>5. /\ n \in Nat /\ DOMAIN r.entries = 1..n /\ DOMAIN u.entries = 1..n + 1
          /\ \A j \in 1..n : u.entries[j] = r.entries[j]
          /\ u.entries[n + 1].block = b
        <3>1. /\ DOMAIN u.entries = 1..n + 1 /\ (\A j \in 1..n : u.entries[j] = r.entries[j])
              /\ u.entries[n + 1] = Entry(r.seq + 1, b)
            BY <2>1, <2>2, <2>3, AddsIs
        <3>2. n \in Nat /\ DOMAIN r.entries = 1..n
            BY <2>1, SoundIs
        <3> QED
            BY <3>1, <3>2 DEF Entry
    <2> HIDE DEF n
    <2>6. ASSUME NEW j \in 1..n + 1, NEW l \in 1..n + 1, j < l
          PROVE  /\ u.entries[j].block.id = u.entries[l].block.id => u.entries[j].block.id \notin ArtifactIds
                 /\ u.entries[j].block.content = "completed" =>
                        u.entries[j].block.of = "none" \/ u.entries[j].block.of # u.entries[l].block.of
        <3>1. j \in 1..n /\ u.entries[j] = r.entries[j]
            BY <2>5, <2>6
        <3>2. CASE l \in 1..n
            <4>1. u.entries[l] = r.entries[l] /\ j \in DOMAIN r.entries /\ l \in DOMAIN r.entries
                BY <2>5, <3>1, <3>2
            <4> QED
                BY <2>4, <2>6, <3>1, <4>1 DEF Tidy, TidyBut
        <3>3. CASE l = n + 1
            <4>1. u.entries[l].block = b /\ j \in DOMAIN r.entries
                BY <2>5, <3>1, <3>3
            <4> QED
                BY <1>0, <2>1, <2>2, <2>4, <3>1, <4>1
        <3> QED
            BY <2>5, <2>6, <3>2, <3>3
    <2> QED
        BY <2>5, <2>6 DEF Tidy, TidyBut
<1>4. \/ u = t /\ Matches(t.entries, PillId(k)) = {}
      \/ \E i \in 1..Len(t.entries) :
            t.entries[i].block.id = PillId(k) /\ Adds(Without(t, i), t.entries[i].block, u)
    BY MovedIs
<1> QED
    BY <1>2, <1>3, <1>4

\* The loop of ReplaceByID keeps within T.
Started(es) == [entries |-> es, replaced |-> FALSE, crashed |-> FALSE]
Stays(T, es, new) == Started(es) \in T /\ \A a \in T, i \in 1..Len(es) : Visit(a, i, new) \in T
Loops(f, T, es, new) ==
    /\ f \in [0..Len(es) -> T] /\ f[0] = Started(es)
    /\ \A i \in 1..Len(es) : f[i] = Visit(f[i - 1], i, new)

LEMMA VisitedLoops ==
    ASSUME NEW es, Len(es) \in Nat, NEW new, NEW T, Stays(T, es, new)
    PROVE  \E f : Loops(f, T, es, new) /\ Visited(es, new) = f[Len(es)]
<1> DEFINE N == Len(es)
           G == [p \in T \X (1..N) |-> Visit(p[1], p[2], new)]
           Fits(f) == f = [i \in 0..N |-> IF i = 0 THEN Started(es) ELSE Visit(f[i - 1], i, new)]
           at == CHOOSE f : Fits(f)
<1>1. \A a \in T, i \in 1..N : G[<<a, i>>] = Visit(a, i, new)
    OBVIOUS
<1>2. Steps(1..N, T, Started(es), G)
    <2> HIDE DEF G
    <2> QED
        BY <1>1 DEF Steps, Stays
<1>3. PICK g : Runs(g, N, T, Started(es), G)
    <2> HIDE DEF G, N
    <2> QED
        BY <1>2, RunExists DEF N
<1> HIDE DEF G
<1>4. Fits(g)
    <2>1. g = [i \in 0..N |-> g[i]] /\ g[0] = Started(es)
        BY <1>3 DEF Runs
    <2>2. ASSUME NEW i \in 0..N PROVE g[i] = IF i = 0 THEN Started(es) ELSE Visit(g[i - 1], i, new)
        <3>1. CASE i = 0
            BY <2>1, <3>1
        <3>2. CASE i # 0
            <4>1. i \in 1..N /\ i - 1 \in 0..N
                BY <3>2
            <4>2. g[i] = G[<<g[i - 1], i>>] /\ g[i - 1] \in T
                BY <1>3, <4>1 DEF Runs
            <4> QED
                BY <1>1, <3>2, <4>1, <4>2
        <3> QED
            BY <3>1, <3>2
    <2> QED
        BY <2>1, <2>2
<1>5. Fits(at)
    <2> HIDE DEF Fits
    <2> QED
        BY <1>4
<1>6. Visited(es, new) = at[N]
    BY DEF Visited, Started
<1> HIDE DEF at
<1>7. at[0] = Started(es) /\ \A i \in 1..N : at[i] = Visit(at[i - 1], i, new)
    <2>1. 0 \in 0..N /\ \A i \in 1..N : i \in 0..N /\ i # 0
        OBVIOUS
    <2> QED
        BY <1>5, <2>1
<1>8. \A i \in 0..N : at[i] \in T
    <2> DEFINE P == {i \in Nat : i <= N => at[i] \in T}
    <2>1. 0 \in P
        BY <1>7 DEF Stays
    <2>2. ASSUME NEW i \in Nat, i \in P PROVE i + 1 \in P
        <3>1. SUFFICES ASSUME i + 1 <= N PROVE at[i + 1] \in T
            OBVIOUS
        <3>2. i + 1 \in 1..N /\ (i + 1) - 1 = i /\ i <= N
            BY <3>1
        <3>3. at[i + 1] = Visit(at[i], i + 1, new) /\ at[i] \in T
            BY <1>7, <2>2, <3>2
        <3> QED
            BY <3>2, <3>3 DEF Stays
    <2>3. Nat \subseteq P
        <3> HIDE DEF P
        <3> QED
            BY <2>1, <2>2, NatSteps
    <2> QED
        BY <2>3
<1>9. at \in [0..N -> T]
    <2>1. at = [i \in 0..N |-> at[i]]
        <3>1. at = [i \in 0..N |-> IF i = 0 THEN Started(es) ELSE Visit(at[i - 1], i, new)]
            BY <1>5
        <3> QED
            BY <3>1
    <2> QED
        BY <1>8, <2>1
<1>10. Loops(at, T, es, new)
    BY <1>7, <1>9 DEF Loops
<1> QED
    BY <1>6, <1>10

\* Where the loop may be: before the first match nothing has changed; what is left is
\* sound at any time.
Part(acc, n) == [entries |-> acc.entries, seq |-> n, crashed |-> acc.crashed]
Parts(t) ==
    {acc \in [entries : Seq(Numbered), replaced : BOOLEAN, crashed : BOOLEAN] :
        /\ ~acc.replaced => acc.entries = t.entries
        /\ Sound(Part(acc, t.seq + 1)) /\ Renews(t, Part(acc, t.seq + 1))}

\* An entry in place of another of the same logical ID.
Puts(t, i, b, u) ==
    u = [entries |-> [t.entries EXCEPT ![i] = Entry(t.seq + 1, b)], seq |-> t.seq + 1,
         crashed |-> t.crashed]

LEMMA PutsIs ==
    ASSUME NEW t, Sound(t), NEW b \in Blocks, NEW i \in 1..Len(t.entries),
           t.entries[i].block.id = b.id, NEW u, Puts(t, i, b, u)
    PROVE  /\ Sound(u) /\ Renews(t, u)
           /\ DOMAIN u.entries = 1..Len(t.entries) /\ u.entries[i] = Entry(t.seq + 1, b)
           /\ \A j \in 1..Len(t.entries) : j # i => u.entries[j] = t.entries[j]
<1> DEFINE n == Len(t.entries)
           e == Entry(t.seq + 1, b)
<1>1. /\ t.entries \in Seq(Numbered) /\ t.seq \in Nat /\ t.crashed \in BOOLEAN /\ n \in Nat
      /\ DOMAIN t.entries = 1..n /\ \A j \in 1..n : t.entries[j].inst \in 1..t.seq
    BY SoundIs
<1>2. e \in Numbered /\ e.inst = t.seq + 1 /\ e.block = b
    BY <1>1 DEF Entry, Numbered
<1> HIDE DEF e
<1>3. u = [entries |-> [t.entries EXCEPT ![i] = e], seq |-> t.seq + 1, crashed |-> t.crashed]
    BY DEF Puts, e
<1>4. /\ u.entries \in Seq(Numbered) /\ DOMAIN u.entries = 1..n /\ u.entries[i] = e
      /\ \A j \in 1..n : j # i => u.entries[j] = t.entries[j]
    BY <1>1, <1>2, <1>3
<1>5. u \in Transcripts
    BY <1>1, <1>3, <1>4 DEF Transcripts
<1> HIDE DEF n
<1>6. \A j \in 1..n : u.entries[j].inst \in 1..t.seq + 1
    BY <1>1, <1>2, <1>4
<1>7. ASSUME NEW j \in 1..n, NEW k \in 1..n, j # k
      PROVE  /\ u.entries[j].inst # u.entries[k].inst
             /\ u.entries[j].block.id = u.entries[k].block.id => u.entries[j].block.id \notin PillIds
    <2>1. /\ t.entries[j].inst # t.entries[k].inst
          /\ t.entries[j].block.id = t.entries[k].block.id => t.entries[j].block.id \notin PillIds
        BY <1>1, <1>7 DEF Sound, KeepsIds
    <2>2. u.entries[j].block.id = t.entries[j].block.id /\ u.entries[k].block.id = t.entries[k].block.id
        BY <1>2, <1>4
    <2>3. u.entries[j].inst # u.entries[k].inst
        <3>1. CASE j = i
            BY <1>1, <1>2, <1>4, <1>7, <3>1
        <3>2. CASE k = i
            BY <1>1, <1>2, <1>4, <1>7, <3>2
        <3>3. CASE j # i /\ k # i
            BY <1>4, <2>1, <3>3
        <3> QED
            BY <3>1, <3>2, <3>3
    <2> QED
        BY <2>1, <2>2, <2>3
<1>8. KeepsIds(u.entries)
    BY <1>4, <1>7 DEF KeepsIds
<1>9. u.seq = t.seq + 1
    BY <1>3
<1>10. Sound(u)
    BY <1>4, <1>5, <1>6, <1>8, <1>9 DEF Sound
<1>11. Renews(t, u)
    BY <1>1, <1>2, <1>4, <1>9 DEF Renews
<1> QED
    BY <1>4, <1>10, <1>11 DEF n, e

LEMMA PartsStay ==
    ASSUME NEW t, Sound(t), NEW b \in Blocks
    PROVE  Stays(Parts(t), t.entries, Entry(t.seq + 1, b))
<1> DEFINE new == Entry(t.seq + 1, b)
           es == t.entries
           Accs == [entries : Seq(Numbered), replaced : BOOLEAN, crashed : BOOLEAN]
<1>1. /\ es \in Seq(Numbered) /\ t.seq \in Nat /\ t.crashed \in BOOLEAN /\ Len(es) \in Nat
      /\ DOMAIN es = 1..Len(es) /\ \A j \in 1..Len(es) : es[j].inst \in 1..t.seq
    BY SoundIs
<1>2. new.block.id = b.id
    BY DEF Entry
<1>3. Started(es) \in Parts(t)
    <2>1. Part(Started(es), t.seq + 1) = [entries |-> es, seq |-> t.seq + 1, crashed |-> FALSE]
        BY DEF Part, Started
    <2>2. Sound(Part(Started(es), t.seq + 1))
        <3> DEFINE q == Part(Started(es), t.seq + 1)
        <3>0. t.seq + 1 \in Nat
            BY <1>1
        <3>1. q.entries = es /\ q.seq = t.seq + 1 /\ q \in Transcripts
            <4> HIDE DEF q, es
            <4>1. q = [entries |-> es, seq |-> t.seq + 1, crashed |-> FALSE]
                BY <2>1 DEF q
            <4> QED
                BY <1>1, <3>0, <4>1 DEF Transcripts
        <3>2. \A j \in 1..Len(es) : es[j].inst \in 1..t.seq + 1
            BY <1>1
        <3>3. KeepsIds(es)
            BY DEF Sound
        <3> HIDE DEF q, es
        <3>4. Sound(q)
            BY <1>1, <3>1, <3>2, <3>3 DEF Sound
        <3> QED
            BY <3>4 DEF q
    <2>3. Renews(t, Part(Started(es), t.seq + 1))
        BY <1>1, <2>1 DEF Renews
    <2> QED
        BY <1>1, <2>2, <2>3 DEF Parts, Started
<1>4. ASSUME NEW acc \in Parts(t), NEW i \in 1..Len(es)
      PROVE  Visit(acc, i, new) \in Parts(t)
    <2> DEFINE p == Part(acc, t.seq + 1)
    <2>1. /\ acc \in Accs /\ (~acc.replaced => acc.entries = es)
          /\ Sound(p) /\ Renews(t, p) /\ p.entries = acc.entries /\ p.seq = t.seq + 1 /\ p.crashed = acc.crashed
        BY DEF Parts, Part
    <2>2. CASE acc.crashed \/ i > Len(acc.entries)
        <3> DEFINE next == [acc EXCEPT !.crashed = TRUE]
        <3>1. Visit(acc, i, new) = next
            BY <2>2 DEF Visit
        <3>2. Part(next, t.seq + 1) = [entries |-> p.entries, seq |-> p.seq, crashed |-> TRUE]
            <4>1. next.entries = acc.entries /\ next.crashed = TRUE
                BY <2>1
            <4> HIDE DEF next, p
            <4> QED
                BY <2>1, <4>1 DEF Part
        <3>3. next \in Accs /\ next.replaced = acc.replaced /\ next.entries = acc.entries
            BY <2>1
        <3>4. Sound(Part(next, t.seq + 1)) /\ Renews(t, Part(next, t.seq + 1))
            <4> DEFINE q == Part(next, t.seq + 1)
            <4>1. p \in Transcripts
                BY <2>1 DEF Sound
            <4>2. q = [entries |-> p.entries, seq |-> p.seq, crashed |-> TRUE]
                BY <3>2
            <4> HIDE DEF p, q
            <4>3. q \in Transcripts /\ q.entries = p.entries /\ q.seq = p.seq
                BY <4>1, <4>2 DEF Transcripts
            <4>4. Sound(q) /\ Renews(t, q)
                BY <2>1, <4>3 DEF Sound, Renews
            <4> QED
                BY <4>4 DEF q
        <3> HIDE DEF next
        <3> QED
            BY <2>1, <3>1, <3>3, <3>4 DEF Parts
    <2>3. CASE /\ ~(acc.crashed \/ i > Len(acc.entries)) /\ acc.entries[i].block.id # new.block.id
        BY <2>3 DEF Visit
    <2>4. CASE /\ ~(acc.crashed \/ i > Len(acc.entries)) /\ acc.entries[i].block.id = new.block.id
               /\ acc.replaced
        <3> DEFINE next == [acc EXCEPT !.entries = RemoveAt(acc.entries, i)]
                   q == Without(p, i)
        <3>1. Visit(acc, i, new) = next
            BY <2>4 DEF Visit
        <3>2. i \in 1..Len(p.entries)
            <4>1. Len(acc.entries) \in Nat
                BY <2>1, LenProperties
            <4> QED
                BY <1>1, <2>1, <2>4, <4>1
        <3> HIDE DEF p
        <3>3. Sound(q) /\ Renews(p, q)
            BY <2>1, <3>2, WithoutIs
        <3>4. Renews(t, q)
            BY <2>1, <3>3, RenewsOn
        <3>5. q.entries = RemoveAt(acc.entries, i) /\ q.entries \in Seq(Numbered)
            BY <2>1, <3>3, SoundIs DEF Without
        <3>6. next \in Accs /\ next.replaced
            BY <2>1, <2>4, <3>5
        <3>7. Part(next, t.seq + 1) = q
            BY <2>1, <3>5 DEF Part, Without
        <3> HIDE DEF next, q
        <3> QED
            BY <3>1, <3>3, <3>4, <3>6, <3>7 DEF Parts
    <2>5. CASE /\ ~(acc.crashed \/ i > Len(acc.entries)) /\ acc.entries[i].block.id = new.block.id
               /\ ~acc.replaced
        <3> DEFINE next == [acc EXCEPT !.entries = [acc.entries EXCEPT ![i] = new], !.replaced = TRUE]
                   s == [t EXCEPT !.crashed = FALSE]
                   q == [entries |-> [es EXCEPT ![i] = new], seq |-> t.seq + 1, crashed |-> FALSE]
        <3>1. Visit(acc, i, new) = next
            BY <2>5 DEF Visit
        <3>2. acc.entries = es /\ es[i].block.id = b.id
            BY <1>2, <2>1, <2>5
        <3>3. Sound(s) /\ s.entries = es /\ s.seq = t.seq /\ s.crashed = FALSE
            BY <1>1 DEF Sound, Transcripts
        <3>4. Puts(s, i, b, q)
            BY <3>3 DEF Puts
        <3> HIDE DEF s
        <3>5. Sound(q) /\ Renews(s, q)
            BY <3>2, <3>3, <3>4, PutsIs
        <3>6. Renews(t, q)
            BY <3>3, <3>5 DEF Renews
        <3>7. q.entries \in Seq(Numbered)
            BY <3>5, SoundIs
        <3>8. next \in Accs /\ next.replaced
            BY <2>1, <3>2, <3>7
        <3>9. Part(next, t.seq + 1) = q
            <4>1. acc.crashed = FALSE
                BY <2>1, <2>5
            <4> QED
                BY <2>1, <3>2, <4>1 DEF Part
        <3> HIDE DEF next, q
        <3> QED
            BY <3>1, <3>5, <3>6, <3>8, <3>9 DEF Parts
    <2> QED
        BY <2>2, <2>3, <2>4, <2>5
<1> QED
    BY <1>3, <1>4 DEF Stays

LEMMA NewEntry ==
    ASSUME NEW t, Sound(t), NEW b \in Blocks
    PROVE  Entry(t.seq + 1, b) \in Numbered
<1>1. t.seq + 1 \in Nat
    BY SoundIs
<1> QED
    BY <1>1 DEF Entry, Numbered

\* ReplaceByID of what is not a pill, whatever duplicates there are.
LEMMA ReplacedSound ==
    ASSUME NEW t, Sound(t), NEW b \in Blocks, b.id \notin PillIds
    PROVE  Sound(ReplaceByID(t, b)) /\ Renews(t, ReplaceByID(t, b))
<1> DEFINE new == Entry(t.seq + 1, b)
           end == Visited(t.entries, new)
           u == ReplaceByID(t, b)
<1>1. t.entries \in Seq(Numbered) /\ t.seq \in Nat /\ Len(t.entries) \in Nat /\ new \in Numbered
    BY SoundIs, NewEntry
<1>2. end \in Parts(t)
    <2>1. Stays(Parts(t), t.entries, new)
        BY PartsStay
    <2> HIDE DEF new
    <2>2. PICK f : Loops(f, Parts(t), t.entries, new) /\ Visited(t.entries, new) = f[Len(t.entries)]
        BY <1>1, <2>1, VisitedLoops
    <2>3. Len(t.entries) \in 0..Len(t.entries)
        BY <1>1
    <2> QED
        BY <2>2, <2>3 DEF Loops
<1>3. u = [entries |-> IF end.replaced THEN end.entries ELSE Append(end.entries, new),
           seq |-> t.seq + 1, crashed |-> end.crashed]
    BY DEF ReplaceByID
<1> HIDE DEF end, new, u
<1>4. /\ end.crashed \in BOOLEAN /\ end.entries \in Seq(Numbered) /\ (~end.replaced => end.entries = t.entries)
      /\ Sound(Part(end, t.seq + 1)) /\ Renews(t, Part(end, t.seq + 1))
    BY <1>2 DEF Parts
<1>5. CASE end.replaced
    <2>1. u = Part(end, t.seq + 1)
        BY <1>3, <1>5 DEF Part
    <2> QED
        BY <1>4, <2>1 DEF u
<1>6. CASE ~end.replaced
    <2>1. u = [entries |-> Append(t.entries, new), seq |-> t.seq + 1, crashed |-> end.crashed]
        BY <1>3, <1>4, <1>6
    <2>2. Append(t.entries, new) \in Seq(Numbered) /\ t.seq + 1 \in Nat
        BY <1>1, AppendProperties
    <2>3. Adds(t, b, u)
        BY <1>4, <2>1, <2>2 DEF Adds, Transcripts, new
    <2> QED
        BY <2>3, AddsSound DEF u
<1> QED
    BY <1>5, <1>6

\* ReplaceByID where at most one entry matches: it runs to its end, and puts or adds.
AtMostOne(t, id) ==
    \A i, j \in DOMAIN t.entries : t.entries[i].block.id = id /\ t.entries[j].block.id = id => i = j

LEMMA ReplacedOne ==
    ASSUME NEW t, Sound(t), ~t.crashed, NEW b \in Blocks, AtMostOne(t, b.id)
    PROVE  LET u == ReplaceByID(t, b)
           IN  \/ Adds(t, b, u) /\ ~u.crashed /\ \A i \in DOMAIN t.entries : t.entries[i].block.id # b.id
               \/ \E i \in 1..Len(t.entries) : t.entries[i].block.id = b.id /\ Puts(t, i, b, u)
<1> DEFINE new == Entry(t.seq + 1, b)
           es == t.entries
           N == Len(t.entries)
           u == ReplaceByID(t, b)
<1>1. es \in Seq(Numbered) /\ t.seq \in Nat /\ N \in Nat /\ new \in Numbered /\ DOMAIN es = 1..N
    BY SoundIs, NewEntry
<1>2. new.block.id = b.id
    BY DEF Entry
<1>3. u = [entries |-> IF Visited(es, new).replaced THEN Visited(es, new).entries
                       ELSE Append(Visited(es, new).entries, new),
           seq |-> t.seq + 1, crashed |-> Visited(es, new).crashed]
    BY DEF ReplaceByID
<1>4. PICK f : Loops(f, Parts(t), es, new) /\ Visited(es, new) = f[N]
    <2>1. Stays(Parts(t), es, new)
        BY PartsStay
    <2> HIDE DEF new, es
    <2> QED
        BY <1>1, <2>1, VisitedLoops DEF es
<1> HIDE DEF new
<1>5. f[0] = Started(es) /\ \A i \in 0..N : i + 1 <= N => f[i + 1] = Visit(f[i], i + 1, new)
    <2>1. \A i \in 0..N : i + 1 <= N => i + 1 \in 1..N /\ (i + 1) - 1 = i
        BY <1>1
    <2> QED
        BY <1>4, <2>1 DEF Loops
<1>6. CASE \A i \in DOMAIN es : es[i].block.id # b.id
    <2> DEFINE P == {i \in Nat : i <= N => f[i] = Started(es)}
    <2>1. 0 \in P
        BY <1>5
    <2>2. ASSUME NEW i \in Nat, i \in P PROVE i + 1 \in P
        <3>1. SUFFICES ASSUME i + 1 <= N PROVE f[i + 1] = Started(es)
            OBVIOUS
        <3>2. i + 1 \in 1..N /\ i \in 0..N /\ i <= N /\ ~(i + 1 > N)
            BY <1>1, <3>1
        <3>3. f[i + 1] = Visit(Started(es), i + 1, new)
            BY <1>5, <2>2, <3>1, <3>2
        <3>4. es[i + 1].block.id # new.block.id
            BY <1>1, <1>2, <1>6, <3>2
        <3> QED
            BY <3>2, <3>3, <3>4 DEF Visit, Started
    <2>3. Nat \subseteq P
        <3> HIDE DEF P
        <3> QED
            BY <2>1, <2>2, NatSteps
    <2>4. f[N] = Started(es)
        BY <1>1, <2>3
    <2>5. u = [entries |-> Append(es, new), seq |-> t.seq + 1, crashed |-> FALSE]
        BY <1>3, <1>4, <2>4 DEF Started
    <2>6. Append(es, new) \in Seq(Numbered) /\ t.seq + 1 \in Nat
        BY <1>1, AppendProperties
    <2>7. Adds(t, b, u) /\ ~u.crashed
        BY <2>5, <2>6 DEF Adds, Transcripts, new
    <2> QED
        BY <1>6, <2>7
<1>7. ASSUME NEW m \in 1..N, es[m].block.id = b.id PROVE Puts(t, m, b, u)
    <2> DEFINE done == [entries |-> [es EXCEPT ![m] = new], replaced |-> TRUE, crashed |-> FALSE]
               P == {i \in Nat : i <= N => f[i] = IF m <= i THEN done ELSE Started(es)}
    <2>1. 0 \in P
        BY <1>5
    <2>2. ASSUME NEW i \in Nat, i \in P PROVE i + 1 \in P
        <3>1. SUFFICES ASSUME i + 1 <= N PROVE f[i + 1] = IF m <= i + 1 THEN done ELSE Started(es)
            OBVIOUS
        <3>2. i + 1 \in 1..N /\ i \in 0..N /\ i <= N /\ ~(i + 1 > N)
            BY <1>1, <3>1
        <3>3. f[i + 1] = Visit(f[i], i + 1, new)
            BY <1>5, <3>1, <3>2
        <3>4. f[i] = IF m <= i THEN done ELSE Started(es)
            BY <2>2, <3>2
        <3>5. i + 1 # m => es[i + 1].block.id # b.id
            BY <1>1, <1>7, <3>2 DEF AtMostOne
        <3>6. Len([es EXCEPT ![m] = new]) = N /\ \A j \in 1..N : j # m => [es EXCEPT ![m] = new][j] = es[j]
            BY <1>1
        <3>7. CASE i + 1 < m
            <4>1. f[i] = Started(es) /\ ~(m <= i + 1)
                BY <3>2, <3>4, <3>7
            <4> QED
                BY <1>2, <3>2, <3>3, <3>5, <3>7, <4>1 DEF Visit, Started
        <3>8. CASE i + 1 = m
            <4>1. f[i] = Started(es) /\ m <= i + 1
                BY <3>2, <3>4, <3>8
            <4>2. es[i + 1].block.id = new.block.id /\ ~(i + 1 > Len(es))
                BY <1>2, <1>7, <3>2, <3>8
            <4> HIDE DEF es
            <4>3. Visit(Started(es), i + 1, new)
                    = [Started(es) EXCEPT !.entries = [es EXCEPT ![i + 1] = new], !.replaced = TRUE]
                BY <4>2 DEF Visit, Started
            <4>4. Visit(Started(es), i + 1, new) = done
                BY <3>8, <4>3 DEF Started
            <4> QED
                BY <3>3, <4>1, <4>4
        <3>9. CASE i + 1 > m
            <4>1. f[i] = done /\ m <= i + 1 /\ i + 1 # m
                BY <3>2, <3>4, <3>9
            <4>2. done.entries[i + 1].block.id # new.block.id
                BY <1>2, <3>2, <3>5, <3>6, <4>1
            <4>3. ~(done.crashed \/ i + 1 > Len(done.entries))
                BY <3>2, <3>6
            <4> HIDE DEF done
            <4>4. Visit(done, i + 1, new) = done
                BY <4>2, <4>3 DEF Visit
            <4> QED
                BY <3>3, <4>1, <4>4
        <3> QED
            BY <3>2, <3>7, <3>8, <3>9
    <2>3. Nat \subseteq P
        <3> HIDE DEF P
        <3> QED
            BY <2>1, <2>2, NatSteps
    <2>4. f[N] = done
        <3>1. N \in P
            <4> HIDE DEF P
            <4> QED
                BY <1>1, <2>3
        <3>2. m <= N /\ N <= N
            BY <1>1
        <3> HIDE DEF done
        <3> QED
            BY <3>1, <3>2
    <2>5. u = [entries |-> [es EXCEPT ![m] = new], seq |-> t.seq + 1, crashed |-> FALSE]
        BY <1>3, <1>4, <2>4
    <2>6. t.crashed = FALSE
        BY SoundIs
    <2> QED
        BY <2>5, <2>6 DEF Puts, new
<1> HIDE DEF u
<1>8. CASE \E i \in 1..N : es[i].block.id = b.id
    <2>1. PICK m \in 1..N : es[m].block.id = b.id
        BY <1>8
    <2> QED
        BY <1>7, <2>1 DEF u
<1> QED
    BY <1>1, <1>6, <1>8 DEF u

\* A pill has no double, so ReplaceByID of one always runs to its end.
LEMMA PillsReplaced ==
    ASSUME NEW t, Sound(t), ~t.crashed, NEW b \in Blocks, AtMostOne(t, b.id)
    PROVE  /\ Sound(ReplaceByID(t, b)) /\ Renews(t, ReplaceByID(t, b)) /\ ~ReplaceByID(t, b).crashed
           /\ \E i \in DOMAIN ReplaceByID(t, b).entries :
                  ReplaceByID(t, b).entries[i].block = b
<1> DEFINE u == ReplaceByID(t, b)
<1>1. CASE Adds(t, b, u) /\ ~u.crashed /\ \A i \in DOMAIN t.entries : t.entries[i].block.id # b.id
    <2> HIDE DEF u
    <2>1. Sound(u) /\ Renews(t, u)
        BY <1>1, AddsSound
    <2>2. Len(t.entries) + 1 \in DOMAIN u.entries /\ u.entries[Len(t.entries) + 1].block = b
        <3>1. Len(t.entries) \in Nat
            BY SoundIs
        <3>2. /\ DOMAIN u.entries = 1..Len(t.entries) + 1
              /\ u.entries[Len(t.entries) + 1] = Entry(t.seq + 1, b)
            BY <1>1, AddsIs
        <3> QED
            BY <3>1, <3>2 DEF Entry
    <2> QED
        BY <1>1, <2>1, <2>2 DEF u
<1>2. ASSUME NEW i \in 1..Len(t.entries), t.entries[i].block.id = b.id, Puts(t, i, b, u)
      PROVE  Sound(u) /\ Renews(t, u) /\ ~u.crashed /\ \E j \in DOMAIN u.entries : u.entries[j].block = b
    <2> HIDE DEF u
    <2>1. Sound(u) /\ Renews(t, u) /\ DOMAIN u.entries = 1..Len(t.entries) /\ u.entries[i] = Entry(t.seq + 1, b)
        BY <1>2, PutsIs
    <2>2. ~u.crashed
        BY <1>2 DEF Puts
    <2> QED
        BY <2>1, <2>2 DEF Entry
<1> HIDE DEF u
<1>3. \/ Adds(t, b, u) /\ ~u.crashed /\ \A i \in DOMAIN t.entries : t.entries[i].block.id # b.id
      \/ \E i \in 1..Len(t.entries) : t.entries[i].block.id = b.id /\ Puts(t, i, b, u)
    BY ReplacedOne DEF u
<1> QED
    BY <1>1, <1>2, <1>3 DEF u

\* Verdicts and additions.
LEMMA TidyApart ==
    ASSUME NEW t, Sound(t), NEW but
    PROVE  Tidy(t.entries) => TidyBut(t.entries, but)
<1>1. "none" \notin Tasks
    BY TranscriptAssumption
<1>2. \A i \in DOMAIN t.entries :
          t.entries[i].block.content = "completed" => t.entries[i].block.of \in Tasks
    BY SoundIs, BlockFacts
<1> QED
    BY <1>1, <1>2 DEF Tidy, TidyBut

LEMMA AddsTidy ==
    ASSUME NEW t, Sound(t), NEW b \in Blocks, NEW u, Adds(t, b, u), TidyBut(t.entries, b.of),
           b.id \in ArtifactIds => \A i \in DOMAIN t.entries : t.entries[i].block.id # b.id
    PROVE  TidyBut(u.entries, b.of)
<1> DEFINE n == Len(t.entries)
<1>1. n \in Nat /\ DOMAIN t.entries = 1..n
    BY SoundIs
<1>2. /\ DOMAIN u.entries = 1..n + 1 /\ (\A i \in 1..n : u.entries[i] = t.entries[i])
      /\ u.entries[n + 1] = Entry(t.seq + 1, b)
    BY AddsIs
<1> HIDE DEF n
<1>3. ASSUME NEW i \in 1..n + 1, NEW j \in 1..n + 1, i < j
      PROVE  /\ u.entries[i].block.id = u.entries[j].block.id => u.entries[i].block.id \notin ArtifactIds
             /\ u.entries[i].block.content = "completed" =>
                    u.entries[i].block.of = b.of \/ u.entries[i].block.of # u.entries[j].block.of
    <2>1. i \in DOMAIN t.entries /\ u.entries[i] = t.entries[i]
        BY <1>1, <1>2, <1>3
    <2>2. CASE j = n + 1
        <3>1. u.entries[j].block = b
            BY <1>2, <2>2 DEF Entry
        <3> QED
            BY <2>1, <3>1
    <2>3. CASE j # n + 1
        <3>1. j \in DOMAIN t.entries /\ u.entries[j] = t.entries[j]
            BY <1>1, <1>2, <2>3
        <3> QED
            BY <1>3, <2>1, <3>1 DEF TidyBut
    <2> QED
        BY <2>2, <2>3
<1> QED
    BY <1>2, <1>3 DEF TidyBut

LEMMA PutsTidy ==
    ASSUME NEW t, Sound(t), NEW b \in Blocks, NEW k \in Tasks, b.id \in {PillId(k), ArtifactId(k)},
           NEW i \in 1..Len(t.entries), t.entries[i].block.id = b.id, NEW u, Puts(t, i, b, u),
           TidyBut(t.entries, k)
    PROVE  TidyBut(u.entries, k)
<1>1. /\ DOMAIN u.entries = 1..Len(t.entries) /\ DOMAIN t.entries = 1..Len(t.entries)
      /\ u.entries[i].block = b /\ \A j \in 1..Len(t.entries) : j # i => u.entries[j] = t.entries[j]
    <2>1. /\ DOMAIN u.entries = 1..Len(t.entries) /\ u.entries[i] = Entry(t.seq + 1, b)
          /\ \A j \in 1..Len(t.entries) : j # i => u.entries[j] = t.entries[j]
        BY PutsIs
    <2> QED
        BY <2>1, SoundIs DEF Entry
<1>2. t.entries[i].block.of = k /\ b.of = k
    BY SoundIs, BlockFacts
<1>3. \A j \in 1..Len(t.entries) : /\ u.entries[j].block.id = t.entries[j].block.id
                                   /\ u.entries[j].block.of = t.entries[j].block.of
    BY <1>1, <1>2
<1>4. \A j \in 1..Len(t.entries) : u.entries[j].block.of = k \/ u.entries[j] = t.entries[j]
    BY <1>1, <1>2
<1> QED
    BY <1>1, <1>3, <1>4 DEF TidyBut

LEMMA ReplacedTidy ==
    ASSUME NEW t, Sound(t), ~t.crashed, NEW b \in Blocks, AtMostOne(t, b.id),
           NEW k \in Tasks, b.id \in {PillId(k), ArtifactId(k)}, TidyBut(t.entries, k)
    PROVE  TidyBut(ReplaceByID(t, b).entries, k)
<1> DEFINE u == ReplaceByID(t, b)
<1>1. b.of = k
    BY BlockFacts
<1>2. \/ Adds(t, b, u) /\ \A i \in DOMAIN t.entries : t.entries[i].block.id # b.id
      \/ \E i \in 1..Len(t.entries) : t.entries[i].block.id = b.id /\ Puts(t, i, b, u)
    BY ReplacedOne
<1> HIDE DEF u
<1>3. TidyBut(u.entries, k)
    BY <1>1, <1>2, AddsTidy, PutsTidy
<1> QED
    BY <1>3 DEF u

\* A task whose pill says that it is working has no verdict.
LEMMA WorkingTidy ==
    ASSUME NEW t, Sound(t), NEW k \in Tasks, TidyBut(t.entries, k),
           \E i \in DOMAIN t.entries : t.entries[i].block = Pill(k, "working")
    PROVE  Tidy(t.entries)
<1>1. PICK i \in DOMAIN t.entries : t.entries[i].block = Pill(k, "working")
    OBVIOUS
<1>2. t.entries[i].block.id = PillId(k) /\ t.entries[i].block.content = "working" /\ PillId(k) \in PillIds
    BY <1>1 DEF Pill, Block, PillIds
<1>3. ASSUME NEW j \in DOMAIN t.entries, t.entries[j].block.content = "completed"
      PROVE  t.entries[j].block.of # k
    <2>1. SUFFICES ASSUME t.entries[j].block.of = k PROVE FALSE
        OBVIOUS
    <2>2. t.entries[j].block.id = PillId(k)
        BY <1>3, <2>1, SoundIs, BlockFacts
    <2>3. j # i
        BY <1>2, <1>3
    <2> QED
        BY <1>2, <2>2, <2>3 DEF Sound, KeepsIds
<1> QED
    BY <1>3 DEF Tidy, TidyBut

\* RemoveByID leaves the others, in their order.
LEMMA KeptPicks ==
    ASSUME NEW es \in Seq(Numbered), NEW id
    PROVE  Kept(es, id) \in Seq(Numbered) /\ Picks(Kept(es, id), es, Len(es))
<1> DEFINE N == Len(es)
           T == Seq(Numbered)
           Next1(a, i) == IF es[i].block.id = id THEN a ELSE Append(a, es[i])
           G == [p \in T \X (1..N) |-> Next1(p[1], p[2])]
           Fits(f) == f = [i \in 0..N |-> IF i = 0 THEN <<>> ELSE Next1(f[i - 1], i)]
           at == CHOOSE f : Fits(f)
<1>0. N \in Nat /\ DOMAIN es = 1..N /\ \A i \in 1..N : es[i] \in Numbered
    BY LenProperties, ElementOfSeq
<1>1. \A a \in T, i \in 1..N : G[<<a, i>>] = Next1(a, i) /\ Next1(a, i) \in T
    <2>1. \A a \in T, i \in 1..N : Append(a, es[i]) \in T
        BY <1>0, AppendProperties
    <2>2. \A a \in T, i \in 1..N : Next1(a, i) \in T
        BY <2>1
    <2> HIDE DEF T, Next1
    <2> QED
        BY <2>2
<1>2. Steps(1..N, T, <<>>, G)
    <2>1. <<>> \in T
        BY EmptySeq
    <2> HIDE DEF G, T, Next1
    <2> QED
        BY <1>1, <2>1 DEF Steps
<1>3. PICK g : Runs(g, N, T, <<>>, G)
    <2> HIDE DEF G, N, T
    <2> QED
        BY <1>0, <1>2, RunExists
<1> HIDE DEF G, Next1, T
<1>4. Fits(g)
    <2>1. g = [i \in 0..N |-> g[i]] /\ g[0] = <<>>
        BY <1>3 DEF Runs
    <2>2. ASSUME NEW i \in 0..N PROVE g[i] = IF i = 0 THEN <<>> ELSE Next1(g[i - 1], i)
        <3>1. CASE i = 0
            BY <2>1, <3>1
        <3>2. CASE i # 0
            <4>1. i \in 1..N /\ i - 1 \in 0..N
                BY <1>0, <3>2
            <4>2. g[i] = G[<<g[i - 1], i>>] /\ g[i - 1] \in T
                BY <1>3, <4>1 DEF Runs
            <4> QED
                BY <1>1, <3>2, <4>1, <4>2
        <3> QED
            BY <3>1, <3>2
    <2> QED
        BY <2>1, <2>2
<1>5. Fits(at)
    <2> HIDE DEF Fits
    <2> QED
        BY <1>4
<1>6. Kept(es, id) = at[N]
    BY DEF Kept, Next1
<1> HIDE DEF at
<1>7. at[0] = <<>> /\ \A i \in 0..N : i + 1 <= N => at[i + 1] = Next1(at[i], i + 1)
    <2>1. /\ 0 \in 0..N
          /\ \A i \in 0..N : i + 1 <= N => i + 1 \in 0..N /\ i + 1 # 0 /\ (i + 1) - 1 = i
        BY <1>0
    <2> QED
        BY <1>5, <2>1
<1> DEFINE P == {i \in Nat : i <= N => at[i] \in T /\ Picks(at[i], es, i)}
<1>8. 0 \in P
    <2>1. <<>> \in T /\ Picks(<<>>, es, 0)
        BY EmptySeq DEF Picks, T
    <2> QED
        BY <1>7, <2>1
<1>9. ASSUME NEW i \in Nat, i \in P PROVE i + 1 \in P
    <2>1. SUFFICES ASSUME i + 1 <= N PROVE at[i + 1] \in T /\ Picks(at[i + 1], es, i + 1)
        OBVIOUS
    <2> DEFINE a == at[i]
               e == es[i + 1]
    <2>2. i + 1 \in 1..N /\ i \in 0..N /\ i <= N
        BY <1>0, <2>1
    <2>3. at[i + 1] = IF e.block.id = id THEN a ELSE Append(a, e)
        BY <1>7, <2>1, <2>2 DEF Next1
    <2>4. a \in Seq(Numbered) /\ Picks(a, es, i) /\ e \in Numbered
        BY <1>0, <1>9, <2>2 DEF T
    <2>5. \A j \in 1..i : j \in 1..i + 1
        OBVIOUS
    <2> HIDE DEF a
    <2>6. Picks(a, es, i + 1)
        BY <2>4, <2>5 DEF Picks
    <2>7. Append(a, e) \in Seq(Numbered) /\ Picks(Append(a, e), es, i + 1)
        <3> DEFINE q == Append(a, e)
                   n == Len(a)
        <3>1. n \in Nat /\ DOMAIN a = 1..n
            BY <2>4, LenProperties
        <3>2. q \in Seq(Numbered) /\ Len(q) = n + 1 /\ (\A j \in 1..n : q[j] = a[j]) /\ q[n + 1] = es[i + 1]
            BY <2>4, AppendProperties
        <3>3. DOMAIN q = 1..n + 1
            BY <3>2, LenProperties
        <3> HIDE DEF q, n
        <3>4. \A j \in DOMAIN q : \E k \in 1..i + 1 : q[j] = es[k]
            <4>1. ASSUME NEW j \in 1..n + 1 PROVE \E k \in 1..i + 1 : q[j] = es[k]
                <5>1. CASE j = n + 1
                    BY <3>2, <5>1
                <5>2. CASE j # n + 1
                    <6>1. j \in DOMAIN a /\ q[j] = a[j]
                        BY <3>1, <3>2, <5>2
                    <6> QED
                        BY <2>6, <6>1 DEF Picks
                <5> QED
                    BY <5>1, <5>2
            <4> QED
                BY <3>3, <4>1
        <3>5. \A j, k \in DOMAIN q : j < k => \E l, m \in 1..i + 1 : l < m /\ q[j] = es[l] /\ q[k] = es[m]
            <4>1. ASSUME NEW j \in 1..n + 1, NEW k \in 1..n + 1, j < k
                  PROVE  \E l, m \in 1..i + 1 : l < m /\ q[j] = es[l] /\ q[k] = es[m]
                <5>0. j \in 1..n /\ q[j] = a[j]
                    BY <3>1, <3>2, <4>1
                <5>1. CASE k = n + 1
                    <6>1. PICK l \in 1..i : a[j] = es[l]
                        BY <2>4, <3>1, <5>0 DEF Picks
                    <6>2. l < i + 1 /\ l \in 1..i + 1 /\ i + 1 \in 1..i + 1
                        OBVIOUS
                    <6> QED
                        BY <3>2, <5>0, <5>1, <6>1, <6>2
                <5>2. CASE k # n + 1
                    <6>1. k \in DOMAIN a /\ j \in DOMAIN a /\ q[k] = a[k]
                        BY <3>1, <3>2, <5>0, <5>2
                    <6>2. \E l, m \in 1..i + 1 : l < m /\ a[j] = es[l] /\ a[k] = es[m]
                        BY <2>6, <4>1, <6>1 DEF Picks
                    <6> QED
                        BY <5>0, <6>1, <6>2
                <5> QED
                    BY <5>1, <5>2
            <4> QED
                BY <3>3, <4>1
        <3>6. Picks(q, es, i + 1)
            BY <3>4, <3>5 DEF Picks
        <3> QED
            BY <3>2, <3>6 DEF q
    <2> QED
        BY <2>3, <2>4, <2>6, <2>7 DEF T
<1>10. Nat \subseteq P
    <2> HIDE DEF P
    <2> QED
        BY <1>8, <1>9, NatSteps
<1>11. N \in P
    <2> HIDE DEF P
    <2> QED
        BY <1>0, <1>10
<1>12. N <= N
    BY <1>0
<1> QED
    BY <1>6, <1>11, <1>12 DEF T

LEMMA RemovedIs ==
    ASSUME NEW t, Sound(t), NEW id
    PROVE  LET u == RemoveByID(t, id)
           IN  /\ Sound(u) /\ Renews(t, u) /\ u.crashed = t.crashed
               /\ \A but : TidyBut(t.entries, but) => TidyBut(u.entries, but)
<1> DEFINE u == RemoveByID(t, id)
           a == Kept(t.entries, id)
<1>1. /\ t.entries \in Seq(Numbered) /\ t.seq \in Nat /\ t.crashed \in BOOLEAN /\ t \in Transcripts
      /\ DOMAIN t.entries = 1..Len(t.entries) /\ \A j \in 1..Len(t.entries) : t.entries[j].inst \in 1..t.seq
    BY SoundIs DEF Sound
<1>2. a \in Seq(Numbered) /\ Picks(a, t.entries, Len(t.entries))
    BY <1>1, KeptPicks
<1>3. KeepsIds(a) /\ \A but : TidyBut(t.entries, but) => TidyBut(a, but)
    BY <1>1, <1>2, PicksKeep DEF Sound
<1>4. u = [t EXCEPT !.seq = t.seq + 1, !.entries = a]
    BY DEF RemoveByID
<1> HIDE DEF a, u
<1>5. /\ u = [entries |-> a, seq |-> t.seq + 1, crashed |-> t.crashed]
      /\ u.entries = a /\ u.seq = t.seq + 1 /\ u.crashed = t.crashed
    BY <1>1, <1>4 DEF Transcripts
<1>6. u \in Transcripts
    BY <1>1, <1>2, <1>5 DEF Transcripts
<1>7. \A i \in DOMAIN a : \E j \in 1..Len(t.entries) : a[i] = t.entries[j]
    BY <1>2 DEF Picks
<1>8. \A i \in DOMAIN a : a[i].inst \in 1..t.seq + 1
    BY <1>1, <1>7
<1>9. Sound(u)
    BY <1>3, <1>5, <1>6, <1>8 DEF Sound
<1>10. Renews(t, u)
    BY <1>1, <1>5, <1>7 DEF Renews
<1> QED
    BY <1>3, <1>5, <1>9, <1>10 DEF u

------------------------------------------------------------------------------
(* The transcript: its cache and its screen.                                  *)

Keys   == Nat \X Widths
Shown  == Blocks \union {[SurfaceBlock EXCEPT !.content = v] : v \in Nat}
Caches == UNION {[D -> Shown] : D \in SUBSET Keys}

\* The cache has no more of an entry than how it looks, and nothing that is to come.
CacheTrue(c, es, n) ==
    /\ \A k \in DOMAIN c : k \in (1..n) \X Widths
    /\ \A i \in DOMAIN es, w \in Widths : <<es[i].inst, w>> \in DOMAIN c =>
           es[i].block = SurfaceBlock \/ c[<<es[i].inst, w>>] = es[i].block
Bounded(c, o) == Len(o) <= MaxRenderCache /\ IsInjective(o) /\ DOMAIN c = Range(o)

Views(es, n) ==
    {r \in [screen : Seq(Shown), cache : Caches, order : Seq(Keys)] :
        CacheTrue(r.cache, es, n) /\ Bounded(r.cache, r.order)}

LEMMA CachesAre ==
    /\ \A c \in Caches : DOMAIN c \in SUBSET Keys /\ c \in [DOMAIN c -> Shown]
    /\ \A D \in SUBSET Keys : \A c \in [D -> Shown] : c \in Caches
<1>1. ASSUME NEW c \in Caches PROVE DOMAIN c \in SUBSET Keys /\ c \in [DOMAIN c -> Shown]
    <2>1. PICK D \in SUBSET Keys : c \in [D -> Shown]
        BY DEF Caches
    <2> QED
        BY <2>1
<1> QED
    BY <1>1 DEF Caches

\* A key goes to the end of the queue, and the oldest may go.
LEMMA Remembered ==
    ASSUME NEW r \in [screen : Seq(Shown), cache : Caches, order : Seq(Keys)],
           Bounded(r.cache, r.order), NEW key \in Keys, key \notin DOMAIN r.cache, NEW img \in Shown
    PROVE  LET q == Remember(r, key, img)
           IN  /\ q \in [screen : Seq(Shown), cache : Caches, order : Seq(Keys)]
               /\ Bounded(q.cache, q.order) /\ q.screen = r.screen
               /\ \A k \in DOMAIN q.cache :
                      (k = key /\ q.cache[k] = img) \/ (k \in DOMAIN r.cache /\ q.cache[k] = r.cache[k])
<1> DEFINE c == r.cache
           o == r.order
           full == Len(o) >= MaxRenderCache
           kept == IF full THEN DOMAIN c \ {Head(o)} ELSE DOMAIN c
           rest == IF full THEN Tail(o) ELSE o
           c2 == [k \in kept \union {key} |-> IF k = key THEN img ELSE c[k]]
           o2 == Append(rest, key)
           q == Remember(r, key, img)
<1>1. /\ c \in Caches /\ o \in Seq(Keys) /\ Len(o) \in Nat /\ DOMAIN o = 1..Len(o)
      /\ Len(o) <= MaxRenderCache /\ MaxRenderCache \in Nat \ {0}
      /\ \A i, j \in 1..Len(o) : o[i] = o[j] => i = j
      /\ \A k : k \in DOMAIN c <=> \E i \in 1..Len(o) : o[i] = k
    <2>1. o \in Seq(Keys) /\ Len(o) \in Nat /\ DOMAIN o = 1..Len(o)
        BY LenProperties
    <2>2. MaxRenderCache \in Nat \ {0}
        BY TranscriptAssumption
    <2> QED
        BY <2>1, <2>2 DEF Bounded, IsInjective, Range
<1>2. q = [screen |-> r.screen, cache |-> c2, order |-> o2]
    <2>1. q = [r EXCEPT !.order = o2, !.cache = c2]
        BY DEF Remember
    <2> HIDE DEF q, o2, c2
    <2> QED
        BY <2>1
<1> HIDE DEF c, o, q
<1>3. /\ rest \in Seq(Keys) /\ Len(rest) \in Nat /\ Len(rest) + 1 <= MaxRenderCache
      /\ \A i, j \in 1..Len(rest) : rest[i] = rest[j] => i = j
      /\ \A k : k \in kept <=> \E i \in 1..Len(rest) : rest[i] = k
    <2>1. CASE ~full
        <3>1. rest = o /\ kept = DOMAIN c /\ Len(o) + 1 <= MaxRenderCache
            BY <1>1, <2>1
        <3> QED
            BY <1>1, <3>1
    <2>2. CASE full
        <3>1. rest = Tail(o) /\ kept = DOMAIN c \ {Head(o)} /\ Len(o) >= 1
            BY <1>1, <2>2
        <3>2. /\ Tail(o) \in Seq(Keys) /\ Len(Tail(o)) = Len(o) - 1 /\ Head(o) = o[1]
              /\ \A i \in 1..Len(o) - 1 : Tail(o)[i] = o[i + 1]
            <4>1. o \in Seq(Keys) /\ o # <<>>
                <5>1. o \in Seq(Keys) /\ Len(o) >= 1 /\ Len(<<>>) = 0
                    BY <1>1, <3>1
                <5> HIDE DEF rest, kept, full
                <5> QED
                    BY <5>1
            <4> QED
                BY <4>1, HeadTailProperties
        <3> HIDE DEF rest, kept
        <3>3. \A i \in 1..Len(o) - 1 : i + 1 \in 1..Len(o) /\ i + 1 # 1
            BY <1>1
        <3>4. 1 \in 1..Len(o) /\ \A i \in 1..Len(o) : i = 1 \/ (i - 1 \in 1..Len(o) - 1 /\ (i - 1) + 1 = i)
            BY <1>1, <3>1
        <3>5. \A i, j \in 1..Len(rest) : rest[i] = rest[j] => i = j
            <4>1. ASSUME NEW i \in 1..Len(o) - 1, NEW j \in 1..Len(o) - 1, Tail(o)[i] = Tail(o)[j]
                  PROVE  i = j
                <5>1. i + 1 = j + 1
                    BY <1>1, <3>2, <3>3, <4>1
                <5> QED
                    BY <1>1, <5>1
            <4> QED
                BY <3>1, <3>2, <4>1
        <3>6. \A k : k \in kept <=> \E i \in 1..Len(rest) : rest[i] = k
            <4>1. ASSUME NEW k, k \in kept PROVE \E i \in 1..Len(rest) : rest[i] = k
                <5>1. PICK i \in 1..Len(o) : o[i] = k
                    BY <1>1, <3>1, <4>1
                <5>2. i # 1
                    BY <3>1, <3>2, <4>1, <5>1
                <5>3. i - 1 \in 1..Len(o) - 1 /\ Tail(o)[i - 1] = k
                    BY <3>2, <3>4, <5>1, <5>2
                <5> QED
                    BY <3>1, <3>2, <5>3
            <4>2. ASSUME NEW k, NEW i \in 1..Len(rest), rest[i] = k PROVE k \in kept
                <5>1. i + 1 \in 1..Len(o) /\ i + 1 # 1 /\ o[i + 1] = k
                    BY <3>1, <3>2, <3>3, <4>2
                <5>2. k \in DOMAIN c /\ k # Head(o)
                    BY <1>1, <3>2, <3>4, <5>1
                <5> QED
                    BY <3>1, <5>2
            <4> QED
                BY <4>1, <4>2
        <3>7. Len(rest) \in Nat /\ Len(rest) + 1 <= MaxRenderCache
            BY <1>1, <3>1, <3>2
        <3> QED
            BY <3>1, <3>2, <3>5, <3>6, <3>7
    <2> QED
        BY <2>1, <2>2
<1>4. kept \in SUBSET DOMAIN c /\ DOMAIN c \in SUBSET Keys /\ c \in [DOMAIN c -> Shown] /\ key \notin DOMAIN c
    BY <1>1, CachesAre DEF c
<1> HIDE DEF rest, kept
<1>5. /\ o2 \in Seq(Keys) /\ Len(o2) = Len(rest) + 1
      /\ (\A i \in 1..Len(rest) : o2[i] = rest[i]) /\ o2[Len(rest) + 1] = key
    BY <1>3, AppendProperties
<1>6. DOMAIN o2 = 1..Len(rest) + 1
    BY <1>5, LenProperties
<1> HIDE DEF o2
<1>7. \A i \in 1..Len(rest) + 1 : i \in 1..Len(rest) \/ i = Len(rest) + 1
    BY <1>3
<1>8. \A i \in 1..Len(rest) : rest[i] # key
    BY <1>3, <1>4
<1>9. IsInjective(o2)
    <2>1. ASSUME NEW i \in 1..Len(rest) + 1, NEW j \in 1..Len(rest) + 1, o2[i] = o2[j] PROVE i = j
        <3>1. CASE i \in 1..Len(rest) /\ j \in 1..Len(rest)
            BY <1>3, <1>5, <2>1, <3>1
        <3>2. CASE i \in 1..Len(rest) /\ j = Len(rest) + 1
            BY <1>5, <1>8, <2>1, <3>2
        <3>3. CASE i = Len(rest) + 1 /\ j \in 1..Len(rest)
            BY <1>5, <1>8, <2>1, <3>3
        <3> QED
            BY <1>7, <3>1, <3>2, <3>3
    <2> QED
        BY <1>6, <2>1 DEF IsInjective
<1>10. DOMAIN c2 = Range(o2)
    <2>1. \A k : k \in kept \union {key} <=> \E i \in 1..Len(rest) + 1 : o2[i] = k
        <3>1. ASSUME NEW k, k \in kept \union {key} PROVE \E i \in 1..Len(rest) + 1 : o2[i] = k
            <4>1. Len(rest) + 1 \in 1..Len(rest) + 1 /\ \A i \in 1..Len(rest) : i \in 1..Len(rest) + 1
                BY <1>3
            <4>2. CASE k = key
                BY <1>5, <4>1, <4>2
            <4>3. CASE k \in kept
                <5>1. PICK i \in 1..Len(rest) : rest[i] = k
                    BY <1>3, <4>3
                <5> QED
                    BY <1>5, <4>1, <5>1
            <4> QED
                BY <3>1, <4>2, <4>3
        <3>2. ASSUME NEW k, NEW i \in 1..Len(rest) + 1, o2[i] = k PROVE k \in kept \union {key}
            BY <1>3, <1>5, <1>7, <3>2
        <3> QED
            BY <3>1, <3>2
    <2>2. Range(o2) = {o2[i] : i \in 1..Len(rest) + 1}
        BY <1>6 DEF Range
    <2>3. \A k : k \in Range(o2) <=> k \in kept \union {key}
        BY <2>1, <2>2
    <2> QED
        BY <2>3
<1>11. c2 \in Caches
    <2>1. kept \union {key} \in SUBSET Keys
        BY <1>4
    <2>2. c2 \in [kept \union {key} -> Shown]
        BY <1>4
    <2> HIDE DEF c2
    <2> QED
        BY <2>1, <2>2, CachesAre
<1>12. \A k \in DOMAIN c2 : (k = key /\ c2[k] = img) \/ (k \in DOMAIN c /\ c2[k] = c[k])
    BY <1>4
<1> HIDE DEF c2
<1>13. Bounded(c2, o2)
    BY <1>3, <1>5, <1>9, <1>10 DEF Bounded
<1>14. q.screen = r.screen /\ q.cache = c2 /\ q.order = o2
    BY <1>2
<1>15. q \in [screen : Seq(Shown), cache : Caches, order : Seq(Keys)]
    BY <1>2, <1>5, <1>11
<1> QED
    BY <1>12, <1>13, <1>14, <1>15 DEF q, c

\* A cache that is true of a transcript is true of what becomes of it.
LEMMA CacheCarried ==
    ASSUME NEW c \in Caches, NEW t, NEW u, Sound(t), Sound(u), Renews(t, u),
           CacheTrue(c, t.entries, t.seq)
    PROVE  CacheTrue(c, u.entries, u.seq)
<1>1. t.seq \in Nat /\ u.seq \in Nat /\ t.seq <= u.seq
    BY SoundIs DEF Renews
<1>2. ASSUME NEW k \in DOMAIN c PROVE k \in (1..u.seq) \X Widths
    <2>1. k \in (1..t.seq) \X Widths
        BY DEF CacheTrue
    <2>2. \A m \in 1..t.seq : m \in 1..u.seq
        BY <1>1
    <2> QED
        BY <2>1, <2>2
<1>3. ASSUME NEW i \in DOMAIN u.entries, NEW w \in Widths, <<u.entries[i].inst, w>> \in DOMAIN c
      PROVE  u.entries[i].block = SurfaceBlock \/ c[<<u.entries[i].inst, w>>] = u.entries[i].block
    <2>1. u.entries[i].inst \in 1..t.seq
        BY <1>3 DEF CacheTrue
    <2>2. PICK j \in DOMAIN t.entries : u.entries[i] = t.entries[j]
        BY <1>1, <2>1 DEF Renews
    <2> QED
        BY <1>3, <2>2 DEF CacheTrue
<1> QED
    BY <1>2, <1>3 DEF CacheTrue

\* What is rendered, and what drawing one of its blocks adds to the screen.
Sheet(es, n) ==
    /\ n \in Nat /\ es \in Seq(Numbered) /\ KeepsIds(es)
    /\ \A i \in DOMAIN es : es[i].inst \in 1..n
Shows(r, q, b) == \E img \in Shown : q.screen = Append(r.screen, img) /\ (b = SurfaceBlock \/ img = b)
AllShown(r, es) ==
    /\ Len(r.screen) = Len(es)
    /\ \A i \in 1..Len(es) : es[i].block = SurfaceBlock \/ r.screen[i] = es[i].block

\* One block is drawn: what is added to the screen is how the block looks.
LEMMA DrawnOne ==
    ASSUME NEW n, NEW es, Sheet(es, n),
           NEW r \in Views(es, n), NEW i \in 1..Len(es), NEW w \in Widths, NEW version \in Nat
    PROVE  /\ Draw(r, es[i], w, version) \in Views(es, n)
           /\ Shows(r, Draw(r, es[i], w, version), es[i].block)
<1> DEFINE e == es[i]
           key == <<e.inst, w>>
           held == key \in DOMAIN r.cache
           img == IF held THEN r.cache[key] ELSE Drawn(e.block, version)
           now == IF held THEN r ELSE Remember(r, key, img)
           q == Draw(r, e, w, version)
           Records == [screen : Seq(Shown), cache : Caches, order : Seq(Keys)]
<1>1. /\ r \in Records /\ CacheTrue(r.cache, es, n) /\ Bounded(r.cache, r.order)
      /\ i \in DOMAIN es /\ e \in Numbered /\ e.inst \in 1..n /\ e.block \in Blocks
    <2>1. i \in DOMAIN es /\ e \in Numbered
        BY ElementOfSeq, LenProperties DEF Sheet
    <2> QED
        BY <2>1 DEF Views, Numbered, Sheet
<1>2. key \in (1..n) \X Widths /\ key \in Keys
    BY <1>1 DEF Keys
<1>3. Drawn(e.block, version) \in Shown /\ (e.block = SurfaceBlock \/ Drawn(e.block, version) = e.block)
    BY <1>1 DEF Drawn, Shown
<1>4. q = [now EXCEPT !.screen = Append(now.screen, img)]
    BY DEF Draw
<1> HIDE DEF q
<1>5. /\ now \in Records /\ CacheTrue(now.cache, es, n) /\ Bounded(now.cache, now.order)
      /\ now.screen = r.screen /\ img \in Shown /\ (e.block = SurfaceBlock \/ img = e.block)
    <2>1. CASE held
        <3>1. now = r /\ img = r.cache[key]
            BY <2>1
        <3>2. img \in Shown
            <4>1. r.cache \in Caches /\ key \in DOMAIN r.cache
                BY <1>1, <2>1
            <4> HIDE DEF key
            <4> QED
                BY <3>1, <4>1, CachesAre
        <3>3. e.block = SurfaceBlock \/ img = e.block
            BY <1>1, <2>1, <3>1 DEF CacheTrue
        <3> QED
            BY <1>1, <3>1, <3>2, <3>3
    <2>2. CASE ~held
        <3>1. img = Drawn(e.block, version) /\ now = Remember(r, key, img) /\ key \notin DOMAIN r.cache
            BY <2>2
        <3>2. img \in Shown /\ (e.block = SurfaceBlock \/ img = e.block)
            BY <1>3, <3>1
        <3> DEFINE k1 == key
                   o1 == img
                   m1 == now
        <3>3. k1 \in Keys /\ k1 \notin DOMAIN r.cache /\ o1 \in Shown /\ m1 = Remember(r, k1, o1)
            BY <1>2, <3>1, <3>2
        <3> HIDE DEF k1, o1, m1
        <3>4. /\ m1 \in Records /\ Bounded(m1.cache, m1.order) /\ m1.screen = r.screen
              /\ \A k \in DOMAIN m1.cache :
                     (k = k1 /\ m1.cache[k] = o1) \/ (k \in DOMAIN r.cache /\ m1.cache[k] = r.cache[k])
            BY <1>1, <3>3, Remembered
        <3>5. k1 = key /\ o1 = img /\ m1 = now
            BY DEF k1, o1, m1
        <3> HIDE DEF img, now, held
        <3>6. CacheTrue(m1.cache, es, n)
            <4>1. \A k \in DOMAIN m1.cache : k \in (1..n) \X Widths
                BY <1>1, <1>2, <3>4, <3>5 DEF CacheTrue
            <4>2. ASSUME NEW j \in DOMAIN es, NEW v \in Widths, <<es[j].inst, v>> \in DOMAIN m1.cache
                  PROVE  es[j].block = SurfaceBlock \/ m1.cache[<<es[j].inst, v>>] = es[j].block
                <5>1. CASE <<es[j].inst, v>> = k1 /\ m1.cache[<<es[j].inst, v>>] = o1
                    <6>1. es[j].inst = es[i].inst
                        BY <3>5, <5>1
                    <6>2. j = i
                        BY <1>1, <6>1 DEF KeepsIds, Sheet
                    <6> QED
                        BY <3>2, <3>5, <5>1, <6>2
                <5>2. CASE /\ <<es[j].inst, v>> \in DOMAIN r.cache
                           /\ m1.cache[<<es[j].inst, v>>] = r.cache[<<es[j].inst, v>>]
                    BY <1>1, <5>2 DEF CacheTrue
                <5> QED
                    BY <3>4, <4>2, <5>1, <5>2
            <4> QED
                BY <4>1, <4>2 DEF CacheTrue
        <3> QED
            BY <3>2, <3>4, <3>5, <3>6
    <2> QED
        BY <2>1, <2>2
<1> HIDE DEF now, img, held
<1>6. Append(now.screen, img) \in Seq(Shown)
    BY <1>5, AppendProperties
<1>7. /\ q.screen = Append(now.screen, img) /\ q.cache = now.cache /\ q.order = now.order /\ q \in Records
    BY <1>4, <1>5, <1>6
<1>8. q \in Views(es, n)
    BY <1>5, <1>7 DEF Views
<1> QED
    BY <1>5, <1>7, <1>8 DEF q, Shows

\* All blocks are drawn, in their order.
Unseen(c, o) == [screen |-> <<>>, cache |-> c, order |-> o]

LEMMA RenderedAll ==
    ASSUME NEW n, NEW es, Sheet(es, n), NEW w \in Widths, NEW version \in Nat,
           NEW c, NEW o, Unseen(c, o) \in Views(es, n)
    PROVE  /\ RenderAll(es, w, version, c, o) \in Views(es, n)
           /\ AllShown(RenderAll(es, w, version, c, o), es)
<1> DEFINE N == Len(es)
           T == Views(es, n)
           blank == Unseen(c, o)
           G == [p \in T \X (1..N) |-> Draw(p[1], es[p[2]], w, version)]
           Fits(f) == f = [i \in 0..N |-> IF i = 0 THEN blank ELSE Draw(f[i - 1], es[i], w, version)]
           at == CHOOSE f : Fits(f)
<1>0. N \in Nat /\ DOMAIN es = 1..N
    BY LenProperties DEF Sheet
<1>drawn. ASSUME NEW a \in Views(es, n), NEW i \in 1..Len(es)
          PROVE  /\ Draw(a, es[i], w, version) \in Views(es, n)
                 /\ Shows(a, Draw(a, es[i], w, version), es[i].block)
    BY DrawnOne
<1>1. \A a \in T, i \in 1..N : G[<<a, i>>] = Draw(a, es[i], w, version) /\ Draw(a, es[i], w, version) \in T
    <2>1. \A a \in T, i \in 1..N : Draw(a, es[i], w, version) \in T
        BY <1>drawn
    <2> HIDE DEF T
    <2> QED
        BY <2>1
<1>2. Steps(1..N, T, blank, G)
    <2>1. blank \in T
        OBVIOUS
    <2> HIDE DEF G, T, blank
    <2> QED
        BY <1>1, <2>1 DEF Steps
<1>3. PICK g : Runs(g, N, T, blank, G)
    <2> HIDE DEF G, N, T, blank
    <2> QED
        BY <1>0, <1>2, RunExists
<1> HIDE DEF G, T
<1>4. Fits(g)
    <2> HIDE DEF blank
    <2>1. g = [i \in 0..N |-> g[i]] /\ g[0] = blank
        BY <1>3 DEF Runs
    <2>2. ASSUME NEW i \in 0..N PROVE g[i] = IF i = 0 THEN blank ELSE Draw(g[i - 1], es[i], w, version)
        <3>1. CASE i = 0
            BY <2>1, <3>1
        <3>2. CASE i # 0
            <4>1. i \in 1..N /\ i - 1 \in 0..N
                BY <1>0, <3>2
            <4>2. g[i] = G[<<g[i - 1], i>>] /\ g[i - 1] \in T
                BY <1>3, <4>1 DEF Runs
            <4> QED
                BY <1>1, <3>2, <4>1, <4>2
        <3> QED
            BY <3>1, <3>2
    <2> QED
        BY <2>1, <2>2
<1>5. Fits(at)
    <2> HIDE DEF Fits
    <2> QED
        BY <1>4
<1>6. RenderAll(es, w, version, c, o) = at[N]
    BY DEF RenderAll, Unseen
<1> HIDE DEF at, blank
<1>7. at[0] = blank /\ \A i \in 0..N : i + 1 <= N => at[i + 1] = Draw(at[i], es[i + 1], w, version)
    <2>1. /\ 0 \in 0..N
          /\ \A i \in 0..N : i + 1 <= N => i + 1 \in 0..N /\ i + 1 # 0 /\ (i + 1) - 1 = i
        BY <1>0
    <2> QED
        BY <1>5, <2>1
<1> DEFINE Upto(r, i) == /\ r \in Views(es, n) /\ Len(r.screen) = i
                         /\ \A j \in 1..i : es[j].block = SurfaceBlock \/ r.screen[j] = es[j].block
           P == {i \in Nat : i <= N => Upto(at[i], i)}
<1>8. 0 \in P
    <2>1. Upto(blank, 0)
        BY DEF blank, Unseen
    <2> QED
        BY <1>7, <2>1
<1>9. ASSUME NEW i \in Nat, i \in P PROVE i + 1 \in P
    <2>1. SUFFICES ASSUME i + 1 <= N PROVE Upto(at[i + 1], i + 1)
        OBVIOUS
    <2> DEFINE a == at[i]
               q == at[i + 1]
    <2>2. i + 1 \in 1..N /\ i \in 0..N /\ i <= N
        BY <1>0, <2>1
    <2>3. q = Draw(a, es[i + 1], w, version)
        BY <1>7, <2>1, <2>2
    <2>4. Upto(a, i)
        BY <1>9, <2>2
    <2> HIDE DEF a, q
    <2>5. PICK img \in Shown : /\ q \in Views(es, n) /\ q.screen = Append(a.screen, img)
                               /\ es[i + 1].block = SurfaceBlock \/ img = es[i + 1].block
        <3>1. i + 1 \in 1..Len(es) /\ q = Draw(a, es[i + 1], w, version) /\ a \in Views(es, n)
            BY <2>2, <2>3, <2>4
        <3> QED
            BY <1>drawn, <3>1 DEF Shows
    <2>6. a.screen \in Seq(Shown) /\ Len(a.screen) = i
        BY <2>4 DEF Views
    <2>7. Len(q.screen) = i + 1 /\ q.screen[i + 1] = img /\ \A j \in 1..i : q.screen[j] = a.screen[j]
        BY <2>5, <2>6, AppendProperties
    <2>8. ASSUME NEW j \in 1..i + 1 PROVE es[j].block = SurfaceBlock \/ q.screen[j] = es[j].block
        <3>1. CASE j = i + 1
            BY <2>5, <2>7, <3>1
        <3>2. CASE j # i + 1
            <4>1. j \in 1..i
                BY <3>2
            <4> QED
                BY <2>4, <2>7, <4>1
        <3> QED
            BY <3>1, <3>2
    <2>9. Upto(q, i + 1)
        BY <2>5, <2>7, <2>8
    <2> QED
        BY <2>9 DEF q
<1>10. Nat \subseteq P
    <2> HIDE DEF P
    <2> QED
        BY <1>8, <1>9, NatSteps
<1>11. N \in P
    <2> HIDE DEF P
    <2> QED
        BY <1>0, <1>10
<1>12. Upto(at[N], N)
    BY <1>0, <1>11
<1> QED
    BY <1>6, <1>12 DEF AllShown

------------------------------------------------------------------------------
(* The transcript: what is always true of it.                                 *)

TranscriptInv ==
    /\ width \in Widths /\ surface \in Nat /\ crashed \in BOOLEAN /\ fetched \in BOOLEAN
    /\ Sound(Now)
    /\ cache \in Caches /\ order \in Seq(Keys)
    /\ CacheTrue(cache, entries, seq) /\ Bounded(cache, order)
    /\ ScreenFaithful
    /\ NeverPanics
    /\ ~fetched => Tidy(entries)

LEMMA NowIs == Now.entries = entries /\ Now.seq = seq /\ Now.crashed = FALSE
BY DEF Now

\* refreshTranscript shows what there is.
LEMMA Refreshed ==
    ASSUME NEW t, Sound(t), entries' = t.entries, seq' = t.seq, cache \in Caches, order \in Seq(Keys),
           CacheTrue(cache, t.entries, t.seq), Bounded(cache, order),
           NEW w \in Widths, NEW version \in Nat, Refresh(w, version)
    PROVE  /\ width' \in Widths /\ surface' \in Nat /\ cache' \in Caches /\ order' \in Seq(Keys)
           /\ CacheTrue(cache, entries, seq)' /\ Bounded(cache, order)' /\ ScreenFaithful'
<1> DEFINE es == t.entries
           n == t.seq
           r == RenderAll(es, w, version, cache, order)
<1>1. /\ es \in Seq(Numbered) /\ n \in Nat /\ KeepsIds(es) /\ DOMAIN es = 1..Len(es)
      /\ \A i \in DOMAIN es : es[i].inst \in 1..n
    BY SoundIs DEF Sound
<1>2. /\ width' = w /\ surface' = version /\ cache' = r.cache /\ order' = r.order /\ screen' = r.screen
      /\ entries' = es /\ seq' = n /\ CacheTrue(cache, es, n)
    BY DEF Refresh
<1> HIDE DEF es, n
<1>sheet. Sheet(es, n)
    BY <1>1 DEF Sheet
<1>3. Unseen(cache, order) \in Views(es, n)
    <2>1. <<>> \in Seq(Shown)
        BY EmptySeq
    <2> QED
        BY <1>2, <2>1 DEF Views, Unseen
<1>4. r \in Views(es, n) /\ AllShown(r, es)
    BY <1>sheet, <1>3, RenderedAll
<1> HIDE DEF r
<1>5. r.cache \in Caches /\ r.order \in Seq(Keys) /\ CacheTrue(r.cache, es, n) /\ Bounded(r.cache, r.order)
    BY <1>4 DEF Views
<1>6. CacheTrue(cache', entries', seq') /\ Bounded(cache', order')
    BY <1>2, <1>5
<1>7. ScreenFaithful'
    BY <1>1, <1>2, <1>4 DEF ScreenFaithful, AllShown
<1> QED
    BY <1>2, <1>5, <1>6, <1>7

LEMMA CommitKeeps ==
    ASSUME TranscriptInv, NEW t, Sound(t), Renews(Now, t), NEW version \in Nat, Commit(t, version),
           fetched' \in BOOLEAN, t.crashed => fetched', ~fetched' => Tidy(t.entries)
    PROVE  TranscriptInv'
<1>1. /\ entries' = t.entries /\ seq' = t.seq /\ crashed' = t.crashed
      /\ IF t.crashed THEN UNCHANGED <<width, surface, cache, order, screen>>
                      ELSE Refresh(width, version)
    BY DEF Commit
<1>2. CacheTrue(cache, t.entries, t.seq)
    <2>1. cache \in Caches /\ Sound(Now) /\ CacheTrue(cache, Now.entries, Now.seq)
        BY NowIs DEF TranscriptInv
    <2> HIDE DEF TranscriptInv
    <2> QED
        BY <2>1, CacheCarried
<1>3. Sound([entries |-> t.entries, seq |-> t.seq, crashed |-> FALSE])
    BY DEF Sound, Transcripts
<1>4. /\ Now' = [entries |-> t.entries, seq |-> t.seq, crashed |-> FALSE] /\ Sound(Now)'
      /\ crashed' \in BOOLEAN /\ NeverPanics' /\ (~fetched => Tidy(entries))'
    <2>1. Now' = [entries |-> t.entries, seq |-> t.seq, crashed |-> FALSE]
        BY <1>1 DEF Now
    <2>2. crashed' \in BOOLEAN
        BY <1>1, SoundIs
    <2> QED
        BY <1>1, <1>3, <2>1, <2>2 DEF NeverPanics
<1>5. CASE t.crashed
    <2>1. width' = width /\ surface' = surface /\ cache' = cache /\ order' = order /\ crashed'
        BY <1>1, <1>5
    <2>2. CacheTrue(cache', entries', seq') /\ Bounded(cache', order')
        BY <1>1, <1>2, <2>1 DEF TranscriptInv
    <2>3. ScreenFaithful'
        BY <2>1 DEF ScreenFaithful
    <2> QED
        BY <1>4, <2>1, <2>2, <2>3 DEF TranscriptInv
<1>6. CASE ~t.crashed
    <2>1. Refresh(width, version) /\ width \in Widths /\ cache \in Caches /\ order \in Seq(Keys) /\ Bounded(cache, order)
        BY <1>1, <1>6 DEF TranscriptInv
    <2>2. /\ width' \in Widths /\ surface' \in Nat /\ cache' \in Caches /\ order' \in Seq(Keys)
          /\ CacheTrue(cache, entries, seq)' /\ Bounded(cache, order)' /\ ScreenFaithful'
        <3> HIDE DEF TranscriptInv
        <3> QED
            BY <1>1, <1>2, <2>1, Refreshed
    <2> QED
        BY <1>4, <2>2 DEF TranscriptInv
<1> QED
    BY <1>5, <1>6

\* A block that is neither a pill nor an artifact has no double to fear.
LEMMA Added ==
    ASSUME NEW t, Sound(t), NEW b \in Blocks, b.id \notin PillIds
    PROVE  LET u == Append1(t, b)
           IN  /\ Sound(u) /\ Renews(t, u) /\ u.crashed = t.crashed
               /\ b.id \notin ArtifactIds /\ TidyBut(t.entries, b.of) => TidyBut(u.entries, b.of)
<1> DEFINE u == Append1(t, b)
<1>1. Adds(t, b, u) /\ u.crashed = t.crashed
    BY Append1Adds
<1> HIDE DEF u
<1>2. Sound(u) /\ Renews(t, u)
    BY <1>1, AddsSound
<1>3. b.id \notin ArtifactIds /\ TidyBut(t.entries, b.of) => TidyBut(u.entries, b.of)
    BY <1>1, AddsTidy
<1> QED
    BY <1>1, <1>2, <1>3 DEF u

LEMMA InitTranscript == Init => TranscriptInv
<1> SUFFICES ASSUME Init PROVE TranscriptInv
    OBVIOUS
<1> DEFINE e == Entry(1, Welcome)
           key == <<1, width>>
<1>1. /\ entries = <<e>> /\ seq = 1 /\ width \in Widths /\ cache = [k \in {key} |-> Welcome]
      /\ order = <<key>> /\ screen = <<Welcome>> /\ surface = 0 /\ crashed = FALSE /\ fetched = FALSE
    BY DEF Init
<1>2. Welcome \in Blocks /\ Welcome \in Shown
    BY BlocksAre DEF Shown
<1>3. e \in Numbered /\ e.inst = 1 /\ e.block = Welcome
    BY <1>2 DEF Entry, Numbered
<1>4. key \in Keys /\ key \in (1..1) \X Widths
    BY <1>1 DEF Keys
<1> HIDE DEF e
<1>5. entries \in Seq(Numbered) /\ Len(entries) = 1 /\ DOMAIN entries = {1} /\ entries[1] = e
    BY <1>1, <1>3
<1>6. Sound(Now)
    <2>1. Now \in Transcripts
        BY <1>1, <1>5 DEF Now, Transcripts
    <2>2. KeepsIds(entries)
        BY <1>5 DEF KeepsIds
    <2> QED
        BY <1>1, <1>3, <1>5, <2>1, <2>2, NowIs DEF Sound
<1>7. cache \in Caches
    <2>1. {key} \in SUBSET Keys /\ cache \in [{key} -> Shown]
        BY <1>1, <1>2, <1>4
    <2> HIDE DEF key
    <2> QED
        BY <2>1, CachesAre
<1>8. CacheTrue(cache, entries, seq)
    <2>1. \A k \in DOMAIN cache : k \in (1..seq) \X Widths /\ cache[k] = Welcome
        BY <1>1, <1>4
    <2>2. \A i \in DOMAIN entries : entries[i].block = Welcome
        BY <1>3, <1>5
    <2> QED
        BY <2>1, <2>2 DEF CacheTrue
<1>9. order \in Seq(Keys) /\ Bounded(cache, order)
    <2>1. order \in Seq(Keys) /\ Len(order) = 1 /\ DOMAIN order = {1} /\ order[1] = key
        BY <1>1, <1>4
    <2>2. MaxRenderCache \in Nat \ {0}
        BY TranscriptAssumption
    <2>3. DOMAIN cache = {key}
        BY <1>1
    <2> HIDE DEF key
    <2>4. IsInjective(order)
        BY <2>1 DEF IsInjective
    <2>5. Range(order) = {key}
        BY <2>1 DEF Range
    <2> QED
        BY <2>1, <2>2, <2>3, <2>4, <2>5 DEF Bounded
<1>10. ScreenFaithful /\ NeverPanics
    BY <1>1, <1>3, <1>5 DEF ScreenFaithful, NeverPanics
<1>11. Tidy(entries)
    BY <1>5 DEF Tidy, TidyBut
<1> QED
    BY <1>1, <1>6, <1>7, <1>8, <1>9, <1>10, <1>11 DEF TranscriptInv

LEMMA Standing ==
    ASSUME TranscriptInv
    PROVE  /\ Sound(Now) /\ ~Now.crashed /\ surface \in Nat
           /\ \A t \in Tasks : AtMostOne(Now, PillId(t))
           /\ ~fetched => Tidy(Now.entries) /\ \A t \in Tasks : /\ TidyBut(Now.entries, t)
                                                                /\ AtMostOne(Now, ArtifactId(t))
<1>1. Sound(Now) /\ surface \in Nat /\ ~Now.crashed /\ (~fetched => Tidy(Now.entries))
    BY NowIs DEF TranscriptInv
<1>2. ASSUME NEW t \in Tasks PROVE AtMostOne(Now, PillId(t))
    BY <1>1 DEF AtMostOne, Sound, KeepsIds, PillIds
<1>3. ASSUME ~fetched, NEW t \in Tasks PROVE AtMostOne(Now, ArtifactId(t))
    <2>1. ArtifactId(t) \in ArtifactIds
        BY DEF ArtifactIds
    <2>2. Len(Now.entries) \in Nat /\ DOMAIN Now.entries = 1..Len(Now.entries)
        BY <1>1, SoundIs
    <2>3. \A i, j \in DOMAIN Now.entries : i < j =>
              (Now.entries[i].block.id = Now.entries[j].block.id => Now.entries[i].block.id \notin ArtifactIds)
        BY <1>1, <1>3 DEF Tidy, TidyBut
    <2>4. ASSUME NEW i \in DOMAIN Now.entries, NEW j \in DOMAIN Now.entries,
                 Now.entries[i].block.id = ArtifactId(t), Now.entries[j].block.id = ArtifactId(t)
          PROVE  i = j
        <3>1. ~(i < j) /\ ~(j < i)
            BY <2>1, <2>3, <2>4
        <3> QED
            BY <2>2, <3>1
    <2> QED
        BY <2>4 DEF AtMostOne
<1>4. ASSUME ~fetched, NEW t \in Tasks PROVE TidyBut(Now.entries, t)
    BY <1>1, <1>4, TidyApart
<1> QED
    BY <1>1, <1>2, <1>3, <1>4

LEMMA BlockIds ==
    /\ \A t \in Tasks : Text(t).of = t /\ Text(t).id \notin PillIds /\ Text(t).id \notin ArtifactIds
    /\ \A b \in {Status, SurfaceBlock} : b.of = "none" /\ b.id \notin PillIds /\ b.id \notin ArtifactIds
    /\ \A t \in Tasks, c \in {"one", "two"} : Artifact(t, c).id = ArtifactId(t) /\ Artifact(t, c).id \notin PillIds
    /\ \A t \in Tasks, st \in PillStates : Pill(t, st).id = PillId(t)
<1>1. \A t \in Tasks : Text(t).of = t /\ Text(t).id \notin PillIds /\ Text(t).id \notin ArtifactIds
    BY IdsDiffer DEF Text, Block, PillIds, ArtifactIds
<1>2. \A b \in {Status, SurfaceBlock} : b.of = "none" /\ b.id \notin PillIds /\ b.id \notin ArtifactIds
    BY IdsDiffer DEF Status, SurfaceBlock, Block, PillIds, ArtifactIds
<1>3. \A t \in Tasks, c \in {"one", "two"} : Artifact(t, c).id = ArtifactId(t) /\ Artifact(t, c).id \notin PillIds
    BY IdsDiffer DEF Artifact, Block, PillIds
<1>4. \A t \in Tasks, st \in PillStates : Pill(t, st).id = PillId(t)
    BY DEF Pill, Block
<1> QED
    BY <1>1, <1>2, <1>3, <1>4

LEMMA ConnectedKeeps == ASSUME TranscriptInv, Connected PROVE TranscriptInv'
<1> DEFINE r == RemoveByID(Now, Welcome.id)
           u == Append1(r, Status)
<1>1. Sound(Now) /\ ~Now.crashed /\ surface \in Nat /\ (~fetched => Tidy(Now.entries))
    BY Standing
<1>2. /\ Sound(r) /\ Renews(Now, r) /\ r.crashed = Now.crashed
      /\ \A but : TidyBut(Now.entries, but) => TidyBut(r.entries, but)
    BY <1>1, RemovedIs
<1>3. Status \in Blocks /\ Status.of = "none" /\ Status.id \notin PillIds /\ Status.id \notin ArtifactIds
    BY BlocksAre, BlockIds
<1> HIDE DEF r
<1>4. AppendAll(r, <<Status>>) = u
    BY <1>2, <1>3, AppendAllIs
<1>5. /\ Sound(u) /\ Renews(r, u) /\ u.crashed = r.crashed
      /\ (TidyBut(r.entries, "none") => TidyBut(u.entries, "none"))
    BY <1>2, <1>3, Added
<1> HIDE DEF u
<1>6. Renews(Now, u)
    BY <1>1, <1>2, <1>5, RenewsOn
<1>7. Commit(u, surface) /\ fetched' = fetched /\ fetched \in BOOLEAN
    BY <1>4 DEF Connected, r, TranscriptInv
<1>8. ~fetched' => Tidy(u.entries)
    BY <1>1, <1>2, <1>5, <1>7 DEF Tidy
<1> QED
    BY <1>1, <1>2, <1>5, <1>6, <1>7, <1>8, CommitKeeps

LEMMA TaskUpdateKeeps ==
    ASSUME TranscriptInv, NEW t \in Tasks, NEW st \in PillStates, TaskUpdate(t, st)
    PROVE  TranscriptInv'
<1> DEFINE b == Pill(t, st)
           r == ReplaceByID(Now, b)
           m == MoveToEnd(r, PillId(t))
           u == IF st = "completed" THEN m ELSE r
<1>1. Sound(Now) /\ ~Now.crashed /\ surface \in Nat /\ AtMostOne(Now, PillId(t)) /\ (~fetched => TidyBut(Now.entries, t))
    BY Standing
<1>2. b \in Blocks /\ b.id = PillId(t) /\ (st # "completed" => b = Pill(t, "working"))
    BY BlocksAre, BlockIds DEF PillStates
<1>3. Commit(u, surface) /\ fetched' = fetched /\ fetched \in BOOLEAN
    BY DEF TaskUpdate, TranscriptInv
<1> HIDE DEF b
<1>4. /\ Sound(r) /\ Renews(Now, r) /\ ~r.crashed
      /\ \E i \in DOMAIN r.entries : r.entries[i].block = b
    BY <1>1, <1>2, PillsReplaced
<1>5. ~fetched => TidyBut(r.entries, t)
    BY <1>1, <1>2, ReplacedTidy
<1> HIDE DEF r
<1>6. CASE st = "completed"
    <2>1. u = m
        BY <1>6
    <2>2. Sound(m) /\ Renews(r, m) /\ m.crashed = r.crashed
        BY <1>4, MovedIs
    <2>3. ~fetched => Tidy(m.entries)
        BY <1>4, <1>5, MovedTidy
    <2> HIDE DEF m
    <2>4. Renews(Now, m)
        BY <1>1, <1>4, <2>2, RenewsOn
    <2> QED
        BY <1>1, <1>3, <1>4, <2>1, <2>2, <2>3, <2>4, CommitKeeps
<1>7. CASE st # "completed"
    <2>1. u = r
        BY <1>7
    <2>2. ~fetched => Tidy(r.entries)
        BY <1>2, <1>4, <1>5, <1>7, WorkingTidy
    <2> QED
        BY <1>1, <1>3, <1>4, <2>1, <2>2, CommitKeeps
<1> QED
    BY <1>6, <1>7

LEMMA AgentMessageKeeps ==
    ASSUME TranscriptInv, NEW t \in Tasks, AgentMessage(t)
    PROVE  TranscriptInv'
<1> DEFINE b == Text(t)
           r == Append1(Now, b)
           m == MoveToEnd(r, PillId(t))
<1>1. Sound(Now) /\ ~Now.crashed /\ surface \in Nat /\ (~fetched => TidyBut(Now.entries, t))
    BY Standing
<1>2. b \in Blocks /\ b.of = t /\ b.id \notin PillIds /\ b.id \notin ArtifactIds
    BY BlocksAre, BlockIds
<1>3. AppendAll(Now, <<b>>) = r
    BY <1>1, <1>2, AppendAllIs
<1>4. Commit(m, surface) /\ fetched' = fetched /\ fetched \in BOOLEAN
    BY <1>3 DEF AgentMessage, TranscriptInv
<1> HIDE DEF b
<1>5. /\ Sound(r) /\ Renews(Now, r) /\ ~r.crashed
      /\ (~fetched => TidyBut(r.entries, t))
    BY <1>1, <1>2, Added
<1> HIDE DEF r
<1>6. Sound(m) /\ Renews(r, m) /\ m.crashed = r.crashed
    BY <1>5, MovedIs
<1>7. ~fetched => Tidy(m.entries)
    BY <1>5, MovedTidy
<1> HIDE DEF m
<1>8. Renews(Now, m)
    BY <1>1, <1>5, <1>6, RenewsOn
<1> QED
    BY <1>1, <1>4, <1>5, <1>6, <1>7, <1>8, CommitKeeps

LEMMA ArtifactUpdateKeeps ==
    ASSUME TranscriptInv, NEW t \in Tasks, NEW c \in {"one", "two"}, ArtifactUpdate(t, c)
    PROVE  TranscriptInv'
<1> DEFINE b == Artifact(t, c)
           r == ReplaceByID(Now, b)
           m == MoveToEnd(r, PillId(t))
<1>1. /\ Sound(Now) /\ ~Now.crashed /\ surface \in Nat
      /\ (~fetched => TidyBut(Now.entries, t) /\ AtMostOne(Now, ArtifactId(t)))
    BY Standing
<1>2. b \in Blocks /\ b.id = ArtifactId(t) /\ b.id \notin PillIds
    BY BlocksAre, BlockIds
<1>3. Commit(m, surface) /\ fetched' = fetched /\ fetched \in BOOLEAN
    BY DEF ArtifactUpdate, TranscriptInv
<1> HIDE DEF b
<1>4. Sound(r) /\ Renews(Now, r)
    BY <1>1, <1>2, ReplacedSound
<1>5. ~fetched => ~r.crashed /\ TidyBut(r.entries, t)
    <2>1. ASSUME ~fetched PROVE ~r.crashed
        BY <1>1, <1>2, <2>1, PillsReplaced
    <2>2. ASSUME ~fetched PROVE TidyBut(r.entries, t)
        BY <1>1, <1>2, <2>2, ReplacedTidy
    <2> QED
        BY <2>1, <2>2
<1> HIDE DEF r
<1>6. Sound(m) /\ Renews(r, m) /\ m.crashed = r.crashed
    BY <1>4, MovedIs
<1>7. ~fetched => Tidy(m.entries)
    BY <1>4, <1>5, MovedTidy
<1> HIDE DEF m
<1>8. Renews(Now, m)
    BY <1>1, <1>4, <1>6, RenewsOn
<1>9. m.crashed => fetched'
    BY <1>3, <1>5, <1>6
<1> QED
    BY <1>1, <1>3, <1>6, <1>7, <1>8, <1>9, CommitKeeps

LEMMA TaskResultKeeps ==
    ASSUME TranscriptInv, NEW t \in Tasks, NEW st \in PillStates,
           NEW artifacts \in {<<>>, <<Artifact(t, "one")>>}, NEW past \in {<<>>, <<Text(t)>>},
           TaskResult(t, st, artifacts, past)
    PROVE  TranscriptInv'
<1> DEFINE b == Pill(t, st)
           r == ReplaceByID(Now, b)
           u == AppendAll(r, artifacts \o past)
<1>1. Sound(Now) /\ ~Now.crashed /\ surface \in Nat /\ AtMostOne(Now, PillId(t))
    BY Standing
<1>2. b \in Blocks /\ b.id = PillId(t)
    BY BlocksAre, BlockIds
<1>3. fetched' = TRUE /\ Commit(IF r.crashed THEN r ELSE u, surface)
    BY DEF TaskResult
<1> HIDE DEF b
<1>4. Sound(r) /\ Renews(Now, r) /\ ~r.crashed
    BY <1>1, <1>2, PillsReplaced
<1> HIDE DEF r
<1>5. Sound(u) /\ Renews(r, u)
    <2> DEFINE a == Artifact(t, "one")
               h == Text(t)
    <2>1. a \in Blocks /\ a.id \notin PillIds /\ h \in Blocks /\ h.id \notin PillIds
        BY BlocksAre, BlockIds
    <2>2. artifacts \o past \in {<<>>, <<a>>, <<h>>, <<a, h>>}
        <3> HIDE DEF a, h
        <3>1. <<>> \o <<>> = <<>> /\ <<>> \o <<h>> = <<h>> /\ <<a>> \o <<>> = <<a>>
            OBVIOUS
        <3>2. <<a>> \o <<h>> = <<a, h>>
            <4>1. <<a>> \in Seq(Blocks)
                BY <2>1
            <4>2. Append(<<a>>, h) = <<a>> \o <<h>>
                BY <2>1, <4>1, AppendIsConcat
            <4>3. Append(<<a>>, h) \in Seq(Blocks) /\ Len(Append(<<a>>, h)) = 2
                BY <2>1, <4>1, AppendProperties
            <4>4. Append(<<a>>, h)[1] = a /\ Append(<<a>>, h)[2] = h
                BY <2>1, <4>1, AppendProperties
            <4>5. <<a, h>> \in Seq(Blocks) /\ Len(<<a, h>>) = 2 /\ <<a, h>>[1] = a /\ <<a, h>>[2] = h
                BY <2>1
            <4> DEFINE p == Append(<<a>>, h)
                       q == <<a, h>>
            <4>6. \A i \in 1..Len(p) : p[i] = q[i]
                BY <4>3, <4>4, <4>5
            <4> HIDE DEF p, q
            <4>7. p = q
                BY <4>3, <4>5, <4>6, SeqEqual DEF p, q
            <4> QED
                BY <4>2, <4>7 DEF p, q
        <3>3. artifacts \in {<<>>, <<a>>} /\ past \in {<<>>, <<h>>}
            BY DEF a, h
        <3> QED
            BY <3>1, <3>2, <3>3, Zenon
    <2> HIDE DEF a, h, u
    <2>7. /\ AppendAll(r, <<>>) = r /\ AppendAll(r, <<a>>) = Append1(r, a)
          /\ AppendAll(r, <<a, h>>) = Append1(Append1(r, a), h)
        BY <1>4, <2>1, AppendAllIs
    <2>8. /\ AppendAll(r, <<>>) = r /\ AppendAll(r, <<h>>) = Append1(r, h)
          /\ AppendAll(r, <<h, h>>) = Append1(Append1(r, h), h)
        BY <1>4, <2>1, AppendAllIs
    <2>3. CASE artifacts \o past = <<>>
        <3>1. u = r
            BY <2>3, <2>7 DEF u
        <3> QED
            BY <1>4, <3>1, RenewsSame
    <2>4. CASE artifacts \o past = <<a>>
        <3>1. u = Append1(r, a)
            BY <2>4, <2>7 DEF u
        <3> QED
            BY <1>4, <2>1, <3>1, Added
    <2>5. CASE artifacts \o past = <<h>>
        <3>1. u = Append1(r, h)
            BY <2>5, <2>8 DEF u
        <3> QED
            BY <1>4, <2>1, <3>1, Added
    <2>6. CASE artifacts \o past = <<a, h>>
        <3> DEFINE v == Append1(r, a)
        <3>1. u = Append1(v, h)
            BY <2>6, <2>7 DEF u
        <3>2. Sound(v) /\ Renews(r, v)
            BY <1>4, <2>1, Added
        <3> HIDE DEF v
        <3>3. Sound(u) /\ Renews(v, u)
            BY <2>1, <3>1, <3>2, Added
        <3> QED
            BY <1>4, <3>2, <3>3, RenewsOn
    <2> QED
        BY <2>2, <2>3, <2>4, <2>5, <2>6
<1>6. Commit(u, surface)
    BY <1>3, <1>4
<1> HIDE DEF u
<1>7. Renews(Now, u)
    BY <1>1, <1>4, <1>5, RenewsOn
<1> QED
    BY <1>1, <1>3, <1>5, <1>6, <1>7, CommitKeeps

LEMMA SurfaceMessageKeeps == ASSUME TranscriptInv, SurfaceMessage PROVE TranscriptInv'
<1> DEFINE u == Append1(Now, SurfaceBlock)
<1>1. Sound(Now) /\ ~Now.crashed /\ surface + 1 \in Nat /\ (~fetched => Tidy(Now.entries))
    BY Standing
<1>2. /\ SurfaceBlock \in Blocks /\ SurfaceBlock.of = "none"
      /\ SurfaceBlock.id \notin PillIds /\ SurfaceBlock.id \notin ArtifactIds
    BY BlocksAre, BlockIds
<1>3. AppendAll(Now, <<SurfaceBlock>>) = u
    BY <1>1, <1>2, AppendAllIs
<1>4. Commit(u, surface + 1) /\ fetched' = fetched /\ fetched \in BOOLEAN
    BY <1>3 DEF SurfaceMessage, TranscriptInv
<1>5. /\ Sound(u) /\ Renews(Now, u) /\ u.crashed = Now.crashed
      /\ (TidyBut(Now.entries, "none") => TidyBut(u.entries, "none"))
    BY <1>1, <1>2, Added
<1> HIDE DEF u
<1>6. ~fetched' => Tidy(u.entries)
    BY <1>1, <1>4, <1>5 DEF Tidy
<1> QED
    BY <1>1, <1>4, <1>5, <1>6, CommitKeeps

LEMMA NoteKeeps == ASSUME TranscriptInv, Note PROVE TranscriptInv'
<1> DEFINE u == Append1(Now, Status)
<1>1. Sound(Now) /\ ~Now.crashed /\ surface \in Nat /\ (~fetched => Tidy(Now.entries))
    BY Standing
<1>2. Status \in Blocks /\ Status.of = "none" /\ Status.id \notin PillIds /\ Status.id \notin ArtifactIds
    BY BlocksAre, BlockIds
<1>3. Commit(u, surface) /\ fetched' = fetched /\ fetched \in BOOLEAN
    BY DEF Note, TranscriptInv
<1>4. /\ Sound(u) /\ Renews(Now, u) /\ u.crashed = Now.crashed
      /\ (TidyBut(Now.entries, "none") => TidyBut(u.entries, "none"))
    BY <1>1, <1>2, Added
<1> HIDE DEF u
<1>5. ~fetched' => Tidy(u.entries)
    BY <1>1, <1>3, <1>4 DEF Tidy
<1> QED
    BY <1>1, <1>3, <1>4, <1>5, CommitKeeps

LEMMA ResizeKeeps == ASSUME TranscriptInv, NEW w \in Widths, Resize(w) PROVE TranscriptInv'
<1>1. /\ entries' = entries /\ seq' = seq /\ crashed' = crashed /\ fetched' = fetched
      /\ Refresh(w, surface)
    BY DEF Resize
<1>2. /\ Sound(Now) /\ surface \in Nat /\ cache \in Caches /\ order \in Seq(Keys)
      /\ CacheTrue(cache, Now.entries, Now.seq) /\ Bounded(cache, order)
      /\ entries' = Now.entries /\ seq' = Now.seq
    BY <1>1, NowIs DEF TranscriptInv
<1>3. /\ width' \in Widths /\ surface' \in Nat /\ cache' \in Caches /\ order' \in Seq(Keys)
      /\ CacheTrue(cache, entries, seq)' /\ Bounded(cache, order)' /\ ScreenFaithful'
    <2> HIDE DEF TranscriptInv
    <2> QED
        BY <1>1, <1>2, Refreshed
<1>4. Sound(Now)' /\ NeverPanics' /\ (~fetched => Tidy(entries))' /\ crashed' \in BOOLEAN /\ fetched' \in BOOLEAN
    <2>1. Now' = Now
        BY <1>1 DEF Now
    <2> QED
        BY <1>1, <1>2, <2>1 DEF TranscriptInv, NeverPanics
<1> QED
    BY <1>3, <1>4 DEF TranscriptInv

LEMMA ClearKeeps == ASSUME TranscriptInv, Clear PROVE TranscriptInv'
<1> DEFINE none == [k \in {} |-> <<>>]
<1>1. /\ entries' = <<>> /\ seq' = 0 /\ cache' = none /\ order' = <<>> /\ screen' = <<>> /\ fetched' = FALSE
      /\ width' = width /\ surface' = surface /\ crashed' = crashed
    BY DEF Clear
<1>2. ~crashed
    BY DEF Clear, Running
<1>3. <<>> \in Seq(Numbered) /\ <<>> \in Seq(Keys) /\ DOMAIN <<>> = {} /\ Len(<<>>) = 0
    BY EmptySeq
<1>4. Sound(Now)'
    <2>1. Now' = [entries |-> <<>>, seq |-> 0, crashed |-> FALSE]
        BY <1>1 DEF Now
    <2>2. Now' \in Transcripts
        BY <1>3, <2>1 DEF Transcripts
    <2>3. KeepsIds(<<>>)
        BY <1>3 DEF KeepsIds
    <2> QED
        BY <1>3, <2>1, <2>2, <2>3 DEF Sound
<1>5. none \in Caches /\ DOMAIN none = {}
    <2>1. {} \in SUBSET Keys /\ none \in [{} -> Shown] /\ DOMAIN none = {}
        OBVIOUS
    <2> HIDE DEF none
    <2> QED
        BY <2>1, CachesAre
<1> HIDE DEF none
<1>6. CacheTrue(cache, entries, seq)'
    BY <1>1, <1>5 DEF CacheTrue
<1>7. Bounded(cache, order)'
    <2>1. MaxRenderCache \in Nat
        BY TranscriptAssumption
    <2>2. Range(<<>>) = {} /\ IsInjective(<<>>)
        BY <1>3 DEF Range, IsInjective
    <2> QED
        BY <1>1, <1>3, <1>5, <2>1, <2>2 DEF Bounded
<1>8. ScreenFaithful' /\ NeverPanics' /\ Tidy(entries)'
    BY <1>1, <1>2, <1>3 DEF ScreenFaithful, NeverPanics, Tidy, TidyBut
<1>9. width' \in Widths /\ surface' \in Nat /\ crashed' \in BOOLEAN
    BY <1>1 DEF TranscriptInv
<1> QED
    BY <1>1, <1>3, <1>4, <1>5, <1>6, <1>7, <1>8, <1>9 DEF TranscriptInv

LEMMA TranscriptNext == TranscriptInv /\ [Next]_vars => TranscriptInv'
<1> SUFFICES ASSUME TranscriptInv, [Next]_vars PROVE TranscriptInv'
    OBVIOUS
<1>1. CASE UNCHANGED vars
    <2>1. Now' = Now
        BY <1>1 DEF vars, Now
    <2> QED
        BY <1>1, <2>1 DEF vars, TranscriptInv, ScreenFaithful, NeverPanics
<1>2. CASE \E t \in Tasks, st \in PillStates : TaskUpdate(t, st)
    BY <1>2, TaskUpdateKeeps
<1>3. CASE \E t \in Tasks : AgentMessage(t)
    BY <1>3, AgentMessageKeeps
<1>4. CASE \E t \in Tasks, c \in {"one", "two"} : ArtifactUpdate(t, c)
    BY <1>4, ArtifactUpdateKeeps
<1>5. CASE \E t \in Tasks, st \in PillStates :
               \E artifacts \in {<<>>, <<Artifact(t, "one")>>}, past \in {<<>>, <<Text(t)>>} :
                   TaskResult(t, st, artifacts, past)
    BY <1>5, TaskResultKeeps
<1>6. CASE Connected
    BY <1>6, ConnectedKeeps
<1>7. CASE SurfaceMessage
    BY <1>7, SurfaceMessageKeeps
<1>8. CASE Note
    BY <1>8, NoteKeeps
<1>9. CASE \E w \in Widths : Resize(w)
    BY <1>9, ResizeKeeps
<1>10. CASE Clear
    BY <1>10, ClearKeeps
<1> QED
    BY <1>1, <1>2, <1>3, <1>4, <1>5, <1>6, <1>7, <1>8, <1>9, <1>10 DEF Next

\* The transcript's instance IDs are its own, its cache is true of it, and events keep it
\* tidy (transcript.go).
THEOREM TranscriptHolds == Spec => []TranscriptInv
BY InitTranscript, TranscriptNext, PTL DEF Spec

\* transcript.go:140 Render: what the cache holds under an instance ID and a width is the
\* block that has this ID now, whatever was replaced, moved, removed, evicted, resized or
\* cleared; the screen shows the blocks in their order; cache and queue keep in step.
THEOREM ScreenShowsTheTranscript == Spec => []CacheSound
<1>1. TranscriptInv => CacheSound
    <2> SUFFICES ASSUME TranscriptInv PROVE CacheSound
        OBVIOUS
    <2>1. entries \in Seq(Numbered) /\ seq \in Nat /\ \A i \in 1..Len(entries) : entries[i] \in Entries
        <3>1. Sound(Now)
            BY DEF TranscriptInv
        <3>2. /\ entries \in Seq(Numbered) /\ seq \in Nat
              /\ \A i \in 1..Len(entries) : entries[i] \in Numbered /\ entries[i].inst \in 1..seq
            BY <3>1, NowIs, SoundIs
        <3> QED
            BY <3>2 DEF Entries, Numbered
    <2>2. entries \in Seq(Entries)
        BY <2>1
    <2>3. \A k \in DOMAIN cache : k \in (Nat \X Widths)
        BY CachesAre DEF TranscriptInv, Keys
    <2>4. TypeOK
        BY <2>1, <2>2, <2>3 DEF TypeOK, TranscriptInv
    <2>5. CacheBounded
        BY DEF TranscriptInv, Bounded, CacheBounded
    <2> QED
        BY <2>4, <2>5 DEF CacheSound, TranscriptInv
<1> QED
    BY <1>1, TranscriptHolds, PTL

\* view_chat.go:104 "Land the finished pill after the turn's content" and transcript.go:62
\* ReplaceByID: events alone never run the transcript past its end, no task has two pills,
\* and nothing of a task comes below its verdict.
THEOREM EventsLeaveOrder == Spec => []EventsKeepOrder
<1>1. TranscriptInv => EventsKeepOrder
    <2> SUFFICES ASSUME TranscriptInv PROVE EventsKeepOrder
        OBVIOUS
    <2>1. Sound(Now) /\ NeverPanics /\ (~fetched => Tidy(entries))
        BY DEF TranscriptInv
    <2>2. ASSUME NEW t \in Tasks PROVE Cardinality(Matches(entries, PillId(t))) <= 1
        <3> DEFINE S == Matches(entries, PillId(t))
        <3>1. \A i, j \in S : i = j
            BY Standing, NowIs DEF AtMostOne, Matches
        <3> HIDE DEF S
        <3>2. S = {} \/ \E i : S = {i}
            BY <3>1
        <3>3. CASE S = {}
            <4>1. Cardinality({}) = 0
                BY FS_EmptySet
            <4> QED
                BY <3>3, <4>1 DEF S
        <3>4. CASE \E i : S = {i}
            <4>1. PICK i : S = {i}
                BY <3>4
            <4>2. Cardinality({i}) = 1
                BY FS_Singleton
            <4> QED
                BY <4>1, <4>2 DEF S
        <3> QED
            BY <3>2, <3>3, <3>4
    <2>3. VerdictLast
        <3>1. \A i \in DOMAIN entries : entries[i].block.content = "completed" => entries[i].block.of # "none"
            BY <2>1, NowIs, SoundIs, BlockFacts, TranscriptAssumption
        <3> QED
            BY <2>1, <3>1 DEF VerdictLast, Tidy, TidyBut
    <2> QED
        BY <2>1, <2>2, <2>3 DEF EventsKeepOrder, OnePillPerTask
<1> QED
    BY <1>1, TranscriptHolds, PTL

------------------------------------------------------------------------------
(* SurfacePane: the engine and its batches.                                   *)

\* ids has every element of S, and each once.
Lists(ids, S) ==
    /\ ids \in Seq(SurfaceIDs) /\ Range(ids) = S
    /\ \A i, j \in DOMAIN ids : i # j => ids[i] # ids[j]

LEMMA ListsCount ==
    ASSUME NEW S, NEW ids, Lists(ids, S)
    PROVE  IsFiniteSet(S) /\ Len(ids) = Cardinality(S)
<1>1. Len(ids) \in Nat /\ DOMAIN ids = 1..Len(ids) /\ ids \in [1..Len(ids) -> S]
    BY LenProperties DEF Lists, Range
<1>2. ids \in Bijection(1..Len(ids), S)
    BY <1>1 DEF Lists, Range, Bijection, Injection, Surjection, IsInjective
<1>3. ExistsBijection(1..Len(ids), S)
    BY <1>2 DEF ExistsBijection
<1>4. IsFiniteSet(1..Len(ids)) /\ Cardinality(1..Len(ids)) = Len(ids)
    BY <1>1, FS_Interval
<1> QED
    BY <1>3, <1>4, FS_Bijection

LEMMA ListsWithout ==
    ASSUME NEW S, NEW ids, Lists(ids, S), NEW s
    PROVE  Lists(RemoveFirst(ids, s), S \ {s})
<1>1. Len(ids) \in Nat /\ DOMAIN ids = 1..Len(ids) /\ ids \in Seq(SurfaceIDs)
    BY LenProperties DEF Lists
<1>2. CASE ~\E i \in 1..Len(ids) : ids[i] = s
    <2>1. RemoveFirst(ids, s) = ids
        BY <1>2 DEF RemoveFirst
    <2>2. s \notin S
        BY <1>1, <1>2 DEF Lists, Range
    <2> QED
        BY <2>1, <2>2 DEF Lists
<1>3. CASE \E i \in 1..Len(ids) : ids[i] = s
    <2>1. PICK k \in 1..Len(ids) : ids[k] = s
        BY <1>3
    <2> DEFINE I == {i \in 1..Len(ids) : ids[i] = s}
    <2>2. I = {k}
        BY <1>1, <2>1 DEF Lists
    <2>3. SelectInSeq(ids, LAMBDA v : v = s) = k
        <3>1. SelectInSeq(ids, LAMBDA v : v = s) = Min(I)
            BY <2>1 DEF SelectInSeq
        <3>2. Min({k}) = k
            BY <1>1 DEF Min
        <3> QED
            BY <2>2, <3>1, <3>2
    <2> DEFINE r == RemoveAt(ids, k)
    <2>4. RemoveFirst(ids, s) = r
        BY <1>3, <2>3 DEF RemoveFirst
    <2>5. /\ r \in Seq(SurfaceIDs) /\ Len(r) = Len(ids) - 1
          /\ \A j \in 1..Len(ids) - 1 : r[j] = IF j < k THEN ids[j] ELSE ids[j + 1]
        BY <1>1, RemoveAtIs
    <2> HIDE DEF r, I
    <2>6. DOMAIN r = 1..Len(ids) - 1
        BY <1>1, <2>5, LenProperties
    <2>7. \A i, j \in DOMAIN r : i # j => r[i] # r[j]
        <3>1. \A i, j \in DOMAIN r : i # j => (IF i < k THEN i ELSE i + 1) # (IF j < k THEN j ELSE j + 1)
            BY <1>1, <2>6
        <3>2. \A i \in DOMAIN r : /\ (IF i < k THEN i ELSE i + 1) \in 1..Len(ids)
                                  /\ r[i] = ids[IF i < k THEN i ELSE i + 1]
            BY <1>1, <2>5, <2>6
        <3> QED
            BY <1>1, <3>1, <3>2 DEF Lists
    <2>8. ASSUME NEW x PROVE x \in Range(r) <=> x \in S \ {s}
        <3>1. ASSUME x \in Range(r) PROVE x \in S \ {s}
            <4>1. PICK j \in DOMAIN r : x = r[j]
                BY <3>1 DEF Range
            <4>2. PICK i \in 1..Len(ids) : x = ids[i] /\ i # k
                BY <1>1, <2>5, <2>6, <4>1
            <4> QED
                BY <1>1, <2>1, <4>2 DEF Lists, Range
        <3>2. ASSUME x \in S \ {s} PROVE x \in Range(r)
            <4>1. PICK i \in 1..Len(ids) : x = ids[i]
                BY <1>1, <3>2 DEF Lists, Range
            <4>2. i # k
                BY <2>1, <3>2, <4>1
            <4>3. CASE i < k
                <5>1. i \in DOMAIN r /\ r[i] = x
                    BY <1>1, <2>5, <2>6, <4>1, <4>3
                <5> QED
                    BY <5>1 DEF Range
            <4>4. CASE i > k
                <5>1. i - 1 \in DOMAIN r /\ r[i - 1] = x
                    BY <1>1, <2>5, <2>6, <4>1, <4>4
                <5> QED
                    BY <5>1 DEF Range
            <4> QED
                BY <1>1, <4>2, <4>3, <4>4
        <3> QED
            BY <3>1, <3>2
    <2>9. Range(r) = S \ {s}
        BY <2>8
    <2> QED
        BY <2>4, <2>5, <2>7, <2>9 DEF Lists
<1> QED
    BY <1>2, <1>3

LEMMA ListsWith ==
    ASSUME NEW S, NEW ids, Lists(ids, S), NEW s \in SurfaceIDs, s \notin S
    PROVE  Lists(Append(ids, s), S \cup {s})
<1> DEFINE r == Append(ids, s)
<1>1. Len(ids) \in Nat /\ DOMAIN ids = 1..Len(ids) /\ ids \in Seq(SurfaceIDs)
    BY LenProperties DEF Lists
<1>2. /\ r \in Seq(SurfaceIDs) /\ Len(r) = Len(ids) + 1 /\ r[Len(ids) + 1] = s
      /\ \A i \in 1..Len(ids) : r[i] = ids[i]
    BY <1>1, AppendProperties
<1> HIDE DEF r
<1>3. DOMAIN r = 1..Len(ids) + 1
    BY <1>1, <1>2, LenProperties
<1>4. \A i \in 1..Len(ids) : r[i] # s
    BY <1>1, <1>2 DEF Lists, Range
<1>5. ASSUME NEW i \in DOMAIN r, NEW j \in DOMAIN r, i # j PROVE r[i] # r[j]
    <2>1. CASE i \in 1..Len(ids) /\ j \in 1..Len(ids)
        BY <1>1, <1>2, <1>5, <2>1 DEF Lists
    <2>2. CASE i = Len(ids) + 1
        BY <1>1, <1>2, <1>3, <1>4, <1>5, <2>2
    <2>3. CASE j = Len(ids) + 1
        BY <1>1, <1>2, <1>3, <1>4, <1>5, <2>3
    <2> QED
        BY <1>1, <1>3, <2>1, <2>2, <2>3
<1>6. Range(r) = S \cup {s}
    <2>1. \A x : x \in Range(r) <=> \E i \in 1..Len(ids) + 1 : x = r[i]
        BY <1>3 DEF Range
    <2>2. \A x : x \in S <=> \E i \in 1..Len(ids) : x = r[i]
        BY <1>1, <1>2 DEF Lists, Range
    <2>3. \A i : i \in 1..Len(ids) + 1 <=> i \in 1..Len(ids) \/ i = Len(ids) + 1
        BY <1>1
    <2> QED
        BY <1>2, <2>1, <2>2, <2>3
<1>7. Lists(r, S \cup {s})
    BY <1>2, <1>5, <1>6 DEF Lists
<1> QED
    BY <1>7 DEF r

\* The content of an object, and an engine, whatever batches have made of it.
IsSurface(c) ==
    /\ c = [components |-> c.components, data |-> c.data]
    /\ IsComponents(c.components) /\ Cardinality(DOMAIN c.components) <= MaxComponents
    /\ IsData(c.data)

Apart(live) == \A s, u \in SurfaceIDs : s # u /\ live[s] # 0 => live[s] # live[u]

IsEngine(e) ==
    /\ e = [live |-> e.live, heap |-> e.heap, recent |-> e.recent, synced |-> e.synced]
    /\ e.live \in [SurfaceIDs -> Objects \cup {0}] /\ Apart(e.live)
    /\ e.heap = [n \in Objects |-> e.heap[n]] /\ \A n \in Objects : IsSurface(e.heap[n])
    /\ Lists(e.recent, LiveIDs(e))

\* Engine q is e but for the content c of object n, which is new.
Wrote(e, q, n, c) ==
    /\ q.live = e.live
    /\ q.heap[n] = c /\ \A k \in Objects \ {n} : q.heap[k] = e.heap[k]
    /\ q.synced = (IF e.synced = n THEN 0 ELSE e.synced)

LEMMA ObjectsAre ==
    /\ IsFiniteSet(SurfaceIDs) /\ Cardinality(SurfaceIDs) \in Nat /\ 0 \notin SurfaceIDs
    /\ Objects = 1..Cardinality(SurfaceIDs) + 1 /\ 0 \notin Objects
    /\ IsFiniteSet(Objects) /\ Cardinality(Objects) = Cardinality(SurfaceIDs) + 1
<1>1. IsFiniteSet(SurfaceIDs) /\ Cardinality(SurfaceIDs) \in Nat
    BY FS_CardinalityType, EngineAssumption
<1>2. 0 \notin SurfaceIDs
    BY EngineAssumption
<1>3. IsFiniteSet(Objects) /\ Cardinality(Objects) = Cardinality(SurfaceIDs) + 1
    BY <1>1, FS_Interval DEF Objects
<1> QED
    BY <1>1, <1>2, <1>3 DEF Objects

LEMMA EmptySurfaceIs == IsSurface(EmptySurface) /\ ~HasRoot(EmptySurface) /\ IsData(NoData)
<1>1. IsFiniteSet({}) /\ Cardinality({}) = 0
    BY FS_EmptySet
<1>2. DOMAIN <<>> = {}
    OBVIOUS
<1>3. IsComponents(<<>>)
    BY <1>1, <1>2 DEF IsComponents
<1>4. IsData(NoData)
    BY DEF IsData, NoData, Cell, Value
<1> QED
    BY <1>1, <1>2, <1>3, <1>4, EngineAssumption DEF IsSurface, EmptySurface, HasRoot

LEMMA NoEngineIs == IsEngine(NoEngine) /\ LiveIDs(NoEngine) = {}
<1> DEFINE e == NoEngine
<1>1. /\ e.live = [s \in SurfaceIDs |-> 0] /\ e.heap = [n \in Objects |-> EmptySurface]
      /\ e.recent = <<>>
      /\ e = [live |-> e.live, heap |-> e.heap, recent |-> e.recent, synced |-> e.synced]
    BY DEF NoEngine
<1> HIDE DEF e
<1>2. LiveIDs(e) = {}
    BY <1>1 DEF LiveIDs
<1>3. Lists(<<>>, {})
    BY DEF Lists, Range
<1>4. e.heap = [n \in Objects |-> e.heap[n]] /\ \A n \in Objects : IsSurface(e.heap[n])
    BY <1>1, EmptySurfaceIs
<1>5. e.live \in [SurfaceIDs -> Objects \cup {0}] /\ Apart(e.live)
    BY <1>1 DEF Apart
<1>6. IsEngine(e)
    BY <1>1, <1>2, <1>3, <1>4, <1>5 DEF IsEngine
<1> QED
    BY <1>2, <1>6 DEF e

\* A write to an object, for an engine in which identifier s may still be missing from recent.
LEMMA WriteIs ==
    ASSUME NEW e, NEW n \in Objects, NEW c, IsSurface(c), NEW s, NEW S,
           e = [live |-> e.live, heap |-> e.heap, recent |-> e.recent, synced |-> e.synced],
           e.live \in [SurfaceIDs -> Objects \cup {0}], Apart(e.live),
           e.heap = [k \in Objects |-> e.heap[k]], \A k \in Objects : IsSurface(e.heap[k]),
           Lists(e.recent, S),
           S = LiveIDs(e) \/ (S = LiveIDs(e) \ {s} /\ s \in SurfaceIDs /\ e.live[s] = n)
    PROVE  IsEngine(Write(e, n, c, s)) /\ Wrote(e, Write(e, n, c, s), n, c)
<1> DEFINE q == Write(e, n, c, s)
           top == s \in SurfaceIDs /\ e.live[s] = n
<1>1. /\ q.live = e.live /\ q.heap = [e.heap EXCEPT ![n] = c]
      /\ q.recent = IF top THEN Append(RemoveFirst(e.recent, s), s) ELSE e.recent
      /\ q.synced = IF e.synced = n THEN 0 ELSE e.synced
      /\ q = [live |-> q.live, heap |-> q.heap, recent |-> q.recent, synced |-> q.synced]
    BY Zenon DEF Write
<1> HIDE DEF q
<1>2. LiveIDs(q) = LiveIDs(e)
    BY <1>1 DEF LiveIDs
<1>3. q.heap[n] = c /\ \A k \in Objects \ {n} : q.heap[k] = e.heap[k]
    BY <1>1
<1>4. q.heap = [k \in Objects |-> q.heap[k]] /\ \A k \in Objects : IsSurface(q.heap[k])
    <2>1. q.heap = [k \in Objects |-> q.heap[k]]
        BY <1>1
    <2> QED
        BY <1>3, <2>1
<1>5. Lists(q.recent, LiveIDs(e))
    <2>1. CASE top
        <3>1. s \in LiveIDs(e)
            BY <2>1, ObjectsAre DEF LiveIDs
        <3>2. (S \ {s}) \cup {s} = LiveIDs(e)
            BY <3>1
        <3>3. Lists(RemoveFirst(e.recent, s), S \ {s})
            BY ListsWithout
        <3>4. Lists(Append(RemoveFirst(e.recent, s), s), (S \ {s}) \cup {s})
            BY <2>1, <3>3, ListsWith
        <3> QED
            BY <1>1, <2>1, <3>2, <3>4
    <2>2. CASE ~top
        BY <1>1, <2>2
    <2> QED
        BY <2>1, <2>2
<1>6. IsEngine(q) /\ Wrote(e, q, n, c)
    BY <1>1, <1>2, <1>3, <1>4, <1>5 DEF IsEngine, Wrote
<1> QED
    BY <1>6 DEF q

\* The common case of it.
LEMMA WriteEngine ==
    ASSUME NEW e, IsEngine(e), NEW n \in Objects, NEW c, IsSurface(c), NEW s
    PROVE  IsEngine(Write(e, n, c, s)) /\ Wrote(e, Write(e, n, c, s), n, c)
BY WriteIs DEF IsEngine

LEMMA FreedIs ==
    ASSUME NEW e, IsEngine(e), NEW n
    PROVE  /\ IsEngine(Freed(e, n)) /\ Freed(e, n).live = e.live
           /\ Freed(e, n).synced = e.synced /\ Freed(e, n).recent = e.recent
           /\ \A k \in Objects : k # n \/ (\E s \in SurfaceIDs : e.live[s] = n)
                                  => Freed(e, n).heap[k] = e.heap[k]
<1> DEFINE q == Freed(e, n)
<1>1. CASE \E s \in SurfaceIDs : e.live[s] = n
    BY <1>1 DEF Freed
<1>2. CASE ~\E s \in SurfaceIDs : e.live[s] = n
    <2>1. /\ q.live = e.live /\ q.recent = e.recent /\ q.synced = e.synced
          /\ q.heap = [k \in Objects |-> IF k = n THEN EmptySurface ELSE e.heap[k]]
          /\ q = [live |-> q.live, heap |-> q.heap, recent |-> q.recent, synced |-> q.synced]
        BY <1>2 DEF Freed
    <2> HIDE DEF q
    <2>2. LiveIDs(q) = LiveIDs(e)
        BY <2>1 DEF LiveIDs
    <2>3. q.heap = [k \in Objects |-> q.heap[k]] /\ \A k \in Objects : IsSurface(q.heap[k])
        BY <2>1, EmptySurfaceIs DEF IsEngine
    <2>4. IsEngine(q)
        BY <2>1, <2>2, <2>3 DEF IsEngine
    <2>5. \A k \in Objects : k # n => q.heap[k] = e.heap[k]
        BY <2>1
    <2> QED
        BY <1>2, <2>1, <2>4, <2>5 DEF q
<1> QED
    BY <1>1, <1>2

------------------------------------------------------------------------------
(* SurfacePane: what a batch of envelopes makes of the engine, and of the     *)
(* object a widget is over.                                                   *)

\* The object a widget is over: it shows something, and no other identifier has it.
Holds(e, o, id) ==
    o \in Objects /\ HasRoot(e.heap[o]) /\ \A s \in SurfaceIDs : e.live[s] = o => s = id

\* Content c of object o, as the widget under id knows it, is what o has, or Sync will
\* find that out.
Noticed(c, e, o, id) == e.heap[o] = c \/ e.live[id] = 0 \/ e.live[id] # e.synced

Follows(c, e, o, id) == Holds(e, o, id) /\ Noticed(c, e, o, id)

\* What an envelope may do to the object a widget is over.
FollowsOn(e, q, held) ==
    \A c, id : held # 0 /\ id \in SurfaceIDs /\ Follows(c, e, held, id) => Follows(c, q, held, id)

LEMMA FollowsWrite ==
    ASSUME NEW e, IsEngine(e), NEW q, NEW n \in Objects, NEW c, NEW s \in SurfaceIDs,
           e.live[s] = n, Wrote(e, q, n, c), NEW held,
           HasRoot(e.heap[n]) => HasRoot(c)
    PROVE  FollowsOn(e, q, held)
<1> SUFFICES ASSUME NEW d, NEW id \in SurfaceIDs, held # 0, Follows(d, e, held, id)
             PROVE  Follows(d, q, held, id)
    BY DEF FollowsOn
<1>1. held \in Objects /\ HasRoot(e.heap[held]) /\ \A u \in SurfaceIDs : e.live[u] = held => u = id
    BY DEF Follows, Holds
<1>2. /\ q.live = e.live /\ q.heap[n] = c /\ (\A k \in Objects \ {n} : q.heap[k] = e.heap[k])
      /\ q.synced = (IF e.synced = n THEN 0 ELSE e.synced) /\ n # 0
    BY ObjectsAre DEF Wrote
<1>3. HasRoot(q.heap[held])
    BY <1>1, <1>2
<1>4. Holds(q, held, id)
    BY <1>1, <1>2, <1>3 DEF Holds
<1>5. Noticed(d, q, held, id)
    <2>1. CASE n = held
        <3>1. s = id /\ q.live[id] = n
            BY <1>1, <1>2, <2>1
        <3>2. q.synced # n
            BY <1>2
        <3> QED
            BY <3>1, <3>2 DEF Noticed
    <2>2. CASE n # held
        <3>1. q.heap[held] = e.heap[held]
            BY <1>1, <1>2, <2>2
        <3>2. e.live[id] # 0 /\ e.live[id] # e.synced => q.live[id] # q.synced
            BY <1>2
        <3> QED
            BY <1>2, <3>1, <3>2 DEF Noticed, Follows
    <2> QED
        BY <2>1, <2>2
<1> QED
    BY <1>4, <1>5 DEF Follows

\* A sequence, a data model, a set of components after a change.
LEMMA ComponentsMerged ==
    ASSUME NEW cs, IsComponents(cs), NEW ds, IsComponents(ds)
    PROVE  /\ IsComponents(Upserted(cs, ds))
           /\ Cardinality(DOMAIN Upserted(cs, ds)) <= Cardinality(DOMAIN cs) + Cardinality(DOMAIN ds)
           /\ Root \in DOMAIN cs => Root \in DOMAIN Upserted(cs, ds)
<1> DEFINE f == Upserted(cs, ds)
<1>0. f = [c \in DOMAIN cs \cup DOMAIN ds |-> IF c \in DOMAIN ds THEN ds[c] ELSE cs[c]]
    BY DEF Upserted
<1> HIDE DEF f
<1>1. /\ DOMAIN f = (DOMAIN ds) \cup (DOMAIN cs)
      /\ \A c \in DOMAIN f : f[c] = IF c \in DOMAIN ds THEN ds[c] ELSE cs[c]
    BY <1>0
<1>2. /\ IsFiniteSet(DOMAIN f)
      /\ Cardinality(DOMAIN f) = Cardinality(DOMAIN ds) + Cardinality(DOMAIN cs)
                                    - Cardinality((DOMAIN ds) \cap (DOMAIN cs))
    <2>1. IsFiniteSet(DOMAIN ds) /\ IsFiniteSet(DOMAIN cs)
        BY DEF IsComponents
    <2> QED
        BY <1>1, <2>1, FS_Union
<1>3. /\ Cardinality(DOMAIN ds) \in Nat /\ Cardinality(DOMAIN cs) \in Nat
      /\ Cardinality((DOMAIN ds) \cap (DOMAIN cs)) \in Nat
    <2>1. IsFiniteSet(DOMAIN ds) /\ IsFiniteSet(DOMAIN cs)
        BY DEF IsComponents
    <2>2. IsFiniteSet((DOMAIN ds) \cap (DOMAIN cs))
        BY <2>1, FS_Intersection
    <2> QED
        BY <2>1, <2>2, FS_CardinalityType
<1>4. IsComponents(f)
    <2>1. \A c \in DOMAIN f : f[c].kind \in {"text", "number", "date", "choice"}
                                => f[c].path \in Fields \cup {Relative}
        BY <1>1 DEF IsComponents
    <2>2. Root \in DOMAIN f => f[Root].kind = "column" /\ IsSequence(f[Root].children)
        BY <1>1 DEF IsComponents
    <2> QED
        BY <1>2, <2>1, <2>2 DEF IsComponents
<1>5. Cardinality(DOMAIN f) <= Cardinality(DOMAIN cs) + Cardinality(DOMAIN ds)
    BY <1>2, <1>3
<1> QED
    BY <1>1, <1>4, <1>5 DEF f

LEMMA IsDataIs ==
    ASSUME NEW d
    PROVE  IsData(d) <=> /\ d = [field |-> d.field, rows |-> d.rows]
                         /\ d.field \in [Fields -> Cell] /\ d.rows \in Seq(Value)
BY DEF IsData

LEMMA SetIsData ==
    ASSUME NEW d, IsData(d), NEW p, NEW v \in Value, CanSet(d, p)
    PROVE  /\ IsData(Set(d, p, v)) /\ Get(Set(d, p, v), p) = v
           /\ p \notin Fields => p \in Nat
           /\ p \in Fields => Set(d, p, v).rows = d.rows
           /\ p \in Fields \cup DOMAIN d.rows => DOMAIN Set(d, p, v).rows = DOMAIN d.rows
           /\ \A r : r # p => Get(Set(d, p, v), r) = Get(d, r)
<1>1. d = [field |-> d.field, rows |-> d.rows] /\ d.field \in [Fields -> Cell] /\ d.rows \in Seq(Value)
    BY IsDataIs
<1> DEFINE q == Set(d, p, v)
<1>2. v \in Cell /\ v # Blocked
    BY PaneAssumption, EngineAssumption DEF Cell, Value
<1>3. CASE p \in Fields
    <2>1. q.field = [d.field EXCEPT ![p] = v] /\ q.rows = d.rows /\ q = [field |-> q.field, rows |-> q.rows]
        BY <1>1, <1>3 DEF Set
    <2> HIDE DEF q
    <2>2. q.field \in [Fields -> Cell] /\ q.field[p] = v /\ \A r \in Fields : r # p => q.field[r] = d.field[r]
        BY <1>1, <1>2, <1>3, <2>1
    <2>3. IsData(q)
        BY <1>1, <2>1, <2>2, IsDataIs
    <2>4. Get(q, p) = v
        BY <1>2, <1>3, <2>2 DEF Get
    <2>5. \A r : r # p => Get(q, r) = Get(d, r)
        BY <2>1, <2>2 DEF Get
    <2> QED
        BY <1>3, <2>1, <2>3, <2>4, <2>5 DEF q
<1>4. CASE p \notin Fields
    <2>1. Len(d.rows) \in Nat /\ p \in 1..Len(d.rows) + 1 /\ DOMAIN d.rows = 1..Len(d.rows)
        BY <1>1, <1>4, LenProperties DEF CanSet
    <2>2. /\ q.field = d.field /\ q = [field |-> q.field, rows |-> q.rows]
          /\ q.rows = IF p \in DOMAIN d.rows THEN [d.rows EXCEPT ![p] = v] ELSE Append(d.rows, v)
        BY <1>1, <1>4 DEF Set
    <2> HIDE DEF q
    <2>3. /\ q.rows \in Seq(Value) /\ p \in DOMAIN q.rows /\ q.rows[p] = v
          /\ p \in DOMAIN d.rows => DOMAIN q.rows = DOMAIN d.rows
          /\ \A r : r # p => (r \in DOMAIN q.rows <=> r \in DOMAIN d.rows)
          /\ \A r \in DOMAIN d.rows : r # p => q.rows[r] = d.rows[r]
        <3>1. CASE p \in DOMAIN d.rows
            <4>1. q.rows = [d.rows EXCEPT ![p] = v]
                BY <2>2, <3>1
            <4> QED
                BY <1>1, <2>1, <3>1, <4>1, ExceptSeq
        <3>2. CASE p \notin DOMAIN d.rows
            <4>1. q.rows = Append(d.rows, v) /\ p = Len(d.rows) + 1
                BY <2>1, <2>2, <3>2
            <4>2. /\ q.rows \in Seq(Value) /\ Len(q.rows) = Len(d.rows) + 1
                  /\ q.rows[Len(d.rows) + 1] = v /\ \A i \in 1..Len(d.rows) : q.rows[i] = d.rows[i]
                BY <1>1, <4>1, AppendProperties
            <4>3. DOMAIN q.rows = 1..Len(d.rows) + 1
                BY <4>2, LenProperties
            <4> QED
                BY <2>1, <3>2, <4>1, <4>2, <4>3
        <3> QED
            BY <3>1, <3>2
    <2>4. IsData(q)
        BY <1>1, <2>2, <2>3, IsDataIs
    <2>5. Get(q, p) = v
        BY <1>4, <2>3 DEF Get
    <2>6. \A r : r # p => Get(q, r) = Get(d, r)
        BY <2>2, <2>3 DEF Get
    <2> QED
        BY <1>4, <2>1, <2>3, <2>4, <2>5, <2>6 DEF q
<1> QED
    BY <1>3, <1>4

LEMMA DeleteIsData ==
    ASSUME NEW d, IsData(d), NEW p
    PROVE  IsData(Delete(d, p))
<1>1. d = [field |-> d.field, rows |-> d.rows] /\ d.field \in [Fields -> Cell] /\ d.rows \in Seq(Value)
    BY IsDataIs
<1> DEFINE q == Delete(d, p)
<1>2. CASE p \in Fields /\ d.field[p] # Blocked
    <2>0. p \notin DOMAIN d.rows
        <3>1. p \in DOMAIN d.rows => p \in Nat
            BY <1>1, LenProperties
        <3> QED
            BY <1>2, <3>1, EngineAssumption
    <2>1. q = [d EXCEPT !.field[p] = NoValue]
        BY <1>2, <2>0, Zenon DEF Delete
    <2>2. q.field = [d.field EXCEPT ![p] = NoValue] /\ q.rows = d.rows /\ q = [field |-> q.field, rows |-> q.rows]
        BY <1>1, <1>2, <2>1
    <2> HIDE DEF q
    <2>3. q.field \in [Fields -> Cell]
        BY <1>1, <1>2, <2>2 DEF Cell, Value
    <2>4. IsData(q)
        BY <1>1, <2>2, <2>3, IsDataIs
    <2> QED
        BY <2>4 DEF q
<1>3. CASE ~(p \in Fields /\ d.field[p] # Blocked) /\ p \in DOMAIN d.rows
    <2>0. p \notin Fields
        <3>1. p \in Nat
            BY <1>1, <1>3, LenProperties
        <3> QED
            BY <3>1, EngineAssumption
    <2>1. q = [d EXCEPT !.rows = RemoveAt(d.rows, p)]
        BY <1>3, <2>0, Zenon DEF Delete
    <2>2. q.field = d.field /\ q.rows = RemoveAt(d.rows, p) /\ q = [field |-> q.field, rows |-> q.rows]
        BY <1>1, <2>1
    <2> HIDE DEF q
    <2>3. q.rows \in Seq(Value)
        BY <1>1, <1>3, <2>2, LenProperties, RemoveAtIs
    <2>4. IsData(q)
        BY <1>1, <2>2, <2>3, IsDataIs
    <2> QED
        BY <2>4 DEF q
<1>4. CASE ~(p \in Fields /\ d.field[p] # Blocked) /\ ~(p \in DOMAIN d.rows)
    BY <1>4 DEF Delete
<1> QED
    BY <1>2, <1>3, <1>4

\* There is always an object for a new surface.
LEMMA AnObjectIsFree ==
    ASSUME NEW live \in [SurfaceIDs -> Objects \cup {0}], NEW id \in SurfaceIDs, live[id] = 0,
           NEW held
    PROVE  \E n \in Objects \ {held} : \A s \in SurfaceIDs : live[s] # n
<1> DEFINE others == SurfaceIDs \ {id}
           used == {live[s] : s \in others}
           taken == used \cup {held}
<1>1. /\ IsFiniteSet(others) /\ Cardinality(others) = Cardinality(SurfaceIDs) - 1
      /\ Cardinality(SurfaceIDs) \in Nat
    BY ObjectsAre, FS_RemoveElement
<1>2. IsFiniteSet(used) /\ Cardinality(used) <= Cardinality(others)
    <2> DEFINE f == [s \in others |-> live[s]]
    <2>1. f \in Surjection(others, used)
        BY DEF Surjection
    <2> QED
        BY <1>1, <2>1, FS_Surjection
<1>3. IsFiniteSet(taken) /\ Cardinality(taken) <= Cardinality(used) + 1
    <2>1. IsFiniteSet(used) /\ Cardinality(used) \in Nat
        BY <1>2, FS_CardinalityType
    <2>2. /\ IsFiniteSet(used \cup {held})
          /\ Cardinality(used \cup {held})
               = IF held \in used THEN Cardinality(used) ELSE Cardinality(used) + 1
        <3> HIDE DEF used
        <3> QED
            BY <2>1, FS_AddElement
    <2> QED
        BY <2>1, <2>2
<1>4. ~(Objects \subseteq taken)
    <2>1. Cardinality(used) \in Nat /\ Cardinality(taken) \in Nat
        BY <1>2, <1>3, FS_CardinalityType
    <2>2. Cardinality(taken) < Cardinality(Objects)
        BY <1>1, <1>2, <1>3, <2>1, ObjectsAre
    <2>3. Objects \subseteq taken => Cardinality(Objects) <= Cardinality(taken)
        BY <1>3, FS_Subset
    <2>4. Cardinality(Objects) \in Nat
        BY ObjectsAre, FS_CardinalityType
    <2> QED
        BY <2>1, <2>2, <2>3, <2>4
<1>5. PICK n \in Objects : n \notin taken
    BY <1>4
<1>6. \A s \in SurfaceIDs : live[s] # n
    BY <1>5, ObjectsAre
<1> QED
    BY <1>5, <1>6

\* What an envelope may make of an engine.
Keeps(e, q, held) == IsEngine(q) /\ FollowsOn(e, q, held)

LEMMA SameKeeps == ASSUME NEW e, IsEngine(e), NEW held PROVE Keeps(e, e, held)
BY DEF Keeps, FollowsOn

LEMMA CreateKeeps ==
    ASSUME NEW e, IsEngine(e), NEW env, env.id \in SurfaceIDs, IsComponents(env.components),
           IsData(env.data), NEW held
    PROVE  Keeps(e, applyCreate(e, env, held), held)
<1> DEFINE id == env.id
           P(k) == k \in Objects \ {held} /\ \A s \in SurfaceIDs : e.live[s] # k
           n == CHOOSE k \in Objects \ {held} : \A s \in SurfaceIDs : e.live[s] # k
           c == [components |-> env.components, data |-> env.data]
           g == [e EXCEPT !.live[id] = n]
           q == Write(g, n, c, id)
<1>e. /\ e = [live |-> e.live, heap |-> e.heap, recent |-> e.recent, synced |-> e.synced]
      /\ e.live \in [SurfaceIDs -> Objects \cup {0}] /\ Apart(e.live)
      /\ e.heap = [k \in Objects |-> e.heap[k]] /\ (\A k \in Objects : IsSurface(e.heap[k]))
      /\ Lists(e.recent, LiveIDs(e))
    BY DEF IsEngine
<1>0. id \in SurfaceIDs
    OBVIOUS
<1>1. CASE e.live[id] # 0 \/ Cardinality(DOMAIN env.components) > MaxComponents
    BY <1>1, SameKeeps DEF applyCreate
<1>2. CASE ~(e.live[id] # 0 \/ Cardinality(DOMAIN env.components) > MaxComponents)
    <2>1. applyCreate(e, env, held) = q
        BY <1>2 DEF applyCreate
    <2>2. IsSurface(c)
        <3>1. /\ c.components = env.components /\ c.data = env.data
              /\ c = [components |-> c.components, data |-> c.data]
            OBVIOUS
        <3>2. Cardinality(DOMAIN env.components) \in Nat /\ MaxComponents \in Nat
            BY FS_CardinalityType, EngineAssumption DEF IsComponents
        <3>3. Cardinality(DOMAIN env.components) <= MaxComponents
            BY <1>2, <3>2
        <3> HIDE DEF c
        <3> QED
            BY <3>1, <3>3 DEF IsSurface
    <2>3. n \in Objects \ {held} /\ \A s \in SurfaceIDs : e.live[s] # n
        <3>1. e.live \in [SurfaceIDs -> Objects \cup {0}]
            BY <1>e
        <3>2. \E k \in Objects \ {held} : \A s \in SurfaceIDs : e.live[s] # k
            BY <1>0, <1>2, <3>1, AnObjectIsFree
        <3> QED
            BY <3>2
    <2> HIDE DEF n, c
    <2>4. /\ g.live = [e.live EXCEPT ![id] = n] /\ g.heap = e.heap /\ g.recent = e.recent
          /\ g.synced = e.synced
          /\ g = [live |-> g.live, heap |-> g.heap, recent |-> g.recent, synced |-> g.synced]
        BY <1>e
    <2> HIDE DEF g
    <2>5. /\ g.live \in [SurfaceIDs -> Objects \cup {0}] /\ g.live[id] = n
          /\ \A s \in SurfaceIDs \ {id} : g.live[s] = e.live[s]
        BY <1>0, <2>3, <2>4, <1>e
    <2>6. Apart(g.live)
        <3>1. Apart(e.live)
            BY <1>e
        <3> QED
            BY <2>3, <2>5, <3>1 DEF Apart
    <2>7. LiveIDs(e) = LiveIDs(g) \ {id}
        BY <1>2, <2>3, <2>5, ObjectsAre DEF LiveIDs
    <2>8. IsEngine(q) /\ Wrote(g, q, n, c)
        <3>1. Lists(g.recent, LiveIDs(e))
            BY <2>4, <1>e
        <3>2. g.heap = [k \in Objects |-> g.heap[k]] /\ \A k \in Objects : IsSurface(g.heap[k])
            BY <2>4, <1>e
        <3>3. n \in Objects
            BY <2>3
        <3> QED
            BY <1>0, <2>2, <2>4, <2>5, <2>6, <2>7, <3>1, <3>2, <3>3, WriteIs
    <2> HIDE DEF q
    <2>9. FollowsOn(e, q, held)
        <3> SUFFICES ASSUME NEW d, NEW i \in SurfaceIDs, held # 0, Follows(d, e, held, i)
                     PROVE  Follows(d, q, held, i)
            BY DEF FollowsOn
        <3>1. held \in Objects /\ HasRoot(e.heap[held]) /\ \A u \in SurfaceIDs : e.live[u] = held => u = i
            BY DEF Follows, Holds
        <3>2. q.heap[held] = e.heap[held] /\ q.live = g.live
            BY <2>3, <2>4, <2>8, <3>1 DEF Wrote
        <3>3. \A u \in SurfaceIDs : q.live[u] = held => u = i
            BY <2>3, <2>5, <3>1, <3>2
        <3>4. q.synced # n /\ q.synced \in {0, e.synced} /\ n # 0
            BY <2>3, <2>4, <2>8, ObjectsAre DEF Wrote
        <3>5. Noticed(d, q, held, i)
            <4>1. CASE i = id
                BY <2>5, <3>2, <3>4, <4>1 DEF Noticed
            <4>2. CASE i # id
                BY <2>5, <3>2, <3>4, <4>2 DEF Noticed, Follows
            <4> QED
                BY <4>1, <4>2
        <3> QED
            BY <3>1, <3>2, <3>3, <3>5 DEF Follows, Holds
    <2> QED
        BY <2>1, <2>8, <2>9 DEF Keeps
<1> QED
    BY <1>1, <1>2

\* An envelope that changes the surface under an identifier.
LEMMA ChangeKeeps ==
    ASSUME NEW e, IsEngine(e), NEW s \in SurfaceIDs, NEW n, n = e.live[s], n # 0, NEW c, IsSurface(c),
           HasRoot(e.heap[n]) => HasRoot(c), NEW held
    PROVE  Keeps(e, Write(e, n, c, s), held)
<1>e. /\ e = [live |-> e.live, heap |-> e.heap, recent |-> e.recent, synced |-> e.synced]
      /\ e.live \in [SurfaceIDs -> Objects \cup {0}] /\ Apart(e.live)
      /\ e.heap = [k \in Objects |-> e.heap[k]] /\ (\A k \in Objects : IsSurface(e.heap[k]))
      /\ Lists(e.recent, LiveIDs(e))
    BY DEF IsEngine
<1>1. n \in Objects
    BY <1>e
<1>2. IsEngine(Write(e, n, c, s)) /\ Wrote(e, Write(e, n, c, s), n, c)
    BY <1>1, WriteEngine
<1>3. FollowsOn(e, Write(e, n, c, s), held)
    BY <1>1, <1>2, FollowsWrite
<1> QED
    BY <1>2, <1>3 DEF Keeps

LEMMA UpdateComponentsKeeps ==
    ASSUME NEW e, IsEngine(e), NEW env, env.id \in SurfaceIDs, IsComponents(env.components), NEW held
    PROVE  Keeps(e, applyUpdateComponents(e, env), held)
<1> DEFINE n == e.live[env.id]
           c == e.heap[n]
           much == Cardinality(DOMAIN c.components) + Cardinality(DOMAIN env.components)
           d == [c EXCEPT !.components = Upserted(@, env.components)]
<1>e. /\ e = [live |-> e.live, heap |-> e.heap, recent |-> e.recent, synced |-> e.synced]
      /\ e.live \in [SurfaceIDs -> Objects \cup {0}] /\ Apart(e.live)
      /\ e.heap = [k \in Objects |-> e.heap[k]] /\ (\A k \in Objects : IsSurface(e.heap[k]))
      /\ Lists(e.recent, LiveIDs(e))
    BY DEF IsEngine
<1>0. env.id \in SurfaceIDs
    OBVIOUS
<1>1. CASE n = 0 \/ much > MaxComponents
    BY <1>1, SameKeeps DEF applyUpdateComponents
<1>2. CASE n # 0 /\ ~(much > MaxComponents)
    <2>1. applyUpdateComponents(e, env) = Write(e, n, d, env.id)
        BY <1>2 DEF applyUpdateComponents
    <2>2. IsSurface(c)
        BY <1>0, <1>2, <1>e
    <2> HIDE DEF c
    <2>3. /\ d.components = Upserted(c.components, env.components) /\ d.data = c.data
          /\ d = [components |-> d.components, data |-> d.data]
        BY <2>2 DEF IsSurface
    <2>4. IsComponents(c.components) /\ IsData(c.data)
        BY <2>2 DEF IsSurface
    <2>5. /\ IsComponents(d.components)
          /\ Cardinality(DOMAIN d.components)
               <= Cardinality(DOMAIN c.components) + Cardinality(DOMAIN env.components)
          /\ HasRoot(c) => HasRoot(d)
        BY <2>3, <2>4, ComponentsMerged DEF HasRoot
    <2>6. /\ Cardinality(DOMAIN c.components) \in Nat /\ Cardinality(DOMAIN env.components) \in Nat
          /\ Cardinality(DOMAIN d.components) \in Nat /\ MaxComponents \in Nat
        BY <2>4, <2>5, FS_CardinalityType, EngineAssumption DEF IsComponents
    <2>7. Cardinality(DOMAIN d.components) <= MaxComponents
        BY <1>2, <2>5, <2>6
    <2> HIDE DEF d
    <2>8. IsSurface(d)
        BY <2>3, <2>4, <2>5, <2>7 DEF IsSurface
    <2>9. Keeps(e, Write(e, n, d, env.id), held)
        BY <1>0, <1>2, <2>5, <2>8, ChangeKeeps DEF c
    <2> QED
        BY <2>1, <2>9
<1> QED
    BY <1>1, <1>2

\* A change of the data model alone.
LEMMA DataKeeps ==
    ASSUME NEW e, IsEngine(e), NEW s \in SurfaceIDs, NEW n, n = e.live[s], n # 0,
           NEW data, IsData(data), NEW held
    PROVE  Keeps(e, Write(e, n, [e.heap[n] EXCEPT !.data = data], s), held)
<1> DEFINE c == e.heap[n]
           d == [c EXCEPT !.data = data]
<1>e. /\ e = [live |-> e.live, heap |-> e.heap, recent |-> e.recent, synced |-> e.synced]
      /\ e.live \in [SurfaceIDs -> Objects \cup {0}] /\ Apart(e.live)
      /\ e.heap = [k \in Objects |-> e.heap[k]] /\ (\A k \in Objects : IsSurface(e.heap[k]))
      /\ Lists(e.recent, LiveIDs(e))
    BY DEF IsEngine
<1>1. IsSurface(c)
    BY <1>e
<1> HIDE DEF c
<1>2. d.components = c.components /\ d.data = data /\ d = [components |-> d.components, data |-> d.data]
    BY <1>1 DEF IsSurface
<1> HIDE DEF d
<1>3. IsSurface(d) /\ (HasRoot(c) => HasRoot(d))
    BY <1>1, <1>2 DEF IsSurface, HasRoot
<1>4. Keeps(e, Write(e, n, d, s), held)
    BY <1>3, ChangeKeeps DEF c
<1> QED
    BY <1>4 DEF d, c

LEMMA ReplaceDataModelKeeps ==
    ASSUME NEW e, IsEngine(e), NEW env, env.id \in SurfaceIDs, IsData(env.data), NEW held
    PROVE  Keeps(e, applyReplaceDataModel(e, env), held)
<1>0. env.id \in SurfaceIDs
    OBVIOUS
<1>1. CASE e.live[env.id] = 0
    BY <1>1, SameKeeps DEF applyReplaceDataModel
<1>2. CASE e.live[env.id] # 0
    BY <1>0, <1>2, DataKeeps DEF applyReplaceDataModel
<1> QED
    BY <1>1, <1>2

LEMMA UpdateDataModelKeeps ==
    ASSUME NEW e, IsEngine(e), NEW env, env.id \in SurfaceIDs, env.value \in Value, NEW held
    PROVE  Keeps(e, applyUpdateDataModel(e, env), held)
<1> DEFINE n == e.live[env.id]
           d == e.heap[n].data
<1>e. /\ e = [live |-> e.live, heap |-> e.heap, recent |-> e.recent, synced |-> e.synced]
      /\ e.live \in [SurfaceIDs -> Objects \cup {0}] /\ Apart(e.live)
      /\ e.heap = [k \in Objects |-> e.heap[k]] /\ (\A k \in Objects : IsSurface(e.heap[k]))
      /\ Lists(e.recent, LiveIDs(e))
    BY DEF IsEngine
<1>0. env.id \in SurfaceIDs
    OBVIOUS
<1>1. CASE n = 0
    BY <1>1, SameKeeps DEF applyUpdateDataModel
<1>2. CASE n # 0
    <2>1. IsData(d)
        BY <1>0, <1>2, <1>e DEF IsSurface
    <2>2. CASE env.value = NoValue
        <3>1. applyUpdateDataModel(e, env)
                = Write(e, n, [e.heap[n] EXCEPT !.data = Delete(d, env.path)], env.id)
            BY <1>2, <2>2 DEF applyUpdateDataModel
        <3>2. IsData(Delete(d, env.path))
            BY <2>1, DeleteIsData
        <3> QED
            BY <1>0, <1>2, <3>1, <3>2, DataKeeps
    <2>3. CASE env.value # NoValue /\ CanSet(d, env.path)
        <3>1. applyUpdateDataModel(e, env)
                = Write(e, n, [e.heap[n] EXCEPT !.data = Set(d, env.path, env.value)], env.id)
            BY <1>2, <2>3 DEF applyUpdateDataModel
        <3>2. IsData(Set(d, env.path, env.value))
            BY <2>1, <2>3, SetIsData
        <3> QED
            BY <1>0, <1>2, <3>1, <3>2, DataKeeps
    <2>4. CASE env.value # NoValue /\ ~CanSet(d, env.path)
        BY <1>2, <2>4, SameKeeps DEF applyUpdateDataModel
    <2> QED
        BY <2>2, <2>3, <2>4
<1> QED
    BY <1>1, <1>2

LEMMA DeleteKeeps ==
    ASSUME NEW e, IsEngine(e), NEW env, env.id \in SurfaceIDs, NEW held
    PROVE  Keeps(e, applyDelete(e, env, held), held)
<1> DEFINE id == env.id
           n == e.live[id]
           g == [live |-> [e.live EXCEPT ![id] = 0], heap |-> e.heap,
                 recent |-> RemoveFirst(e.recent, id), synced |-> e.synced]
           q == applyDelete(e, env, held)
<1>e. /\ e = [live |-> e.live, heap |-> e.heap, recent |-> e.recent, synced |-> e.synced]
      /\ e.live \in [SurfaceIDs -> Objects \cup {0}] /\ Apart(e.live)
      /\ e.heap = [k \in Objects |-> e.heap[k]] /\ (\A k \in Objects : IsSurface(e.heap[k]))
      /\ Lists(e.recent, LiveIDs(e))
    BY DEF IsEngine
<1>0. id \in SurfaceIDs
    OBVIOUS
<1>1. CASE n = 0
    BY <1>1, SameKeeps DEF applyDelete
<1>2. CASE n # 0
    <2>1. q = IF n = held THEN g ELSE Freed(g, n)
        BY <1>2 DEF applyDelete
    <2>2. /\ g.live = [e.live EXCEPT ![id] = 0] /\ g.heap = e.heap
          /\ g.recent = RemoveFirst(e.recent, id) /\ g.synced = e.synced
          /\ g = [live |-> g.live, heap |-> g.heap, recent |-> g.recent, synced |-> g.synced]
        OBVIOUS
    <2> HIDE DEF g, q
    <2>3. /\ g.live \in [SurfaceIDs -> Objects \cup {0}] /\ g.live[id] = 0
          /\ \A s \in SurfaceIDs \ {id} : g.live[s] = e.live[s]
        BY <1>0, <2>2, <1>e
    <2>4. Apart(g.live)
        <3>1. Apart(e.live)
            BY <1>e
        <3> QED
            BY <2>3, <3>1 DEF Apart
    <2>5. LiveIDs(g) = LiveIDs(e) \ {id}
        BY <2>3 DEF LiveIDs
    <2>6. Lists(g.recent, LiveIDs(g))
        BY <2>2, <2>5, <1>e, ListsWithout
    <2>7. g.heap = [k \in Objects |-> g.heap[k]] /\ \A k \in Objects : IsSurface(g.heap[k])
        BY <2>2, <1>e
    <2>8. IsEngine(g)
        BY <2>2, <2>3, <2>4, <2>6, <2>7 DEF IsEngine
    <2>9. /\ IsEngine(q) /\ q.live = g.live /\ q.synced = e.synced
          /\ held \in Objects => q.heap[held] = e.heap[held]
        <3>1. CASE n = held
            BY <2>1, <2>2, <2>8, <3>1
        <3>2. CASE n # held
            BY <2>1, <2>2, <2>8, <3>2, FreedIs
        <3> QED
            BY <3>1, <3>2
    <2>10. FollowsOn(e, q, held)
        <3> SUFFICES ASSUME NEW d, NEW i \in SurfaceIDs, held # 0, Follows(d, e, held, i)
                     PROVE  Follows(d, q, held, i)
            BY DEF FollowsOn
        <3>1. held \in Objects /\ HasRoot(e.heap[held]) /\ \A u \in SurfaceIDs : e.live[u] = held => u = i
            BY DEF Follows, Holds
        <3>2. \A u \in SurfaceIDs : q.live[u] = held => u = i
            BY <2>3, <2>9, <3>1, ObjectsAre
        <3>3. Holds(q, held, i)
            BY <2>9, <3>1, <3>2 DEF Holds
        <3>4. Noticed(d, q, held, i)
            <4>1. i = id \/ i # id
                OBVIOUS
            <4> QED
                BY <2>3, <2>9, <3>1, <4>1 DEF Noticed, Follows
        <3> QED
            BY <3>3, <3>4 DEF Follows
    <2> QED
        BY <2>9, <2>10 DEF Keeps, q
<1> QED
    BY <1>1, <1>2

LEMMA EnvelopeKeeps ==
    ASSUME NEW e, IsEngine(e), NEW env, IsEnvelope(env), NEW held
    PROVE  Keeps(e, applyEnvelope(e, env, held), held)
<1>1. env.id \in SurfaceIDs
    BY DEF IsEnvelope
<1>2. CASE env.op = "createSurface" /\ IsComponents(env.components) /\ IsData(env.data)
    <2>1. applyEnvelope(e, env, held) = applyCreate(e, env, held)
        BY <1>2 DEF applyEnvelope
    <2> QED
        BY <1>1, <1>2, <2>1, CreateKeeps
<1>3. CASE env.op = "updateComponents" /\ IsComponents(env.components)
    <2>1. applyEnvelope(e, env, held) = applyUpdateComponents(e, env)
        BY <1>3 DEF applyEnvelope
    <2> QED
        BY <1>1, <1>3, <2>1, UpdateComponentsKeeps
<1>4. CASE env.op = "replaceDataModel" /\ IsData(env.data)
    <2>1. applyEnvelope(e, env, held) = applyReplaceDataModel(e, env)
        BY <1>4 DEF applyEnvelope
    <2> QED
        BY <1>1, <1>4, <2>1, ReplaceDataModelKeeps
<1>5. CASE env.op = "updateDataModel" /\ env.value \in Value
    <2>1. applyEnvelope(e, env, held) = applyUpdateDataModel(e, env)
        BY <1>5 DEF applyEnvelope
    <2> QED
        BY <1>1, <1>5, <2>1, UpdateDataModelKeeps
<1>6. CASE env.op = "deleteSurface"
    <2>1. applyEnvelope(e, env, held) = applyDelete(e, env, held)
        BY <1>6 DEF applyEnvelope
    <2> QED
        BY <1>1, <2>1, DeleteKeeps
<1> QED
    BY <1>2, <1>3, <1>4, <1>5, <1>6 DEF IsEnvelope

\* A batch: the recursion of Apply is well-founded, and every step of it keeps what it has to.
LEMMA ApplyKeeps ==
    ASSUME NEW e, IsEngine(e), NEW S, \A env \in S : IsEnvelope(env), NEW batch \in Seq(S), NEW held
    PROVE  Keeps(e, Apply(e, batch, held), held)
<1> DEFINE N == Len(batch)
           Solves(f, n) == f = [k \in 0..n |-> IF k = 0 THEN e
                                               ELSE applyEnvelope(f[k - 1], batch[k], held)]
           after == CHOOSE f : Solves(f, N)
<1>1. N \in Nat /\ \A k \in 1..N : IsEnvelope(batch[k])
    BY LenProperties, ElementOfSeq
<1>2. Apply(e, batch, held) = after[N]
    BY DEF Apply
<1> HIDE DEF N
<1>3. \E f : Solves(f, 0)
    <2> DEFINE f == [k \in 0..0 |-> e]
    <2>1. f = [k \in 0..0 |-> IF k = 0 THEN e ELSE applyEnvelope(f[k - 1], batch[k], held)]
        <3>1. \A k \in 0..0 : k = 0
            OBVIOUS
        <3> QED
            BY <3>1
    <2> QED
        BY <2>1
<1>4. ASSUME NEW n \in Nat, NEW f, Solves(f, n) PROVE \E g : Solves(g, n + 1)
    <2> DEFINE v == applyEnvelope(f[n], batch[n + 1], held)
               g == [k \in 0..n + 1 |-> IF k = n + 1 THEN v ELSE f[k]]
    <2>1. \A k \in 0..n : g[k] = f[k]
        BY SMT
    <2>2. g[n + 1] = v
        BY SMT
    <2>3. ASSUME NEW k \in 0..n + 1
          PROVE  g[k] = IF k = 0 THEN e ELSE applyEnvelope(g[k - 1], batch[k], held)
        <3>1. CASE k = n + 1
            <4>1. k # 0 /\ k - 1 = n /\ n \in 0..n
                BY <3>1
            <4>2. g[k - 1] = f[n]
                BY <2>1, <4>1
            <4> HIDE DEF g
            <4> QED
                BY <2>2, <3>1, <4>1, <4>2
        <3>2. CASE k = 0
            <4>1. k \in 0..n /\ k \in 0..n + 1
                BY <3>2
            <4>2. g[k] = f[k]
                BY <2>1, <4>1
            <4> HIDE DEF g
            <4>3. f[k] = e
                BY <1>4, <3>2, <4>1
            <4> QED
                BY <3>2, <4>2, <4>3
        <3>3. CASE k \in 1..n
            <4>1. k \in 0..n /\ k - 1 \in 0..n /\ k # 0
                BY <3>3
            <4>2. g[k] = f[k] /\ g[k - 1] = f[k - 1]
                BY <2>1, <4>1
            <4> HIDE DEF g
            <4>3. f[k] = applyEnvelope(f[k - 1], batch[k], held)
                BY <1>4, <4>1
            <4> QED
                BY <4>1, <4>2, <4>3
        <3> QED
            BY <2>3, <3>1, <3>2, <3>3
    <2>4. g = [k \in 0..n + 1 |-> g[k]]
        OBVIOUS
    <2> HIDE DEF g
    <2>5. g = [k \in 0..n + 1 |-> IF k = 0 THEN e ELSE applyEnvelope(g[k - 1], batch[k], held)]
        BY <2>3, <2>4, Zenon
    <2> QED
        BY <2>5
<1>5. \E f : Solves(f, N)
    <2> DEFINE P == {n \in Nat : \E f : Solves(f, n)}
    <2> HIDE DEF Solves
    <2>1. 0 \in P
        BY <1>3
    <2>2. \A n \in Nat : n \in P => n + 1 \in P
        BY <1>4
    <2>3. Nat \subseteq P
        <3> HIDE DEF P
        <3> QED
            BY <2>1, <2>2, NatSteps
    <2> QED
        BY <1>1, <2>3
<1>6. Solves(after, N)
    <2> HIDE DEF Solves
    <2> QED
        BY <1>5
<1> HIDE DEF after
<1>7. after[0] = e /\ \A k \in 1..N : after[k] = applyEnvelope(after[k - 1], batch[k], held)
    <2>1. \A k \in 0..N : after[k] = IF k = 0 THEN e ELSE applyEnvelope(after[k - 1], batch[k], held)
        BY <1>6
    <2>2. 0 \in 0..N /\ \A k \in 1..N : k \in 0..N /\ k # 0
        BY <1>1
    <2> QED
        BY <2>1, <2>2, Zenon
<1>8. N \in {n \in Nat : n <= N => Keeps(e, after[n], held)}
    <2> DEFINE P == {n \in Nat : n <= N => Keeps(e, after[n], held)}
    <2>1. 0 \in P
        BY <1>7, SameKeeps
    <2>2. ASSUME NEW n \in Nat, n \in P PROVE n + 1 \in P
        <3> SUFFICES ASSUME n + 1 <= N PROVE Keeps(e, after[n + 1], held)
            OBVIOUS
        <3>1. Keeps(e, after[n], held) /\ n + 1 \in 1..N /\ (n + 1) - 1 = n
            BY <1>1, <2>2
        <3> DEFINE q == applyEnvelope(after[n], batch[n + 1], held)
        <3>2. after[n + 1] = q
            BY <1>7, <3>1
        <3>3. Keeps(after[n], q, held)
            BY <1>1, <3>1, EnvelopeKeeps DEF Keeps
        <3> HIDE DEF q
        <3>4. Keeps(e, q, held)
            BY <3>1, <3>3 DEF Keeps, FollowsOn
        <3> QED
            BY <3>2, <3>4
    <2>3. Nat \subseteq P
        <3> HIDE DEF P
        <3> QED
            BY <2>1, <2>2, NatSteps
    <2> QED
        BY <1>1, <2>3
<1> QED
    BY <1>1, <1>2, <1>8

LEMMA Flattened ==
    ASSUME NEW X, NEW seqs \in Seq(Seq(X))
    PROVE  FlattenSeq(seqs) \in Seq(X)
<1> DEFINE N == Len(seqs)
           Solves(f) == f = [i \in 1..N |-> IF i = 1 THEN seqs[i] ELSE f[i - 1] \o seqs[i]]
           flatten == CHOOSE f : Solves(f)
<1>1. N \in Nat /\ \A i \in 1..N : seqs[i] \in Seq(X)
    BY LenProperties, ElementOfSeq
<1>2. CASE N = 0
    <2>1. seqs = <<>>
        BY <1>2
    <2> QED
        BY <1>2, <2>1 DEF FlattenSeq
<1>3. CASE N # 0
    <2>1. FlattenSeq(seqs) = flatten[N]
        BY <1>3 DEF FlattenSeq
    <2> HIDE DEF N
    <2>2. \E f : Solves(f)
        <3> DEFINE T == Seq(X)
                   G == [u \in T \X (1..N) |-> IF u[2] = 1 THEN seqs[1] ELSE u[1] \o seqs[u[2]]]
        <3>1. \A t \in T, i \in 1..N : G[<<t, i>>] = IF i = 1 THEN seqs[1] ELSE t \o seqs[i]
            OBVIOUS
        <3>2. \A t \in T, i \in 1..N : G[<<t, i>>] \in T
            <4>1. \A t \in T, i \in 1..N : t \o seqs[i] \in T
                BY <1>1, ConcatProperties
            <4>2. 1 \in 1..N
                BY <1>1, <1>3
            <4> QED
                BY <1>1, <3>1, <4>1, <4>2
        <3> HIDE DEF G
        <3>3. Steps(1..N, T, <<>>, G)
            BY <3>2 DEF Steps
        <3>4. PICK g : Runs(g, N, T, <<>>, G)
            BY <1>1, <3>3, RunExists
        <3> DEFINE f == [i \in 1..N |-> g[i]]
        <3>5. ASSUME NEW i \in 1..N PROVE g[i] = IF i = 1 THEN seqs[i] ELSE f[i - 1] \o seqs[i]
            <4>1. g[i] = G[<<g[i - 1], i>>] /\ g[i - 1] \in T
                <5>1. i - 1 \in 0..N
                    BY <1>1
                <5> QED
                    BY <3>4, <5>1 DEF Runs
            <4>2. g[i] = IF i = 1 THEN seqs[1] ELSE g[i - 1] \o seqs[i]
                BY <3>1, <4>1
            <4>3. i # 1 => i - 1 \in 1..N
                BY <1>1
            <4>4. i # 1 => f[i - 1] = g[i - 1]
                BY <4>3
            <4> HIDE DEF f
            <4> QED
                BY <4>2, <4>4
        <3>6. f = [i \in 1..N |-> IF i = 1 THEN seqs[i] ELSE f[i - 1] \o seqs[i]]
            <4>1. \A i \in 1..N : f[i] = g[i]
                OBVIOUS
            <4>2. f = [i \in 1..N |-> f[i]]
                OBVIOUS
            <4> HIDE DEF f
            <4> QED
                BY <3>5, <4>1, <4>2, Zenon
        <3> QED
            BY <3>6
    <2>3. Solves(flatten)
        <3> HIDE DEF Solves
        <3> QED
            BY <2>2
    <2> HIDE DEF flatten
    <2>4. \A i \in 1..N : flatten[i] = IF i = 1 THEN seqs[i] ELSE flatten[i - 1] \o seqs[i]
        BY <2>3
    <2> DEFINE P == {n \in Nat : n \in 1..N => flatten[n] \in Seq(X)}
    <2>5. 0 \in P
        OBVIOUS
    <2>6. ASSUME NEW n \in Nat, n \in P PROVE n + 1 \in P
        <3> SUFFICES ASSUME n + 1 \in 1..N PROVE flatten[n + 1] \in Seq(X)
            OBVIOUS
        <3>1. CASE n = 0
            <4>1. n + 1 = 1
                BY <3>1
            <4> QED
                BY <1>1, <2>4, <4>1
        <3>2. CASE n # 0
            <4>1. n \in 1..N /\ n + 1 # 1 /\ (n + 1) - 1 = n
                BY <1>1, <3>2
            <4>2. flatten[n] \in Seq(X) /\ seqs[n + 1] \in Seq(X)
                BY <1>1, <2>6, <4>1
            <4>3. flatten[n + 1] = flatten[n] \o seqs[n + 1]
                BY <2>4, <4>1
            <4> QED
                BY <4>2, <4>3, ConcatProperties
        <3> QED
            BY <3>1, <3>2
    <2>7. Nat \subseteq P
        <3> HIDE DEF P
        <3> QED
            BY <2>5, <2>6, NatSteps
    <2> QED
        BY <1>1, <1>3, <2>1, <2>7
<1> QED
    BY <1>2, <1>3

------------------------------------------------------------------------------
(* SurfacePane: the editors of a surface.                                     *)

\* What a surface may show: a component, in a row or outside the list.
Showable(c) ==
    {[key |-> <<n, r>>, comp |-> c.components[n]] : n \in DOMAIN c.components,
                                                    r \in {0} \cup DOMAIN c.data.rows}

LEMMA InstancesAre ==
    ASSUME NEW c, c.data.rows \in Seq(Value), NEW name
    PROVE  Instances(c, name) \in Seq(Showable(c))
<1> DEFINE X == Showable(c)
           at(n, row) == [key |-> <<n, row>>, comp |-> c.components[n]]
           of == c.components[name].of
<1>1. \A n \in DOMAIN c.components, r \in {0} \cup DOMAIN c.data.rows : at(n, r) \in X
    BY DEF Showable
<1> HIDE DEF X
<1>2. <<>> \in Seq(X)
    OBVIOUS
<1>3. CASE name \notin DOMAIN c.components
    <2>1. Instances(c, name) = <<>>
        BY <1>3 DEF Instances
    <2> QED
        BY <1>2, <2>1 DEF X
<1>4. CASE name \in DOMAIN c.components /\ c.components[name].kind # "list"
    <2>1. Instances(c, name) = <<at(name, 0)>>
        BY <1>4 DEF Instances
    <2>2. at(name, 0) \in X
        BY <1>1, <1>4
    <2> QED
        BY <2>1, <2>2 DEF X
<1>5. CASE name \in DOMAIN c.components /\ c.components[name].kind = "list"
    <2>1. CASE of \in DOMAIN c.components
        <3> DEFINE s == [i \in DOMAIN c.data.rows |-> at(of, i)]
        <3>1. Instances(c, name) = s
            BY <1>5, <2>1 DEF Instances
        <3>2. Len(c.data.rows) \in Nat /\ DOMAIN c.data.rows = 1..Len(c.data.rows)
            BY LenProperties
        <3>3. \A i \in 1..Len(c.data.rows) : at(of, i) \in X
            BY <1>1, <2>1, <3>2
        <3> HIDE DEF at
        <3>4. s \in Seq(X)
            BY <3>2, <3>3
        <3> QED
            BY <3>1, <3>4 DEF X
    <2>2. CASE of \notin DOMAIN c.components
        <3>1. Instances(c, name) = <<>>
            BY <1>5, <2>2 DEF Instances
        <3> QED
            BY <1>2, <3>1 DEF X
    <2> QED
        BY <2>1, <2>2
<1> QED
    BY <1>3, <1>4, <1>5

LEMMA DisplayedAre ==
    ASSUME NEW c, IsSurface(c), HasRoot(c)
    PROVE  Displayed(c) \in Seq(Showable(c))
<1> DEFINE children == c.components[Root].children
           seqs == [i \in DOMAIN children |-> Instances(c, children[i])]
<1>1. c.data.rows \in Seq(Value)
    BY DEF IsSurface, IsData
<1>2. IsSequence(children)
    BY DEF IsSurface, IsComponents, HasRoot
<1>3. Len(children) \in Nat /\ DOMAIN children = 1..Len(children)
    BY <1>2, LenProperties DEF IsSequence
<1>4. seqs \in Seq(Seq(Showable(c)))
    <2>1. \A i \in DOMAIN children : Instances(c, children[i]) \in Seq(Showable(c))
        BY <1>1, InstancesAre
    <2> HIDE DEF children
    <2> QED
        BY <1>3, <2>1
<1> HIDE DEF seqs
<1>5. FlattenSeq(seqs) \in Seq(Showable(c))
    BY <1>4, Flattened
<1> QED
    BY <1>5 DEF Displayed, seqs

\* It depends on the components, and on how many rows there are.
LEMMA DisplayedSame ==
    ASSUME NEW c, NEW d, d.components = c.components, DOMAIN d.data.rows = DOMAIN c.data.rows
    PROVE  Displayed(d) = Displayed(c)
<1>1. \A name : Instances(d, name) = Instances(c, name)
    BY DEF Instances
<1> QED
    BY <1>1 DEF Displayed

\* Inputs with a place for each, and a key of its own.
Apiece(ys, X) ==
    /\ ys \in Seq(X) /\ Len(ys) <= MaxFocusables
    /\ \A i \in DOMAIN ys : Focusable(ys[i])
    /\ \A i, j \in DOMAIN ys : ys[i].key = ys[j].key => i = j

LEMMA InputsAre ==
    ASSUME NEW X, NEW xs \in Seq(X)
    PROVE  Apiece(Inputs(xs), X)
<1> DEFINE N == Len(xs)
           full(ys, x) == \/ ~Focusable(x)
                          \/ Len(ys) >= MaxFocusables
                          \/ \E y \in Range(ys) : y.key = x.key
           next(ys, x) == IF full(ys, x) THEN ys ELSE Append(ys, x)
           Solves(f) == f = [n \in 0..N |-> IF n = 0 THEN <<>> ELSE next(f[n - 1], xs[n])]
           upTo == CHOOSE f : Solves(f)
           T == {ys \in Seq(X) : Apiece(ys, X)}
<1>1. N \in Nat /\ \A n \in 1..N : xs[n] \in X
    BY LenProperties, ElementOfSeq
<1>2. Inputs(xs) = upTo[N]
    BY DEF Inputs
<1> HIDE DEF N
<1>3. <<>> \in T
    BY PaneAssumption DEF Apiece
<1>4. ASSUME NEW ys \in T, NEW x \in X PROVE next(ys, x) \in T
    <2>1. CASE full(ys, x)
        BY <2>1
    <2>2. CASE ~full(ys, x)
        <3> DEFINE zs == Append(ys, x)
        <3>1. /\ Len(ys) \in Nat /\ DOMAIN ys = 1..Len(ys) /\ ys \in Seq(X) /\ Apiece(ys, X)
              /\ Len(ys) <= MaxFocusables /\ ~(Len(ys) >= MaxFocusables) /\ MaxFocusables \in Nat
            BY <2>2, LenProperties, PaneAssumption DEF Apiece
        <3>2. Focusable(x) /\ \A i \in 1..Len(ys) : ys[i].key # x.key
            BY <2>2, <3>1 DEF Range
        <3>3. /\ zs \in Seq(X) /\ Len(zs) = Len(ys) + 1 /\ zs[Len(ys) + 1] = x
              /\ \A i \in 1..Len(ys) : zs[i] = ys[i]
            BY <3>1, AppendProperties
        <3> HIDE DEF zs
        <3>4. DOMAIN zs = 1..Len(ys) + 1
            BY <3>1, <3>3, LenProperties
        <3>5. \A i \in DOMAIN zs : Focusable(zs[i])
            <4> TAKE i \in DOMAIN zs
            <4>1. CASE i \in 1..Len(ys)
                BY <3>1, <3>3, <4>1 DEF Apiece
            <4>2. CASE i = Len(ys) + 1
                BY <3>2, <3>3, <4>2
            <4> QED
                BY <3>1, <3>4, <4>1, <4>2
        <3>6. \A i, j \in DOMAIN zs : zs[i].key = zs[j].key => i = j
            <4> SUFFICES ASSUME NEW i \in DOMAIN zs, NEW j \in DOMAIN zs, zs[i].key = zs[j].key
                         PROVE  i = j
                OBVIOUS
            <4>1. CASE i \in 1..Len(ys) /\ j \in 1..Len(ys)
                BY <3>1, <3>3, <4>1 DEF Apiece
            <4>2. CASE i = Len(ys) + 1 /\ j \in 1..Len(ys)
                BY <3>2, <3>3, <4>2
            <4>3. CASE i \in 1..Len(ys) /\ j = Len(ys) + 1
                BY <3>2, <3>3, <4>3
            <4>4. CASE i = Len(ys) + 1 /\ j = Len(ys) + 1
                BY <4>4
            <4> QED
                BY <3>1, <3>4, <4>1, <4>2, <4>3, <4>4
        <3>7. Len(zs) <= MaxFocusables
            BY <3>1, <3>3
        <3>8. zs \in T
            BY <3>3, <3>5, <3>6, <3>7 DEF Apiece
        <3> QED
            BY <2>2, <3>8 DEF zs
    <2> QED
        BY <2>1, <2>2
<1> HIDE DEF T, next
<1>5. \E f : Solves(f)
    <2> DEFINE G == [u \in T \X (1..N) |-> next(u[1], xs[u[2]])]
    <2>1. \A t \in T, i \in 1..N : G[<<t, i>>] = next(t, xs[i]) /\ G[<<t, i>>] \in T
        BY <1>1, <1>4
    <2> HIDE DEF G
    <2>2. Steps(1..N, T, <<>>, G)
        BY <1>3, <2>1 DEF Steps
    <2>3. PICK g : Runs(g, N, T, <<>>, G)
        BY <1>1, <2>2, RunExists
    <2>4. \A n \in 0..N : g[n] = IF n = 0 THEN <<>> ELSE next(g[n - 1], xs[n])
        <3> TAKE n \in 0..N
        <3>1. CASE n = 0
            BY <2>3, <3>1 DEF Runs
        <3>2. CASE n # 0
            <4>1. n \in 1..N /\ n - 1 \in 0..N
                BY <1>1, <3>2
            <4>2. g[n] = G[<<g[n - 1], n>>] /\ g[n - 1] \in T
                BY <2>3, <4>1 DEF Runs
            <4> QED
                BY <2>1, <3>2, <4>1, <4>2
        <3> QED
            BY <3>1, <3>2
    <2>5. g = [n \in 0..N |-> g[n]]
        BY <2>3 DEF Runs
    <2>6. Solves(g)
        BY <2>4, <2>5, Zenon
    <2> QED
        BY <2>6
<1>6. Solves(upTo)
    <2> HIDE DEF Solves
    <2> QED
        BY <1>5
<1> HIDE DEF upTo
<1>7. \A n \in 0..N : upTo[n] = IF n = 0 THEN <<>> ELSE next(upTo[n - 1], xs[n])
    BY <1>6
<1> DEFINE P == {n \in Nat : n <= N => upTo[n] \in T}
<1>8. 0 \in P
    BY <1>1, <1>3, <1>7
<1>9. ASSUME NEW n \in Nat, n \in P PROVE n + 1 \in P
    <2> SUFFICES ASSUME n + 1 <= N PROVE upTo[n + 1] \in T
        OBVIOUS
    <2>1. n + 1 \in 0..N /\ n + 1 \in 1..N /\ n + 1 # 0 /\ (n + 1) - 1 = n /\ upTo[n] \in T
        BY <1>1, <1>9
    <2>2. upTo[n + 1] = next(upTo[n], xs[n + 1])
        BY <1>7, <2>1
    <2> QED
        BY <1>1, <1>4, <2>1, <2>2
<1>10. Nat \subseteq P
    <2> HIDE DEF P
    <2> QED
        BY <1>8, <1>9, NatSteps
<1>11. upTo[N] \in T
    BY <1>1, <1>10
<1> QED
    BY <1>2, <1>11 DEF T

\* An editor, and the paths one over content c may be bound to.
IsEditor(f) ==
    /\ f = [key |-> f.key, kind |-> f.kind, path |-> f.path, text |-> f.text,
            dirty |-> f.dirty, last |-> f.last, stray |-> f.stray]
    /\ f.text \in Texts /\ f.last \in Value /\ {f.dirty, f.stray} \subseteq BOOLEAN

\* An edit that reached the data model shows what it wrote, or what does not parse.
SaysLast(f) == HasText(f.kind) /\ f.dirty /\ ~f.stray => f.text \in {Show(f.last), Bad}
\* What EditorsTrue says of editor f over data.
Tells(f, data) == HasText(f.kind) => f.text \in {Show(Get(data, f.path)), Bad} \/ f.stray
\* What an editor has written is still there, or somebody wrote over it.
Wants(f, data) == HasText(f.kind) /\ f.dirty /\ ~f.stray => Get(data, f.path) = f.last

\* An editor that may have taken over from a predecessor, over data.
Sincere(f, data) == IsEditor(f) /\ SaysLast(f) /\ Tells(f, data) /\ Wants(f, data)

LEMMA GetIs == ASSUME NEW d, IsData(d), NEW p PROVE Get(d, p) \in Value
<1>1. d.field \in [Fields -> Cell] /\ d.rows \in Seq(Value)
    BY DEF IsData
<1>2. CASE p \in Fields
    BY <1>1, <1>2 DEF Get, Cell, Value
<1>3. CASE p \notin Fields /\ p \in DOMAIN d.rows
    <2>1. d.rows[p] \in Value
        BY <1>1, <1>3, LenProperties, ElementOfSeq
    <2> QED
        BY <1>3, <2>1 DEF Get
<1>4. CASE p \notin Fields /\ p \notin DOMAIN d.rows
    BY <1>4 DEF Get, Value
<1> QED
    BY <1>2, <1>3, <1>4

LEMMA ShowIs ==
    /\ \A v \in Value : Show(v) \in Texts
    /\ \A t \in Texts : t \in Value /\ Show(t) = t
    /\ NoValue \in Value /\ Show(NoValue) = Empty /\ {Empty, Bad} \subseteq Texts
BY PaneAssumption DEF Show, Value

\* The editor of an input that a surface shows.
LEMMA FocusableIs ==
    ASSUME NEW c, IsSurface(c), NEW x \in Showable(c), Focusable(x)
    PROVE  LET f == newFocusable(c, x)
           IN  /\ Sincere(f, c.data) /\ ~f.dirty /\ ~f.stray /\ f.key = x.key
               /\ HasText(f.kind) \/ f.kind = "choice" => f.path \in Fields \cup DOMAIN c.data.rows
<1> DEFINE f == newFocusable(c, x)
           button == x.comp.kind = "button"
           path == IF button THEN NoValue
                   ELSE IF x.comp.path = Relative THEN x.key[2] ELSE x.comp.path
<1>1. IsComponents(c.components) /\ IsData(c.data)
    BY DEF IsSurface
<1>2. PICK n \in DOMAIN c.components, r \in {0} \cup DOMAIN c.data.rows :
          x = [key |-> <<n, r>>, comp |-> c.components[n]]
    BY DEF Showable
<1>3. x.key[2] = r /\ x.comp = c.components[n]
    BY <1>2
<1>4. /\ f.key = x.key /\ f.kind = x.comp.kind /\ f.dirty = FALSE /\ f.last = NoValue /\ f.stray = FALSE
      /\ f.path = path
      /\ f.text = IF HasText(x.comp.kind) THEN Show(Get(c.data, path)) ELSE Empty
      /\ f = [key |-> f.key, kind |-> f.kind, path |-> f.path, text |-> f.text,
              dirty |-> f.dirty, last |-> f.last, stray |-> f.stray]
    BY DEF newFocusable
<1>5. HasText(f.kind) \/ f.kind = "choice" => path \in Fields \cup DOMAIN c.data.rows
    <2> SUFFICES ASSUME HasText(x.comp.kind) \/ x.comp.kind = "choice"
                 PROVE  path \in Fields \cup DOMAIN c.data.rows
        BY <1>4
    <2>1. x.comp.kind \in {"text", "number", "date", "choice"} /\ ~button
        BY DEF HasText, Strict
    <2>2. x.comp.path \in Fields \cup {Relative}
        BY <1>1, <1>3, <2>1 DEF IsComponents
    <2>3. x.comp.path = Relative => x.key[2] # 0
        BY <2>1 DEF Focusable
    <2> QED
        BY <1>3, <2>1, <2>2, <2>3
<1> HIDE DEF f, path
<1>6. Get(c.data, path) \in Value
    BY <1>1, GetIs
<1>7. IsEditor(f)
    BY <1>4, <1>6, ShowIs DEF IsEditor
<1>8. SaysLast(f) /\ Tells(f, c.data) /\ Wants(f, c.data)
    BY <1>4 DEF SaysLast, Tells, Wants
<1> QED
    BY <1>4, <1>5, <1>7, <1>8 DEF f, Sincere

\* What adopting leaves as it was, and what it makes sure of.
LEMMA AdoptIs ==
    ASSUME NEW data, IsData(data), NEW f, Sincere(f, data), ~f.dirty, ~f.stray,
           NEW old, IsEditor(old), SaysLast(old)
    PROVE  LET g == adopt(f, old, data)
           IN  /\ Sincere(g, data) /\ Identity(g) = Identity(f) /\ g.key = f.key /\ g.path = f.path
               /\ f.kind = old.kind /\ HasText(f.kind) /\ old.dirty /\ Get(data, f.path) = old.last
                    => g.text = old.text
<1> DEFINE g == adopt(f, old, data)
           same == Type(f.kind) = Type(old.kind)
           holds == Get(data, f.path) = old.last
           carried == [f EXCEPT !.dirty = old.dirty, !.last = old.last]
<1>1. /\ f = [key |-> f.key, kind |-> f.kind, path |-> f.path, text |-> f.text,
              dirty |-> f.dirty, last |-> f.last, stray |-> f.stray]
      /\ f.text \in Texts /\ f.last \in Value /\ f.dirty = FALSE /\ f.stray = FALSE
    BY DEF Sincere, IsEditor
<1>2. old.text \in Texts /\ old.last \in Value /\ old.dirty \in BOOLEAN /\ old.stray \in BOOLEAN
    BY DEF IsEditor
<1>3. HasText(f.kind) => f.text \in {Show(Get(data, f.path)), Bad}
    BY <1>1 DEF Sincere, Tells
<1>4. CASE ~same
    <2> DEFINE s == old.dirty /\ ~holds
    <2>0. s \in BOOLEAN
        OBVIOUS
    <2>1. g = [carried EXCEPT !.stray = s]
        BY <1>4, Zenon DEF adopt
    <2> HIDE DEF g, s
    <2>2. /\ g.key = f.key /\ g.kind = f.kind /\ g.path = f.path /\ g.text = f.text
          /\ g.dirty = old.dirty /\ g.last = old.last /\ g.stray = s
          /\ g = [key |-> g.key, kind |-> g.kind, path |-> g.path, text |-> g.text,
                  dirty |-> g.dirty, last |-> g.last, stray |-> g.stray]
        BY <1>1, <2>1
    <2>3. g.dirty /\ ~g.stray => Get(data, g.path) = g.last
        BY <2>2 DEF s
    <2>4. IsEditor(g)
        BY <1>1, <1>2, <2>0, <2>2 DEF IsEditor
    <2>5. SaysLast(g) /\ Tells(g, data) /\ Wants(g, data)
        BY <1>3, <2>2, <2>3 DEF SaysLast, Tells, Wants
    <2> QED
        BY <1>4, <2>2, <2>4, <2>5 DEF Sincere, Identity, g
<1>5. CASE same /\ f.kind = "choice"
    <2>1. g = carried
        BY <1>5, Zenon DEF adopt, HasText, Strict
    <2> HIDE DEF g
    <2>2. /\ g.key = f.key /\ g.kind = f.kind /\ g.path = f.path /\ g.text = f.text
          /\ g.dirty = old.dirty /\ g.last = old.last /\ g.stray = f.stray
          /\ g = [key |-> g.key, kind |-> g.kind, path |-> g.path, text |-> g.text,
                  dirty |-> g.dirty, last |-> g.last, stray |-> g.stray]
        BY <1>1, <2>1
    <2>3. ~HasText(g.kind) /\ ~HasText(f.kind)
        BY <1>5, <2>2 DEF HasText, Strict
    <2>4. IsEditor(g)
        BY <1>1, <1>2, <2>2 DEF IsEditor
    <2> QED
        BY <2>2, <2>3, <2>4 DEF Sincere, Identity, SaysLast, Tells, Wants, g
<1>6. CASE same /\ HasText(f.kind) /\ old.dirty /\ holds
    <2>1. f.kind # "choice"
        BY <1>6 DEF HasText, Strict
    <2>2. g = [carried EXCEPT !.text = old.text, !.stray = old.stray]
        BY <1>6, <2>1, Zenon DEF adopt
    <2> HIDE DEF g
    <2>3. /\ g.key = f.key /\ g.kind = f.kind /\ g.path = f.path /\ g.text = old.text
          /\ g.dirty = old.dirty /\ g.last = old.last /\ g.stray = old.stray
          /\ g = [key |-> g.key, kind |-> g.kind, path |-> g.path, text |-> g.text,
                  dirty |-> g.dirty, last |-> g.last, stray |-> g.stray]
        BY <1>1, <2>2
    <2>4. HasText(old.kind)
        BY <1>6 DEF HasText, Strict, Type
    <2>5. ~old.stray => old.text \in {Show(old.last), Bad}
        BY <1>6, <2>4 DEF SaysLast
    <2>6. IsEditor(g)
        BY <1>1, <1>2, <2>3 DEF IsEditor
    <2>7. SaysLast(g) /\ Tells(g, data) /\ Wants(g, data)
        BY <1>6, <2>3, <2>5 DEF SaysLast, Tells, Wants
    <2> QED
        BY <2>3, <2>6, <2>7 DEF Sincere, Identity, g
<1>7. CASE same /\ f.kind # "choice" /\ ~(HasText(f.kind) /\ old.dirty /\ holds)
    <2>1. g = f
        BY <1>7, Zenon DEF adopt
    <2> QED
        BY <1>7, <2>1 DEF g
<1> QED
    BY <1>4, <1>5, <1>6, <1>7

\* The editors over content c, whatever predecessors they had.
Keyed(es) == \A i, j \in DOMAIN es : es[i].key = es[j].key => i = j
Editors(es, c) ==
    /\ es \in Seq(Range(es)) /\ Len(es) <= MaxFocusables /\ Keyed(es)
    /\ Identities(es) = Identities(collect(c))
    /\ \A i \in DOMAIN es : IsEditor(es[i])

LEMMA CollectIs ==
    ASSUME NEW c, IsSurface(c), HasRoot(c)
    PROVE  LET fs == collect(c)
           IN  /\ Editors(fs, c)
               /\ \A i \in DOMAIN fs : /\ Sincere(fs[i], c.data) /\ ~fs[i].dirty /\ ~fs[i].stray
                                       /\ HasText(fs[i].kind) \/ fs[i].kind = "choice"
                                            => fs[i].path \in Fields \cup DOMAIN c.data.rows
<1> DEFINE xs == Inputs(Displayed(c))
           fs == collect(c)
<1>1. Apiece(xs, Showable(c))
    BY DisplayedAre, InputsAre
<1>2. fs = [i \in DOMAIN xs |-> newFocusable(c, xs[i])]
    BY DEF collect
<1> HIDE DEF xs, fs
<1>3. /\ Len(xs) \in Nat /\ DOMAIN xs = 1..Len(xs) /\ Len(xs) <= MaxFocusables
      /\ \A i \in DOMAIN xs : xs[i] \in Showable(c) /\ Focusable(xs[i])
      /\ \A i, j \in DOMAIN xs : xs[i].key = xs[j].key => i = j
    BY <1>1, LenProperties, ElementOfSeq DEF Apiece
<1>4. DOMAIN fs = DOMAIN xs /\ \A i \in DOMAIN fs : fs[i] = newFocusable(c, xs[i])
    BY <1>2
<1>5. \A i \in DOMAIN fs : /\ Sincere(fs[i], c.data) /\ ~fs[i].dirty /\ ~fs[i].stray /\ fs[i].key = xs[i].key
                           /\ HasText(fs[i].kind) \/ fs[i].kind = "choice"
                                => fs[i].path \in Fields \cup DOMAIN c.data.rows
    BY <1>3, <1>4, FocusableIs
<1>6. Keyed(fs)
    BY <1>3, <1>4, <1>5 DEF Keyed
<1>7. fs \in Seq(Range(fs)) /\ Len(fs) = Len(xs)
    <2>1. fs = [i \in 1..Len(xs) |-> fs[i]] /\ \A i \in 1..Len(xs) : fs[i] \in Range(fs)
        BY <1>2, <1>3, <1>4 DEF Range
    <2>2. fs \in [1..Len(xs) -> Range(fs)]
        BY <2>1
    <2> QED
        BY <1>3, <2>2
<1>8. Editors(fs, c)
    BY <1>3, <1>5, <1>6, <1>7 DEF Editors, fs, Sincere
<1> QED
    BY <1>5, <1>8 DEF fs

\* Which inputs there are, and what they are bound to, does not depend on the values.
LEMMA CollectSame ==
    ASSUME NEW c, NEW d, d.components = c.components, DOMAIN d.data.rows = DOMAIN c.data.rows
    PROVE  Identities(collect(d)) = Identities(collect(c))
<1> DEFINE xs == Inputs(Displayed(c))
           fs == collect(c)
           gs == collect(d)
<1>1. Inputs(Displayed(d)) = xs
    BY DisplayedSame
<1>2. fs = [i \in DOMAIN xs |-> newFocusable(c, xs[i])] /\ gs = [i \in DOMAIN xs |-> newFocusable(d, xs[i])]
    BY <1>1 DEF collect
<1>3. \A x : Identity(newFocusable(c, x)) = Identity(newFocusable(d, x))
    BY DEF newFocusable, Identity
<1> HIDE DEF xs, fs, gs
<1>4. DOMAIN gs = DOMAIN fs /\ \A i \in DOMAIN fs : Identity(gs[i]) = Identity(fs[i])
    BY <1>2, <1>3
<1>5. Identities(gs) = Identities(fs)
    BY <1>4 DEF Identities
<1> QED
    BY <1>5 DEF fs, gs

\* A widget over content c.
Marked(w) == w.dirty <=> \E i \in DOMAIN w.editors : w.editors[i].dirty
Focused(w) == w.focused \in Nat \ {0} /\ (w.editors # <<>> => w.focused \in DOMAIN w.editors)
IsForm(w, c) ==
    /\ w = [id |-> w.id, obj |-> w.obj, editors |-> w.editors, focused |-> w.focused,
            dirty |-> w.dirty]
    /\ Editors(w.editors, c) /\ Marked(w) /\ Focused(w)
    /\ \A i \in DOMAIN w.editors :
         /\ SaysLast(w.editors[i])
         /\ Sole(w.editors, i) => Tells(w.editors[i], c.data) /\ Wants(w.editors[i], c.data)

\* No editor over data lost the text typed into it that the data model holds.
Untouched(old, new, data) ==
    \A i \in DOMAIN old, j \in DOMAIN new :
        /\ Identity(new[j]) = Identity(old[i]) /\ HasText(old[i].kind) /\ old[i].dirty
        /\ Get(data, old[i].path) = old[i].last
        => new[j].text = old[i].text

LEMMA RebuildIs ==
    ASSUME NEW c, IsSurface(c), HasRoot(c), NEW w, w.focused \in Nat \ {0}, NEW previous,
           \A i \in DOMAIN previous : IsEditor(previous[i]) /\ SaysLast(previous[i])
    PROVE  LET r == rebuild(w, c, previous)
           IN  /\ IsForm(r, c) /\ r.id = w.id /\ r.obj = w.obj
               /\ Keyed(previous) => Untouched(previous, r.editors, c.data)
<1> DEFINE fs == collect(c)
           olds(f) == {o \in Range(previous) : o.key = f.key}
           kept(f) == IF olds(f) = {} THEN f ELSE adopt(f, CHOOSE o \in olds(f) : TRUE, c.data)
           es == [i \in DOMAIN fs |-> kept(fs[i])]
           r == rebuild(w, c, previous)
<1>1. /\ Editors(fs, c) /\ IsData(c.data)
      /\ \A i \in DOMAIN fs : Sincere(fs[i], c.data) /\ ~fs[i].dirty /\ ~fs[i].stray
    BY CollectIs DEF IsSurface
<1>2. /\ r.id = w.id /\ r.obj = w.obj /\ r.editors = es
      /\ r.focused = (IF es # <<>> /\ w.focused > Len(es) THEN Len(es) ELSE w.focused)
      /\ r.dirty = (\E i \in DOMAIN es : es[i].dirty)
      /\ r = [id |-> r.id, obj |-> r.obj, editors |-> r.editors, focused |-> r.focused,
              dirty |-> r.dirty]
    BY Zenon DEF rebuild
<1> HIDE DEF fs, r
<1>3. ASSUME NEW f, Sincere(f, c.data), ~f.dirty, ~f.stray
      PROVE  /\ Sincere(kept(f), c.data) /\ Identity(kept(f)) = Identity(f) /\ kept(f).key = f.key
             /\ \A o \in Range(previous) :
                  /\ olds(f) = {o} /\ f.kind = o.kind /\ HasText(f.kind) /\ o.dirty
                  /\ Get(c.data, f.path) = o.last
                  => kept(f).text = o.text
    <2>1. CASE olds(f) = {}
        <3>1. kept(f) = f
            BY <2>1
        <3> HIDE DEF kept, olds
        <3> QED
            BY <1>3, <2>1, <3>1
    <2>2. CASE olds(f) # {}
        <3> DEFINE old == CHOOSE o \in olds(f) : TRUE
        <3>1. kept(f) = adopt(f, old, c.data)
            BY <2>2
        <3>2. old \in olds(f)
            BY <2>2
        <3>3. IsEditor(old) /\ SaysLast(old)
            BY <3>2 DEF Range
        <3> HIDE DEF kept, old, olds
        <3>4. /\ Sincere(kept(f), c.data) /\ Identity(kept(f)) = Identity(f) /\ kept(f).key = f.key
              /\ f.kind = old.kind /\ HasText(f.kind) /\ old.dirty /\ Get(c.data, f.path) = old.last
                   => kept(f).text = old.text
            BY <1>1, <1>3, <3>1, <3>3, AdoptIs
        <3>5. \A o : olds(f) = {o} => o = old
            BY <3>2
        <3> QED
            BY <3>4, <3>5
    <2> QED
        BY <2>1, <2>2
<1>4. DOMAIN es = DOMAIN fs /\ \A i \in DOMAIN fs : es[i] = kept(fs[i])
    OBVIOUS
<1> HIDE DEF es
<1>4a. es = [i \in DOMAIN fs |-> es[i]]
    BY DEF es
<1>5. \A i \in DOMAIN es : /\ Sincere(es[i], c.data) /\ Identity(es[i]) = Identity(fs[i])
                           /\ es[i].key = fs[i].key
    <2> HIDE DEF kept
    <2> QED
        BY <1>1, <1>3, <1>4
<1>6. fs \in Seq(Range(fs)) /\ Len(fs) \in Nat /\ DOMAIN fs = 1..Len(fs) /\ Len(fs) <= MaxFocusables
    BY <1>1, LenProperties DEF Editors
<1>7. es \in Seq(Range(es)) /\ Len(es) = Len(fs)
    <2>1. \A i \in 1..Len(fs) : es[i] \in Range(es)
        BY <1>4, <1>6 DEF Range
    <2>2. es \in [1..Len(fs) -> Range(es)]
        BY <1>4a, <1>6, <2>1
    <2> QED
        BY <1>6, <2>2
<1>8. Keyed(es)
    BY <1>1, <1>4, <1>5 DEF Editors, Keyed
<1>9. Identities(es) = Identities(collect(c))
    <2>1. Identities(es) = Identities(fs)
        BY <1>4, <1>5 DEF Identities
    <2> QED
        BY <2>1 DEF fs
<1>10. Editors(es, c)
    BY <1>5, <1>6, <1>7, <1>8, <1>9 DEF Editors, Sincere
<1>11. Focused(r)
    <2>1. CASE es = <<>>
        BY <1>2, <2>1 DEF Focused
    <2>2. CASE es # <<>>
        <3>1. Len(es) \in Nat \ {0} /\ DOMAIN es = 1..Len(es)
            BY <1>4, <1>6, <1>7, <2>2, EmptySeq
        <3> QED
            BY <1>2, <2>2, <3>1 DEF Focused
    <2> QED
        BY <2>1, <2>2
<1>12. IsForm(r, c)
    BY <1>2, <1>5, <1>10, <1>11 DEF IsForm, Marked, Sincere
<1>13. ASSUME Keyed(previous) PROVE Untouched(previous, es, c.data)
    <2> SUFFICES ASSUME NEW i \in DOMAIN previous, NEW j \in DOMAIN es,
                        Identity(es[j]) = Identity(previous[i]), HasText(previous[i].kind),
                        previous[i].dirty, Get(c.data, previous[i].path) = previous[i].last
                 PROVE  es[j].text = previous[i].text
        BY DEF Untouched
    <2> DEFINE o == previous[i]
               f == fs[j]
    <2>1. Identity(f) = Identity(o)
        BY <1>5
    <2>2. f.key = o.key /\ f.kind = o.kind /\ f.path = o.path
        BY <2>1 DEF Identity
    <2>3. o \in Range(previous)
        BY DEF Range
    <2>4. olds(f) = {o}
        BY <1>13, <2>2, <2>3 DEF Range, Keyed
    <2>5. Sincere(f, c.data) /\ ~f.dirty /\ ~f.stray /\ es[j] = kept(f)
        BY <1>1, <1>4
    <2> HIDE DEF kept, olds, f, o
    <2> QED
        BY <1>3, <2>2, <2>3, <2>4, <2>5 DEF o
<1> QED
    BY <1>2, <1>12, <1>13 DEF r

\* The inputs of a form have a path that a write does not extend.
LEMMA PathsAre ==
    ASSUME NEW c, IsSurface(c), HasRoot(c), NEW es, Editors(es, c), NEW i \in DOMAIN es,
           HasText(es[i].kind) \/ es[i].kind = "choice"
    PROVE  es[i].path \in Fields \cup DOMAIN c.data.rows
<1> DEFINE fs == collect(c)
<1>1. \A k \in DOMAIN fs : HasText(fs[k].kind) \/ fs[k].kind = "choice"
                             => fs[k].path \in Fields \cup DOMAIN c.data.rows
    BY CollectIs
<1>2. Identities(es) = Identities(fs)
    BY DEF Editors
<1> HIDE DEF fs
<1>3. i \in DOMAIN fs /\ Identity(fs[i]) = Identity(es[i])
    <2>1. DOMAIN Identities(es) = DOMAIN es /\ DOMAIN Identities(fs) = DOMAIN fs
        BY DEF Identities
    <2>2. i \in DOMAIN fs
        BY <1>2, <2>1
    <2>3. Identities(es)[i] = Identity(es[i]) /\ Identities(fs)[i] = Identity(fs[i])
        BY <2>2 DEF Identities
    <2> QED
        BY <1>2, <2>2, <2>3
<1>4. fs[i].kind = es[i].kind /\ fs[i].path = es[i].path
    BY <1>3 DEF Identity
<1> QED
    BY <1>1, <1>3, <1>4

LEMMA RefreshIs ==
    ASSUME NEW c, IsSurface(c), HasRoot(c), NEW w, NEW b, IsForm(w, b)
    PROVE  LET q == RefreshWidget(w, c)
           IN  /\ IsForm(q, c) /\ q.id = w.id /\ q.obj = w.obj
               /\ Untouched(w.editors, q.editors, c.data)
<1> DEFINE q == RefreshWidget(w, c)
           r == rebuild(w, c, w.editors)
           same == {i \in DOMAIN r.editors : /\ w.focused \in DOMAIN w.editors
                                             /\ r.editors[i].key = w.editors[w.focused].key}
           there == CHOOSE i \in same : TRUE
<1>1. IsForm(r, c) /\ r.id = w.id /\ r.obj = w.obj /\ Untouched(w.editors, r.editors, c.data)
    <2>1. /\ w.focused \in Nat \ {0} /\ Keyed(w.editors)
          /\ \A i \in DOMAIN w.editors : IsEditor(w.editors[i]) /\ SaysLast(w.editors[i])
        BY DEF IsForm, Focused, Editors
    <2> QED
        BY <2>1, RebuildIs
<1>2. q = IF same = {} THEN r ELSE [r EXCEPT !.focused = there]
    BY DEF RefreshWidget
<1>3. same # {} => there \in same
    OBVIOUS
<1>4. \A i \in same : i \in DOMAIN r.editors
    OBVIOUS
<1> HIDE DEF q, r, same, there
<1>5. CASE same = {}
    BY <1>1, <1>2, <1>5 DEF q
<1>6. CASE same # {}
    <2>1. /\ q.id = r.id /\ q.obj = r.obj /\ q.editors = r.editors /\ q.focused = there
          /\ q.dirty = r.dirty
          /\ q = [id |-> q.id, obj |-> q.obj, editors |-> q.editors, focused |-> q.focused,
                  dirty |-> q.dirty]
        <3>1. r = [id |-> r.id, obj |-> r.obj, editors |-> r.editors, focused |-> r.focused,
                   dirty |-> r.dirty]
            BY <1>1 DEF IsForm
        <3> QED
            BY <1>2, <1>6, <3>1
    <2>2. there \in DOMAIN r.editors
        BY <1>3, <1>4, <1>6
    <2>3. there \in Nat \ {0}
        <3>1. r.editors \in Seq(Range(r.editors))
            BY <1>1 DEF IsForm, Editors
        <3> QED
            BY <2>2, <3>1, LenProperties
    <2>4. Focused(q) /\ Marked(q)
        BY <1>1, <2>1, <2>2, <2>3 DEF Focused, Marked, IsForm
    <2>5. IsForm(q, c)
        BY <1>1, <2>1, <2>4 DEF IsForm
    <2> QED
        BY <1>1, <2>1, <2>5 DEF q
<1> QED
    BY <1>5, <1>6

------------------------------------------------------------------------------
(* SurfacePane: the widget over its surface, after Sync, Open and an edit.    *)

\* A widget over one of the objects of an engine, or none.
FormOver(e, w) ==
    IF Active(w)
    THEN /\ w.id \in SurfaceIDs /\ e.live[w.id] # 0 /\ Holds(e, w.obj, w.id)
         /\ IsForm(w, e.heap[w.obj])
    ELSE w = NoWidget

LEMMA NoFormOver == \A e : FormOver(e, NoWidget)
BY DEF FormOver, NoWidget, Active

LEMMA FormIs ==
    ASSUME NEW e, IsEngine(e), NEW w, FormOver(e, w), Active(w)
    PROVE  /\ w.id \in SurfaceIDs /\ e.live[w.id] # 0 /\ w.obj \in Objects
           /\ Holds(e, w.obj, w.id) /\ IsForm(w, e.heap[w.obj])
           /\ IsSurface(e.heap[w.obj]) /\ HasRoot(e.heap[w.obj])
BY DEF FormOver, Holds, IsEngine

\* It is still over an engine in which its object has the same content.
LEMMA FormStill ==
    ASSUME NEW e, NEW q, NEW w, FormOver(e, w), q.live = e.live,
           Active(w) => q.heap[w.obj] = e.heap[w.obj]
    PROVE  FormOver(q, w)
BY DEF FormOver, Holds

LEMMA RecordedIs ==
    ASSUME NEW e, IsEngine(e), NEW n
    PROVE  /\ IsEngine(Recorded(e, n)) /\ Recorded(e, n).live = e.live
           /\ Recorded(e, n).heap = e.heap /\ Recorded(e, n).synced = n
<1> DEFINE q == Recorded(e, n)
<1>1. /\ q.live = e.live /\ q.heap = e.heap /\ q.recent = e.recent /\ q.synced = n
      /\ q = [live |-> q.live, heap |-> q.heap, recent |-> q.recent, synced |-> q.synced]
    BY DEF Recorded
<1> HIDE DEF q
<1>2. LiveIDs(q) = LiveIDs(e)
    BY <1>1 DEF LiveIDs
<1>3. IsEngine(q)
    BY <1>1, <1>2 DEF IsEngine
<1> QED
    BY <1>1, <1>3 DEF q

\* After a batch and Sync the widget is over what the batch made of the engine, and none of
\* its editors lost a text that the data model still holds.
LEMMA SyncIs ==
    ASSUME NEW a, IsEngine(a), NEW w, FormOver(a, w), NEW e, Keeps(a, e, w.obj)
    PROVE  LET s == Sync(e, w)
           IN  /\ IsEngine(s.eng) /\ FormOver(s.eng, s.widget)
               /\ Active(w) /\ s.widget.obj = w.obj
                    => Untouched(w.editors, s.widget.editors, s.eng.heap[w.obj].data)
<1> DEFINE s == Sync(e, w)
           n == e.live[w.id]
           c == e.heap[w.obj]
<1>1. IsEngine(e) /\ FollowsOn(a, e, w.obj)
    BY DEF Keeps
<1>2. CASE ~Active(w)
    <2>1. s.eng = e /\ s.widget = w
        BY <1>2 DEF Sync
    <2>2. w = NoWidget
        BY <1>2 DEF FormOver
    <2> QED
        BY <1>1, <1>2, <2>1, <2>2, NoFormOver
<1>3. CASE Active(w)
    <2> DEFINE b == a.heap[w.obj]
    <2>1. /\ w.id \in SurfaceIDs /\ a.live[w.id] # 0 /\ Holds(a, w.obj, w.id) /\ IsForm(w, b)
          /\ w.obj # 0
        BY <1>3, FormIs DEF Active
    <2>2. Follows(b, a, w.obj, w.id)
        BY <2>1 DEF Follows, Noticed
    <2>3. Follows(b, e, w.obj, w.id)
        BY <1>1, <2>1, <2>2 DEF FollowsOn
    <2>4. Holds(e, w.obj, w.id) /\ HasRoot(c) /\ IsSurface(c)
        <3>1. Holds(e, w.obj, w.id)
            BY <2>3 DEF Follows
        <3>2. HasRoot(c) /\ w.obj \in Objects
            BY <3>1 DEF Holds
        <3> QED
            BY <1>1, <3>1, <3>2 DEF IsEngine
    <2>5. Keyed(w.editors)
        BY <2>1 DEF IsForm, Editors
    <2> HIDE DEF b, c
    <2>6. CASE n = 0
        <3>1. s.eng = Freed(e, w.obj) /\ s.widget = NoWidget
            BY <1>3, <2>6 DEF Sync
        <3>2. s.widget.obj = 0
            BY <3>1 DEF NoWidget
        <3> HIDE DEF s
        <3> QED
            BY <1>1, <2>1, <3>1, <3>2, FreedIs, NoFormOver DEF s
    <2>7. CASE n # 0 /\ n = e.synced
        <3>1. s.eng = e /\ s.widget = w
            BY <1>3, <2>7 DEF Sync
        <3>2. c = b
            BY <2>3, <2>7 DEF Follows, Noticed, c
        <3>3. FormOver(e, w)
            BY <1>3, <2>1, <2>4, <2>7, <3>2 DEF FormOver, c
        <3>4. Untouched(w.editors, w.editors, c.data)
            BY <2>5 DEF Untouched, Keyed, Identity
        <3> HIDE DEF s
        <3> QED
            BY <1>1, <3>1, <3>3, <3>4 DEF s, c
    <2>8. CASE n # 0 /\ n # e.synced
        <3> DEFINE q == RefreshWidget(w, c)
        <3>1. s.eng = Recorded(e, n) /\ s.widget = q
            BY <1>3, <2>8 DEF Sync, c
        <3>2. IsForm(q, c) /\ q.id = w.id /\ q.obj = w.obj /\ Untouched(w.editors, q.editors, c.data)
            BY <2>1, <2>4, RefreshIs
        <3>3. IsEngine(Recorded(e, n)) /\ Recorded(e, n).live = e.live /\ Recorded(e, n).heap = e.heap
            BY <1>1, RecordedIs
        <3> HIDE DEF q, s
        <3>4. FormOver(e, q)
            BY <1>3, <2>1, <2>4, <2>8, <3>2 DEF FormOver, Active, c
        <3>5. FormOver(Recorded(e, n), q)
            BY <3>3, <3>4, FormStill
        <3> QED
            BY <3>1, <3>2, <3>3, <3>5 DEF s, c
    <2> QED
        BY <2>6, <2>7, <2>8
<1> QED
    BY <1>2, <1>3

\* The widget Open makes.
LEMMA OpenIs ==
    ASSUME NEW e, IsEngine(e), NEW s, CanOpen(e, s), NEW o
    PROVE  LET q == Recorded(Freed(e, o), e.live[s])
           IN  IsEngine(q) /\ FormOver(q, Opened(e, s))
<1> DEFINE n == e.live[s]
           c == e.heap[n]
           f == Freed(e, o)
           q == Recorded(f, n)
           w == [id |-> s, obj |-> n, editors |-> <<>>, focused |-> 1, dirty |-> FALSE]
           r == Opened(e, s)
<1>1. s \in SurfaceIDs /\ n # 0 /\ HasRoot(c)
    BY DEF CanOpen, LiveIDs
<1>2. n \in Objects /\ IsSurface(c) /\ Apart(e.live)
    BY <1>1 DEF IsEngine
<1>3. IsForm(r, c) /\ r.id = s /\ r.obj = n
    <2>1. r = rebuild(w, c, <<>>)
        BY DEF Opened
    <2>2. w.focused = 1 /\ w.id = s /\ w.obj = n
        OBVIOUS
    <2> HIDE DEF w, r, c, n
    <2> QED
        BY <1>1, <1>2, <2>1, <2>2, RebuildIs
<1>4. IsEngine(f) /\ f.live = e.live /\ f.heap[n] = c
    BY <1>1, <1>2, FreedIs
<1>5. IsEngine(q) /\ q.live = e.live /\ q.heap[n] = c
    BY <1>4, RecordedIs
<1>6. Holds(q, n, s)
    BY <1>1, <1>2, <1>5 DEF Holds, Apart
<1> HIDE DEF q, r, f, c
<1>7. FormOver(q, r)
    BY <1>1, <1>3, <1>5, <1>6 DEF FormOver, Active
<1> QED
    BY <1>5, <1>7 DEF q, r, f

\* Content d is c but for the value under path p.
SameBut(c, d, p) ==
    /\ d.components = c.components /\ DOMAIN d.data.rows = DOMAIN c.data.rows
    /\ \A r : r # p => Get(d.data, r) = Get(c.data, r)

\* One editor of a form changes, and with it what it is bound to.
LEMMA EditorIs ==
    ASSUME NEW w, NEW c, IsForm(w, c), NEW k \in DOMAIN w.editors, NEW d,
           SameBut(c, d, w.editors[k].path),
           NEW f, Identity(f) = Identity(w.editors[k]), IsEditor(f), SaysLast(f),
           Sole(w.editors, k) => Tells(f, d.data) /\ Wants(f, d.data),
           NEW q, q.editors = [w.editors EXCEPT ![k] = f], q.focused = w.focused, Marked(q),
           q = [id |-> q.id, obj |-> q.obj, editors |-> q.editors, focused |-> q.focused,
                dirty |-> q.dirty]
    PROVE  IsForm(q, d)
<1> DEFINE es == w.editors
           gs == q.editors
<1>1. Editors(es, c) /\ Focused(w)
    BY DEF IsForm
<1>2. /\ DOMAIN gs = DOMAIN es /\ gs[k] = f /\ (\A i \in DOMAIN es \ {k} : gs[i] = es[i])
      /\ gs = [i \in DOMAIN es |-> gs[i]]
    OBVIOUS
<1>3. f.key = es[k].key /\ f.kind = es[k].kind /\ f.path = es[k].path
    BY DEF Identity
<1>4. \A i \in DOMAIN es : /\ gs[i].key = es[i].key /\ gs[i].path = es[i].path
                           /\ Identity(gs[i]) = Identity(es[i]) /\ IsEditor(gs[i])
    BY <1>1, <1>2, <1>3 DEF Editors
<1>5. Len(es) \in Nat /\ DOMAIN es = 1..Len(es) /\ Len(es) <= MaxFocusables
    <2>1. es \in Seq(Range(es))
        BY <1>1 DEF Editors
    <2> QED
        BY <1>1, <2>1, LenProperties DEF Editors
<1> HIDE DEF es, gs
<1>6. gs \in Seq(Range(gs)) /\ Len(gs) = Len(es)
    <2>1. \A i \in 1..Len(es) : gs[i] \in Range(gs)
        BY <1>2, <1>5 DEF Range
    <2>2. gs \in [1..Len(es) -> Range(gs)]
        BY <1>2, <1>5, <2>1
    <2> QED
        BY <1>5, <2>2
<1>7. Identities(gs) = Identities(collect(d))
    <2>1. Identities(gs) = Identities(es)
        BY <1>2, <1>4 DEF Identities
    <2>2. Identities(es) = Identities(collect(c))
        BY <1>1 DEF Editors
    <2> QED
        BY <2>1, <2>2, CollectSame DEF SameBut
<1>8. Keyed(gs)
    BY <1>1, <1>2, <1>4 DEF Editors, Keyed
<1>9. Editors(gs, d)
    BY <1>2, <1>4, <1>5, <1>6, <1>7, <1>8 DEF Editors
<1>10. Focused(q)
    <2>1. gs # <<>> => es # <<>>
        BY <1>2, <1>5, <1>6, EmptySeq
    <2> QED
        BY <1>1, <1>2, <2>1 DEF Focused, es, gs
<1>11. ASSUME NEW i \in DOMAIN gs
       PROVE  SaysLast(gs[i]) /\ (Sole(gs, i) => Tells(gs[i], d.data) /\ Wants(gs[i], d.data))
    <2>1. Sole(gs, i) => Sole(es, i)
        BY <1>2, <1>4, <1>11 DEF Sole
    <2>2. CASE i = k
        BY <1>2, <2>1, <2>2 DEF es
    <2>3. CASE i # k
        <3>1. gs[i] = es[i]
            BY <1>2, <1>11, <2>3
        <3>2. Sole(es, i) => es[i].path # es[k].path
            BY <1>2, <1>11, <2>3 DEF Sole, es
        <3>3. Sole(es, i) => Get(d.data, es[i].path) = Get(c.data, es[i].path)
            BY <3>2 DEF es, SameBut
        <3>4. SaysLast(es[i]) /\ (Sole(es, i) => Tells(es[i], c.data) /\ Wants(es[i], c.data))
            BY <1>2, <1>11 DEF IsForm, es
        <3> QED
            BY <2>1, <3>1, <3>3, <3>4 DEF Tells, Wants
    <2> QED
        BY <2>2, <2>3
<1>12. IsForm(q, d)
    BY <1>9, <1>10, <1>11 DEF IsForm, gs
<1> QED
    BY <1>12

\* Widget w is the one in the pane with text t in its focused editor.
Typing(w, t) ==
    /\ w = [id |-> widget.id, obj |-> widget.obj, editors |-> w.editors,
            focused |-> widget.focused, dirty |-> widget.dirty]
    /\ w.editors = [widget.editors EXCEPT ![widget.focused] = [@ EXCEPT !.text = t]]

LEMMA TypingIs ==
    ASSUME NEW c, IsForm(widget, c)
    PROVE  /\ \A t : Typing(WithText(widget, t), t)
           /\ widget.focused \in DOMAIN widget.editors => Typing(widget, Current.text)
<1> DEFINE k == widget.focused
           es == widget.editors
<1>0. widget = [id |-> widget.id, obj |-> widget.obj, editors |-> widget.editors,
                focused |-> widget.focused, dirty |-> widget.dirty]
    BY DEF IsForm
<1>1. ASSUME NEW t PROVE Typing(WithText(widget, t), t)
    <2> DEFINE w == WithText(widget, t)
    <2>1. w = [widget EXCEPT !.editors[k].text = t]
        BY Zenon DEF WithText
    <2>2. /\ w.id = widget.id /\ w.obj = widget.obj /\ w.focused = widget.focused
          /\ w.dirty = widget.dirty /\ w.editors = [es EXCEPT ![k] = [@ EXCEPT !.text = t]]
          /\ w = [id |-> w.id, obj |-> w.obj, editors |-> w.editors, focused |-> w.focused,
                  dirty |-> w.dirty]
        BY <1>0, <2>1
    <2> HIDE DEF w
    <2> QED
        BY <2>2 DEF Typing, w
<1>2. ASSUME k \in DOMAIN es PROVE Typing(widget, Current.text)
    <2> DEFINE f == es[k]
    <2>1. f = [key |-> f.key, kind |-> f.kind, path |-> f.path, text |-> f.text,
               dirty |-> f.dirty, last |-> f.last, stray |-> f.stray]
        BY <1>2 DEF IsForm, Editors, IsEditor
    <2>2. f = [f EXCEPT !.text = f.text]
        BY <2>1
    <2>3. es = [i \in DOMAIN es |-> es[i]]
        <3>1. es \in Seq(Range(es))
            BY DEF IsForm, Editors
        <3> QED
            BY <3>1, LenProperties
    <2>4. es = [es EXCEPT ![k] = [@ EXCEPT !.text = f.text]]
        <3> HIDE DEF es
        <3> QED
            BY <2>2, <2>3
    <2> QED
        BY <1>0, <2>4 DEF Typing, Current
<1> QED
    BY <1>1, <1>2

\* The focused editor shows t, which does not parse, and nothing is written.
LEMMA TypedIs ==
    ASSUME IsEngine(eng), FormOver(eng, widget), Active(widget),
           widget.focused \in DOMAIN widget.editors, NEW w, Typing(w, Bad)
    PROVE  FormOver(eng, w)
<1> DEFINE k == widget.focused
           es == widget.editors
           c == eng.heap[widget.obj]
           f == [es[k] EXCEPT !.text = Bad]
<1>1. IsForm(widget, c)
    BY FormIs
<1>2. Editors(es, c) /\ Marked(widget)
    BY <1>1 DEF IsForm
<1>3. IsEditor(es[k])
    BY <1>2 DEF Editors
<1>4. /\ f.key = es[k].key /\ f.kind = es[k].kind /\ f.path = es[k].path /\ f.text = Bad
      /\ f.dirty = es[k].dirty /\ f.last = es[k].last /\ f.stray = es[k].stray
      /\ f = [key |-> f.key, kind |-> f.kind, path |-> f.path, text |-> f.text,
              dirty |-> f.dirty, last |-> f.last, stray |-> f.stray]
    BY <1>3 DEF IsEditor
<1>5. /\ w.id = widget.id /\ w.obj = widget.obj /\ w.focused = widget.focused
      /\ w.dirty = widget.dirty /\ w.editors = [es EXCEPT ![k] = f]
      /\ w = [id |-> w.id, obj |-> w.obj, editors |-> w.editors, focused |-> w.focused,
              dirty |-> w.dirty]
    BY DEF Typing
<1> HIDE DEF f
<1>6. Identity(f) = Identity(es[k]) /\ IsEditor(f) /\ SaysLast(f)
    BY <1>3, <1>4, ShowIs DEF Identity, IsEditor, SaysLast
<1>7. Sole(es, k) => Tells(f, c.data) /\ Wants(f, c.data)
    <2>1. Sole(es, k) => Wants(es[k], c.data)
        BY <1>1 DEF IsForm
    <2> QED
        BY <1>4, <2>1 DEF Tells, Wants
<1>8. Marked(w)
    <2>1. DOMAIN w.editors = DOMAIN es /\ \A i \in DOMAIN es : w.editors[i].dirty = es[i].dirty
        BY <1>4, <1>5
    <2> QED
        BY <1>2, <1>5, <2>1 DEF Marked
<1> HIDE DEF c, es
<1>9. SameBut(c, c, widget.editors[k].path)
    BY DEF SameBut
<1>10. IsForm(w, c)
    BY <1>9, <1>1, <1>5, <1>6, <1>7, <1>8, EditorIs DEF es
<1> QED
    BY <1>5, <1>10 DEF FormOver, Active, c

\* The focused editor writes v.
LEMMA SetValueIs ==
    ASSUME IsEngine(eng), FormOver(eng, widget), Active(widget),
           widget.focused \in DOMAIN widget.editors,
           HasText(Current.kind) \/ Current.kind = "choice",
           NEW w, NEW t \in Texts, Typing(w, t), NEW v \in Value,
           HasText(Current.kind) => Show(v) = t, setValue(w, v)
    PROVE  IsEngine(eng') /\ FormOver(eng', widget') /\ widget'.obj = widget.obj
<1> DEFINE k == widget.focused
           es == widget.editors
           o == widget.obj
           c == eng.heap[o]
           h == es[k]
           g == [h EXCEPT !.text = t]
           p == h.path
<1>1. /\ widget.id \in SurfaceIDs /\ eng.live[widget.id] # 0 /\ o \in Objects /\ o # 0
      /\ Holds(eng, o, widget.id) /\ IsForm(widget, c) /\ IsSurface(c) /\ HasRoot(c)
    BY FormIs DEF Active
<1>2. Editors(es, c) /\ Marked(widget)
    BY <1>1 DEF IsForm
<1>3. IsEditor(h)
    BY <1>2 DEF Editors
<1>4. p \in Fields \cup DOMAIN c.data.rows
    BY <1>1, <1>2, PathsAre DEF Current
<1>5. /\ g.key = h.key /\ g.kind = h.kind /\ g.path = h.path /\ g.text = t
      /\ g.dirty = h.dirty /\ g.last = h.last /\ g.stray = h.stray
      /\ g = [key |-> g.key, kind |-> g.kind, path |-> g.path, text |-> g.text,
              dirty |-> g.dirty, last |-> g.last, stray |-> g.stray]
    BY <1>3 DEF IsEditor
<1>6. /\ w.id = widget.id /\ w.obj = o /\ w.focused = k
      /\ w.dirty = widget.dirty /\ w.editors = [es EXCEPT ![k] = g]
      /\ w = [id |-> w.id, obj |-> w.obj, editors |-> w.editors, focused |-> w.focused,
              dirty |-> w.dirty]
    BY DEF Typing
<1> HIDE DEF g
<1>7. w.editors[k] = g /\ DOMAIN w.editors = DOMAIN es /\ w.editors[k].path = p
    BY <1>5, <1>6
<1> HIDE DEF c
<1>8. CASE CanSet(c.data, p)
    <2> DEFINE d == [c EXCEPT !.data = Set(c.data, p, v)]
               f == [g EXCEPT !.dirty = TRUE, !.last = v, !.stray = FALSE]
    <2>1. /\ eng' = Write(eng, o, d, widget.id)
          /\ widget' = [w EXCEPT !.editors[k].dirty = TRUE, !.editors[k].last = v,
                                 !.editors[k].stray = FALSE, !.dirty = TRUE]
        <3>1. CanSet(eng.heap[w.obj].data, w.editors[w.focused].path)
            BY <1>6, <1>7, <1>8 DEF c
        <3> QED
            BY <1>6, <1>7, <3>1, Zenon DEF setValue, c
    <2>2. /\ widget'.id = w.id /\ widget'.obj = w.obj /\ widget'.focused = w.focused
          /\ widget'.dirty = TRUE
          /\ widget'.editors = [w.editors EXCEPT ![k].dirty = TRUE, ![k].last = v, ![k].stray = FALSE]
          /\ widget' = [id |-> widget'.id, obj |-> widget'.obj, editors |-> widget'.editors,
                        focused |-> widget'.focused, dirty |-> widget'.dirty]
        BY <1>6, <2>1
    <2>3. widget'.editors = [es EXCEPT ![k] = f]
        BY <1>5, <1>6, <2>2
    <2>4. /\ f.key = h.key /\ f.kind = h.kind /\ f.path = h.path /\ f.text = t
          /\ f.dirty = TRUE /\ f.last = v /\ f.stray = FALSE
          /\ f = [key |-> f.key, kind |-> f.kind, path |-> f.path, text |-> f.text,
                  dirty |-> f.dirty, last |-> f.last, stray |-> f.stray]
        <3>1. g = [key |-> h.key, kind |-> h.kind, path |-> h.path, text |-> t,
                   dirty |-> h.dirty, last |-> h.last, stray |-> h.stray]
            BY <1>5
        <3>2. f = [g EXCEPT !.dirty = TRUE, !.last = v, !.stray = FALSE]
            OBVIOUS
        <3> HIDE DEF h, f
        <3> QED
            BY <3>1, <3>2
    <2>5. /\ d.components = c.components /\ d.data = Set(c.data, p, v)
          /\ d = [components |-> d.components, data |-> d.data]
        BY <1>1 DEF IsSurface
    <2> HIDE DEF d, f
    <2>6. /\ IsData(d.data) /\ Get(d.data, p) = v /\ DOMAIN d.data.rows = DOMAIN c.data.rows
          /\ \A r : r # p => Get(d.data, r) = Get(c.data, r)
        <3>1. IsData(c.data)
            BY <1>1 DEF IsSurface
        <3> HIDE DEF p
        <3> QED
            BY <1>4, <1>8, <2>5, <3>1, SetIsData
    <2>7. IsSurface(d) /\ HasRoot(d)
        BY <1>1, <2>5, <2>6 DEF IsSurface, HasRoot
    <2>8. IsEngine(eng') /\ Wrote(eng, eng', o, d)
        <3>1. IsEngine(Write(eng, o, d, widget.id)) /\ Wrote(eng, Write(eng, o, d, widget.id), o, d)
            BY <1>1, <2>7, WriteEngine
        <3> QED
            BY <2>1, <3>1
    <2>9. Identity(f) = Identity(h) /\ IsEditor(f) /\ SaysLast(f)
        BY <2>4 DEF Identity, IsEditor, SaysLast, Current
    <2>10. Tells(f, d.data) /\ Wants(f, d.data)
        BY <2>4, <2>6 DEF Tells, Wants, Current
    <2>11. Marked(widget')
        BY <2>2, <2>3, <2>4 DEF Marked
    <2>12. widget'.focused = widget.focused /\ SameBut(c, d, es[k].path)
        BY <1>6, <2>2, <2>5, <2>6 DEF SameBut
    <2> HIDE DEF es, h, k, p
    <2>13. IsForm(widget', d)
        <3>1. Identity(f) = Identity(widget.editors[k]) /\ k \in DOMAIN widget.editors
              /\ widget'.editors = [widget.editors EXCEPT ![k] = f]
              /\ SameBut(c, d, widget.editors[k].path)
            BY <2>3, <2>9, <2>12 DEF h, es, k
        <3> QED
            BY <1>1, <2>2, <2>9, <2>10, <2>11, <2>12, <3>1, EditorIs
    <2>14. Holds(eng', o, widget.id) /\ eng'.live = eng.live /\ eng'.heap[o] = d
        BY <1>1, <2>7, <2>8 DEF Wrote, Holds
    <2>15. FormOver(eng', widget')
        BY <1>1, <1>6, <2>2, <2>13, <2>14 DEF FormOver, Active
    <2> QED
        BY <1>6, <2>2, <2>8, <2>15
<1>9. CASE ~CanSet(c.data, p)
    <2> DEFINE f == [g EXCEPT !.stray = TRUE]
    <2>1. eng' = eng /\ widget' = [w EXCEPT !.editors[k].stray = TRUE]
        <3>1. ~CanSet(eng.heap[w.obj].data, w.editors[w.focused].path)
            BY <1>6, <1>7, <1>9 DEF c
        <3> QED
            BY <1>6, <1>7, <3>1, Zenon DEF setValue, c
    <2>2. /\ widget'.id = w.id /\ widget'.obj = w.obj /\ widget'.focused = w.focused
          /\ widget'.dirty = w.dirty
          /\ widget'.editors = [w.editors EXCEPT ![k].stray = TRUE]
          /\ widget' = [id |-> widget'.id, obj |-> widget'.obj, editors |-> widget'.editors,
                        focused |-> widget'.focused, dirty |-> widget'.dirty]
        BY <1>6, <2>1
    <2>3. widget'.editors = [es EXCEPT ![k] = f]
        BY <1>5, <1>6, <2>2
    <2>4. /\ f.key = h.key /\ f.kind = h.kind /\ f.path = h.path /\ f.text = t
          /\ f.dirty = h.dirty /\ f.last = h.last /\ f.stray = TRUE
          /\ f = [key |-> f.key, kind |-> f.kind, path |-> f.path, text |-> f.text,
                  dirty |-> f.dirty, last |-> f.last, stray |-> f.stray]
        <3>1. g = [key |-> h.key, kind |-> h.kind, path |-> h.path, text |-> t,
                   dirty |-> h.dirty, last |-> h.last, stray |-> h.stray]
            BY <1>5
        <3>2. f = [g EXCEPT !.stray = TRUE]
            OBVIOUS
        <3> HIDE DEF h, f
        <3> QED
            BY <3>1, <3>2
    <2> HIDE DEF f
    <2>5. Identity(f) = Identity(h) /\ IsEditor(f) /\ SaysLast(f) /\ Tells(f, c.data) /\ Wants(f, c.data)
        BY <1>3, <2>4 DEF Identity, IsEditor, SaysLast, Tells, Wants
    <2>6. Marked(widget')
        <3>1. /\ DOMAIN widget'.editors = DOMAIN es
              /\ \A i \in DOMAIN es : widget'.editors[i].dirty = es[i].dirty
            BY <2>3, <2>4
        <3> QED
            BY <1>2, <1>6, <2>2, <3>1 DEF Marked
    <2> HIDE DEF es, h, k
    <2>7. IsForm(widget', c)
        <3>1. Identity(f) = Identity(widget.editors[k]) /\ k \in DOMAIN widget.editors
              /\ widget'.editors = [widget.editors EXCEPT ![k] = f] /\ widget'.focused = widget.focused
              /\ SameBut(c, c, widget.editors[k].path)
            BY <1>6, <2>2, <2>3, <2>5 DEF h, es, k, SameBut
        <3> QED
            BY <1>1, <2>2, <2>5, <2>6, <3>1, EditorIs
    <2>8. FormOver(eng', widget')
        BY <1>1, <1>6, <2>1, <2>2, <2>7 DEF FormOver, Active, c
    <2> QED
        BY <1>6, <2>1, <2>2, <2>8
<1> QED
    BY <1>8, <1>9

------------------------------------------------------------------------------
(* SurfacePane: the steps of the agent and of the user.                       *)

Envelopes == UNION {Range(m.envelopes) : m \in Messages}

\* The engine and the widget are ones, in whatever state the pane is.
PaneInv ==
    /\ connected \in BOOLEAN /\ prompt \in BOOLEAN /\ pane \in {"transcript", "surface"}
    /\ counted \in 0..Cardinality(SurfaceIDs) /\ history \in Seq(Seq(Envelopes))
    /\ IsEngine(eng) /\ FormOver(eng, widget) /\ (Active(widget) => connected)

LEMMA EnvelopesAre ==
    /\ \A env \in Envelopes : IsEnvelope(env)
    /\ \A m \in Messages : m.envelopes \in Seq(Envelopes)
<1>1. ASSUME NEW m \in Messages PROVE m.envelopes \in Seq(Envelopes)
    <2>1. m.envelopes \in Seq(Range(m.envelopes))
        BY MessagesAssumption DEF IsSequence
    <2>2. \A i \in 1..Len(m.envelopes) : m.envelopes[i] \in Range(m.envelopes)
        BY <2>1, LenProperties DEF Range
    <2>3. \A i \in 1..Len(m.envelopes) : m.envelopes[i] \in Envelopes
        BY <2>2 DEF Envelopes
    <2> QED
        BY <2>1, <2>3, LenProperties
<1>2. ASSUME NEW env \in Envelopes PROVE IsEnvelope(env)
    <2>1. PICK m \in Messages : env \in Range(m.envelopes)
        BY DEF Envelopes
    <2>2. PICK i \in DOMAIN m.envelopes : env = m.envelopes[i]
        BY <2>1 DEF Range
    <2> QED
        BY <2>2, MessagesAssumption
<1> QED
    BY <1>1, <1>2

LEMMA LiveAre ==
    ASSUME NEW e
    PROVE  Cardinality(LiveIDs(e)) \in 0..Cardinality(SurfaceIDs)
<1>1. LiveIDs(e) \subseteq SurfaceIDs
    BY DEF LiveIDs
<1>2. IsFiniteSet(LiveIDs(e)) /\ Cardinality(LiveIDs(e)) <= Cardinality(SurfaceIDs)
    BY <1>1, ObjectsAre, FS_Subset
<1> QED
    BY <1>2, ObjectsAre, FS_CardinalityType

LEMMA PaneStarts == PaneInit => PaneInv
<1> SUFFICES ASSUME PaneInit PROVE PaneInv
    OBVIOUS
<1>1. counted \in 0..Cardinality(SurfaceIDs)
    BY ObjectsAre DEF PaneInit
<1>2. history \in Seq(Seq(Envelopes))
    BY DEF PaneInit
<1>3. IsEngine(eng) /\ FormOver(eng, widget) /\ ~Active(widget)
    BY NoEngineIs, NoFormOver DEF PaneInit, NoWidget, Active
<1> QED
    BY <1>1, <1>2, <1>3 DEF PaneInit, PaneInv

\* What Apply and Sync make of the engine and the widget.
LEMMA BatchKeeps ==
    ASSUME PaneInv, NEW batch \in Seq(Envelopes)
    PROVE  LET s == Sync(Apply(eng, batch, widget.obj), widget)
           IN  /\ IsEngine(s.eng) /\ FormOver(s.eng, s.widget)
               /\ Active(widget) /\ s.widget.obj = widget.obj
                    => Untouched(widget.editors, s.widget.editors, s.eng.heap[widget.obj].data)
<1>1. Keeps(eng, Apply(eng, batch, widget.obj), widget.obj)
    BY EnvelopesAre, ApplyKeeps DEF PaneInv
<1>2. IsEngine(eng) /\ FormOver(eng, widget)
    BY DEF PaneInv
<1> QED
    BY <1>1, <1>2, SyncIs

LEMMA FetchedAre ==
    ASSUME history \in Seq(Seq(Envelopes)), NEW k \in DOMAIN history
    PROVE  FlattenSeq(SubSeq(history, 1, k) \o SubSeq(history, 1, k)) \in Seq(Envelopes)
<1>1. Len(history) \in Nat /\ DOMAIN history = 1..Len(history)
    BY LenProperties
<1>2. \A i \in 1..Len(history) : history[i] \in Seq(Envelopes)
    BY ElementOfSeq
<1> DEFINE part == SubSeq(history, 1, k)
<1>3. part \in Seq(Seq(Envelopes))
    BY <1>1, <1>2
<1> HIDE DEF part
<1>4. part \o part \in Seq(Seq(Envelopes))
    BY <1>3, ConcatProperties
<1>5. FlattenSeq(part \o part) \in Seq(Envelopes)
    BY <1>4, Flattened
<1> QED
    BY <1>5 DEF part

LEMMA OpenKeeps ==
    ASSUME NEW e, IsEngine(e), NEW s, CanOpen(e, s), OpenPane(e, s)
    PROVE  IsEngine(eng') /\ FormOver(eng', widget') /\ prompt' = FALSE
BY OpenIs DEF OpenPane

LEMMA AgentEventKeeps ==
    ASSUME PaneInv, NEW m \in Messages, handleAgentEvent(m)
    PROVE  PaneInv'
<1> DEFINE s == Sync(Apply(eng, m.envelopes, widget.obj), widget)
           recent == mostRecentSurface(s.eng)
<1>1. IsEngine(s.eng) /\ FormOver(s.eng, s.widget)
    BY EnvelopesAre, BatchKeeps
<1>2. /\ connected /\ connected' = connected /\ counted' = Cardinality(LiveIDs(s.eng))
      /\ \/ CanOpen(s.eng, recent) /\ OpenPane(s.eng, recent) /\ pane' = "surface"
         \/ eng' = s.eng /\ widget' = s.widget /\ prompt' = prompt /\ pane' = pane
      /\ history' = IF m.ofTask THEN Append(history, m.envelopes) ELSE history
    BY DEF handleAgentEvent
<1> HIDE DEF s
<1>3. counted' \in 0..Cardinality(SurfaceIDs)
    BY <1>2, LiveAre
<1>4. history' \in Seq(Seq(Envelopes))
    <2>1. m.envelopes \in Seq(Envelopes) /\ history \in Seq(Seq(Envelopes))
        BY EnvelopesAre DEF PaneInv
    <2>2. Append(history, m.envelopes) \in Seq(Seq(Envelopes))
        BY <2>1, AppendProperties
    <2> QED
        BY <1>2, <2>1, <2>2
<1>5. IsEngine(eng') /\ FormOver(eng', widget') /\ prompt' \in BOOLEAN /\ pane' \in {"transcript", "surface"}
    <2>1. CASE CanOpen(s.eng, recent) /\ OpenPane(s.eng, recent) /\ pane' = "surface"
        BY <1>1, <2>1, OpenKeeps
    <2>2. CASE eng' = s.eng /\ widget' = s.widget /\ prompt' = prompt /\ pane' = pane
        BY <1>1, <2>2 DEF PaneInv
    <2> QED
        BY <1>2, <2>1, <2>2
<1> QED
    BY <1>2, <1>3, <1>4, <1>5 DEF PaneInv

LEMMA PaneTaskResultKeeps == ASSUME PaneInv, handleTaskResult PROVE PaneInv'
<1>1. PICK k \in DOMAIN history :
          LET envelopes == FlattenSeq(SubSeq(history, 1, k) \o SubSeq(history, 1, k))
              s == Sync(Apply(eng, envelopes, widget.obj), widget)
          IN  eng' = s.eng /\ widget' = s.widget
    BY DEF handleTaskResult
<1> DEFINE batch == FlattenSeq(SubSeq(history, 1, k) \o SubSeq(history, 1, k))
<1>2. batch \in Seq(Envelopes)
    BY FetchedAre DEF PaneInv
<1> HIDE DEF batch
<1>3. IsEngine(eng') /\ FormOver(eng', widget')
    BY <1>1, <1>2, BatchKeeps DEF batch
<1>4. connected /\ UNCHANGED <<connected, prompt, pane, counted, history>>
    BY DEF handleTaskResult
<1> QED
    BY <1>3, <1>4 DEF PaneInv

\* A step of the user that leaves the engine and the widget, or opens another surface.
LEMMA SessionKeeps == ASSUME PaneInv, handleConnectResult \/ disconnect PROVE PaneInv'
<1>1. eng' = NoEngine /\ widget' = NoWidget /\ prompt' = FALSE /\ history' = <<>> /\ connected' \in BOOLEAN
    BY DEF handleConnectResult, disconnect, ClosePane
<1>2. counted' \in 0..Cardinality(SurfaceIDs) /\ pane' \in {"transcript", "surface"}
    BY ObjectsAre DEF handleConnectResult, disconnect, PaneInv
<1>3. IsEngine(eng') /\ FormOver(eng', widget') /\ ~Active(widget')
    BY <1>1, NoEngineIs, NoFormOver DEF NoWidget, Active
<1>4. history' \in Seq(Seq(Envelopes))
    BY <1>1
<1> QED
    BY <1>1, <1>2, <1>3, <1>4 DEF PaneInv

LEMMA OpenSurfaceKeeps ==
    ASSUME PaneInv, (\E s : openSurface(s)) \/ (\E d : switchSurface(d)) PROVE PaneInv'
<1>1. \E s : CanOpen(eng, s) /\ OpenPane(eng, s)
    BY DEF openSurface, switchSurface
<1>2. IsEngine(eng') /\ FormOver(eng', widget') /\ prompt' = FALSE
    BY <1>1, OpenKeeps DEF PaneInv
<1>3. connected /\ pane' \in {"transcript", "surface"} /\ UNCHANGED <<connected, counted, history>>
    BY DEF openSurface, switchSurface, ToWidget, PaneInv
<1> QED
    BY <1>2, <1>3 DEF PaneInv

LEMMA LookingKeeps ==
    ASSUME PaneInv, leavePane \/ esc \/ answerPrompt \/ dispatch \/ UNCHANGED paneVars PROVE PaneInv'
<1>1. UNCHANGED <<connected, eng, widget, counted, history>>
    BY DEF leavePane, esc, answerPrompt, dispatch, paneVars
<1>2. pane' \in {"transcript", "surface"} /\ prompt' \in BOOLEAN
    BY DEF PaneInv, leavePane, esc, answerPrompt, dispatch, paneVars
<1> QED
    BY <1>1, <1>2 DEF PaneInv

LEMMA FocusKeeps ==
    ASSUME PaneInv, NEW d \in {1, Len(widget.editors) - 1}, focusNext(d) PROVE PaneInv'
<1> DEFINE c == eng.heap[widget.obj]
           es == widget.editors
           n == ((widget.focused - 1 + d) % Len(es)) + 1
<1>1. Active(widget) /\ es # <<>> /\ widget' = [widget EXCEPT !.focused = n]
      /\ UNCHANGED <<connected, eng, prompt, pane, counted, history>>
    BY DEF focusNext, ToWidget
<1>2. /\ widget.id \in SurfaceIDs /\ eng.live[widget.id] # 0 /\ Holds(eng, widget.obj, widget.id)
      /\ IsForm(widget, c)
    BY <1>1, FormIs DEF PaneInv
<1>3. Len(es) \in Nat \ {0} /\ DOMAIN es = 1..Len(es) /\ widget.focused \in Nat \ {0}
    <2>1. es \in Seq(Range(es)) /\ widget.focused \in Nat \ {0}
        BY <1>2 DEF IsForm, Editors, Focused
    <2> QED
        BY <1>1, <2>1, LenProperties, EmptySeq
<1>4. n \in 1..Len(es)
    <2>1. widget.focused - 1 + d \in Nat
        BY <1>3
    <2>2. (widget.focused - 1 + d) % Len(es) \in 0..Len(es) - 1
        <3> DEFINE a == widget.focused - 1 + d
                   b == Len(es)
        <3>1. a \in Nat /\ b \in Nat \ {0}
            BY <1>3, <2>1
        <3> HIDE DEF a, b
        <3>2. a % b \in 0..b - 1
            BY <3>1
        <3> QED
            BY <3>2 DEF a, b
    <2> QED
        BY <1>3, <2>2
<1> HIDE DEF n, c
<1>5. /\ widget'.id = widget.id /\ widget'.obj = widget.obj /\ widget'.editors = es
      /\ widget'.focused = n /\ widget'.dirty = widget.dirty
      /\ widget' = [id |-> widget'.id, obj |-> widget'.obj, editors |-> widget'.editors,
                    focused |-> widget'.focused, dirty |-> widget'.dirty]
    <2>1. widget = [id |-> widget.id, obj |-> widget.obj, editors |-> widget.editors,
                    focused |-> widget.focused, dirty |-> widget.dirty]
        BY <1>2 DEF IsForm
    <2> QED
        BY <1>1, <2>1
<1>6. Focused(widget') /\ Marked(widget')
    BY <1>2, <1>3, <1>4, <1>5 DEF Focused, Marked, IsForm
<1>7. IsForm(widget', c)
    BY <1>2, <1>5, <1>6 DEF IsForm
<1>8. FormOver(eng', widget')
    BY <1>1, <1>2, <1>5, <1>7 DEF FormOver, Active, c
<1> QED
    BY <1>1, <1>5, <1>8 DEF PaneInv, Active

\* The edits are on their way: the marks go.
LEMMA FireKeeps == ASSUME PaneInv, fireEvent PROVE PaneInv'
<1> DEFINE c == eng.heap[widget.obj]
           es == widget.editors
           gs == [i \in DOMAIN es |-> [es[i] EXCEPT !.dirty = FALSE]]
<1>1. /\ Active(widget) /\ pane' = "transcript" /\ UNCHANGED <<connected, eng, prompt, counted, history>>
      /\ widget' = [widget EXCEPT !.dirty = FALSE, !.editors = gs]
    BY DEF fireEvent, ToWidget
<1>2. /\ widget.id \in SurfaceIDs /\ eng.live[widget.id] # 0 /\ Holds(eng, widget.obj, widget.id)
      /\ IsForm(widget, c)
    BY <1>1, FormIs DEF PaneInv
<1>3. /\ es \in Seq(Range(es)) /\ Len(es) \in Nat /\ DOMAIN es = 1..Len(es) /\ Len(es) <= MaxFocusables
      /\ Keyed(es) /\ Identities(es) = Identities(collect(c)) /\ Focused(widget)
      /\ \A i \in DOMAIN es : IsEditor(es[i])
    BY <1>2, LenProperties DEF IsForm, Editors
<1> HIDE DEF gs, c
<1>4. /\ widget'.id = widget.id /\ widget'.obj = widget.obj /\ widget'.editors = gs
      /\ widget'.focused = widget.focused /\ widget'.dirty = FALSE
      /\ widget' = [id |-> widget'.id, obj |-> widget'.obj, editors |-> widget'.editors,
                    focused |-> widget'.focused, dirty |-> widget'.dirty]
    <2>1. widget = [id |-> widget.id, obj |-> widget.obj, editors |-> widget.editors,
                    focused |-> widget.focused, dirty |-> widget.dirty]
        BY <1>2 DEF IsForm
    <2> QED
        BY <1>1, <2>1
<1>5. DOMAIN gs = DOMAIN es /\ gs = [i \in DOMAIN es |-> gs[i]]
    BY DEF gs
<1>6. \A i \in DOMAIN es :
        /\ gs[i].key = es[i].key /\ gs[i].kind = es[i].kind /\ gs[i].path = es[i].path
        /\ gs[i].text = es[i].text /\ gs[i].dirty = FALSE /\ gs[i].last = es[i].last
        /\ gs[i].stray = es[i].stray /\ IsEditor(gs[i])
    <2> TAKE i \in DOMAIN es
    <2> DEFINE f == es[i]
               g == gs[i]
    <2>1. g = [f EXCEPT !.dirty = FALSE]
        BY DEF gs
    <2>2. IsEditor(f)
        BY <1>3
    <2> HIDE DEF f, g
    <2>3. /\ g.key = f.key /\ g.kind = f.kind /\ g.path = f.path
          /\ g.text = f.text /\ g.dirty = FALSE /\ g.last = f.last /\ g.stray = f.stray
          /\ g = [key |-> g.key, kind |-> g.kind, path |-> g.path, text |-> g.text,
                  dirty |-> g.dirty, last |-> g.last, stray |-> g.stray]
        BY <2>1, <2>2 DEF IsEditor
    <2>4. IsEditor(g)
        BY <2>2, <2>3 DEF IsEditor
    <2> QED
        BY <2>3, <2>4 DEF f, g
<1>7. gs \in Seq(Range(gs)) /\ Len(gs) = Len(es)
    <2>1. \A i \in 1..Len(es) : gs[i] \in Range(gs)
        BY <1>3, <1>5 DEF Range
    <2>2. gs \in [1..Len(es) -> Range(gs)]
        BY <1>3, <1>5, <2>1
    <2> QED
        BY <1>3, <2>2
<1>8. Identities(gs) = Identities(es)
    BY <1>5, <1>6 DEF Identities, Identity
<1>9. Editors(gs, c)
    <2>1. Keyed(gs)
        BY <1>3, <1>5, <1>6 DEF Keyed
    <2>2. \A i \in DOMAIN gs : IsEditor(gs[i])
        BY <1>5, <1>6
    <2> QED
        BY <1>3, <1>7, <1>8, <2>1, <2>2 DEF Editors
<1>10. Marked(widget') /\ Focused(widget')
    <2>1. gs # <<>> => es # <<>>
        BY <1>3, <1>7, EmptySeq
    <2> QED
        BY <1>3, <1>4, <1>5, <1>6, <2>1 DEF Marked, Focused
<1>11. ASSUME NEW i \in DOMAIN gs
       PROVE  SaysLast(gs[i]) /\ (Sole(gs, i) => Tells(gs[i], c.data) /\ Wants(gs[i], c.data))
    <2>1. Sole(gs, i) => Sole(es, i)
        BY <1>5, <1>6, <1>11 DEF Sole
    <2>2. Sole(es, i) => Tells(es[i], c.data)
        BY <1>2, <1>5, <1>11 DEF IsForm
    <2> QED
        BY <1>5, <1>6, <1>11, <2>1, <2>2 DEF SaysLast, Tells, Wants
<1>12. IsForm(widget', c)
    BY <1>4, <1>9, <1>10, <1>11 DEF IsForm
<1>13. FormOver(eng', widget')
    BY <1>1, <1>2, <1>4, <1>12 DEF FormOver, Active, c
<1> QED
    BY <1>1, <1>4, <1>13 DEF PaneInv, Active

LEMMA TextFieldKeeps == ASSUME PaneInv, NEW t \in Texts \ {Bad}, updateTextField(t) PROVE PaneInv'
<1>1. /\ Active(widget) /\ widget.focused \in DOMAIN widget.editors /\ HasText(Current.kind)
      /\ setValue(WithText(widget, t), t) /\ UNCHANGED <<connected, prompt, pane, counted, history>>
    BY DEF updateTextField, ToWidget, HasFocus, HasText
<1>2. t \in Value /\ Show(t) = t
    BY ShowIs
<1>3. Typing(WithText(widget, t), t)
    BY <1>1, FormIs, TypingIs DEF PaneInv
<1>4. IsEngine(eng') /\ FormOver(eng', widget') /\ widget'.obj = widget.obj
    BY <1>1, <1>2, <1>3, SetValueIs DEF PaneInv
<1> QED
    BY <1>1, <1>4 DEF PaneInv, Active

LEMMA StrictKeeps == ASSUME PaneInv, NEW t \in Texts, updateStrict(t) PROVE PaneInv'
<1>1. /\ Active(widget) /\ widget.focused \in DOMAIN widget.editors /\ HasText(Current.kind)
      /\ UNCHANGED <<connected, prompt, pane, counted, history>>
    BY DEF updateStrict, ToWidget, HasFocus, HasText
<1>2. Typing(WithText(widget, t), t)
    BY <1>1, FormIs, TypingIs DEF PaneInv
<1>3. CASE t = Bad
    <2>1. eng' = eng /\ widget' = WithText(widget, t)
        BY <1>3, PaneAssumption, Zenon DEF updateStrict
    <2>2. FormOver(eng, WithText(widget, t))
        BY <1>1, <1>2, <1>3, TypedIs DEF PaneInv
    <2>3. WithText(widget, t).obj = widget.obj
        BY <1>2 DEF Typing
    <2> QED
        BY <1>1, <2>1, <2>2, <2>3 DEF PaneInv, Active
<1>4. ASSUME NEW v \in Value, Show(v) = t, setValue(WithText(widget, t), v) PROVE PaneInv'
    <2>1. IsEngine(eng') /\ FormOver(eng', widget') /\ widget'.obj = widget.obj
        BY <1>1, <1>2, <1>4, SetValueIs DEF PaneInv
    <2> QED
        BY <1>1, <2>1 DEF PaneInv, Active
<1>5. CASE t = Empty
    <2>1. setValue(WithText(widget, t), NoValue)
        BY <1>5, PaneAssumption, Zenon DEF updateStrict
    <2> QED
        BY <1>4, <1>5, <2>1, ShowIs
<1>6. CASE t # Empty /\ t # Bad
    <2>1. setValue(WithText(widget, t), t)
        BY <1>6, Zenon DEF updateStrict
    <2> QED
        BY <1>4, <2>1, ShowIs
<1> QED
    BY <1>3, <1>5, <1>6

LEMMA ChoiceKeeps == ASSUME PaneInv, NEW v \in Texts \ {Empty, Bad}, updateChoice(v) PROVE PaneInv'
<1>1. /\ Active(widget) /\ widget.focused \in DOMAIN widget.editors /\ Current.kind = "choice"
      /\ setValue(widget, v) /\ UNCHANGED <<connected, prompt, pane, counted, history>>
    BY DEF updateChoice, ToWidget, HasFocus
<1>2. v \in Value /\ ~HasText(Current.kind)
    BY <1>1, ShowIs DEF HasText, Strict
<1>3. Typing(widget, Current.text)
    BY <1>1, FormIs, TypingIs DEF PaneInv
<1>4. Current.text \in Texts
    <2>1. Editors(widget.editors, eng.heap[widget.obj])
        BY <1>1, FormIs DEF PaneInv, IsForm
    <2> QED
        BY <1>1, <2>1 DEF Editors, IsEditor, Current
<1>5. IsEngine(eng') /\ FormOver(eng', widget') /\ widget'.obj = widget.obj
    BY <1>1, <1>2, <1>3, <1>4, SetValueIs DEF PaneInv
<1> QED
    BY <1>1, <1>5 DEF PaneInv, Active

LEMMA PaneSteps == PaneInv /\ [PaneNext]_paneVars => PaneInv'
<1> SUFFICES ASSUME PaneInv, [PaneNext]_paneVars PROVE PaneInv'
    OBVIOUS
<1>1. CASE Agent
    BY <1>1, AgentEventKeeps, PaneTaskResultKeeps DEF Agent
<1>2. CASE User
    <2>1. CASE handleConnectResult \/ disconnect
        BY <2>1, SessionKeeps
    <2>2. CASE \/ \E s \in SurfaceIDs : openSurface(s)
               \/ \E d \in {1, Cardinality(LiveIDs(eng)) - 1} : switchSurface(d)
        BY <2>2, OpenSurfaceKeeps
    <2>3. CASE leavePane \/ esc \/ answerPrompt \/ dispatch
        BY <2>3, LookingKeeps
    <2>4. CASE \E d \in {1, Len(widget.editors) - 1} : focusNext(d)
        BY <2>4, FocusKeeps
    <2>5. CASE \E t \in Texts \ {Bad} : updateTextField(t)
        BY <2>5, TextFieldKeeps
    <2>6. CASE \E t \in Texts : updateStrict(t)
        BY <2>6, StrictKeeps
    <2>7. CASE \E v \in Texts \ {Empty, Bad} : updateChoice(v)
        BY <2>7, ChoiceKeeps
    <2>8. CASE fireEvent
        BY <2>8, FireKeeps
    <2> QED
        BY <1>2, <2>1, <2>2, <2>3, <2>4, <2>5, <2>6, <2>7, <2>8 DEF User
<1>3. CASE UNCHANGED paneVars
    BY <1>3, LookingKeeps
<1> QED
    BY <1>1, <1>2, <1>3 DEF PaneNext

\* PaneInv is inductive.
LEMMA PaneHolds == PaneSpec => []PaneInv
BY PaneStarts, PaneSteps, PTL DEF PaneSpec

LEMMA PaneIsTyped == PaneInv => PaneTypeOK
<1> SUFFICES ASSUME PaneInv PROVE PaneTypeOK
    OBVIOUS
<1>1. /\ IsEngine(eng) /\ FormOver(eng, widget) /\ connected \in BOOLEAN /\ prompt \in BOOLEAN
      /\ pane \in {"transcript", "surface"} /\ counted \in 0..Cardinality(SurfaceIDs)
    BY DEF PaneInv
<1>2. /\ eng.live \in [SurfaceIDs -> Objects \cup {0}] /\ Apart(eng.live)
      /\ Lists(eng.recent, LiveIDs(eng)) /\ \A n \in Objects : IsSurface(eng.heap[n])
    BY <1>1 DEF IsEngine
<1>3. Range(eng.recent) = LiveIDs(eng) /\ Len(eng.recent) = Cardinality(LiveIDs(eng))
    BY <1>2, ListsCount DEF Lists
<1>4. ASSUME NEW n \in Objects
      PROVE  /\ Cardinality(DOMAIN eng.heap[n].components) <= MaxComponents
             /\ \A f \in Fields : eng.heap[n].data.field[f] \in Cell
             /\ Range(eng.heap[n].data.rows) \subseteq Value
    <2> DEFINE d == eng.heap[n].data
    <2>1. /\ Cardinality(DOMAIN eng.heap[n].components) <= MaxComponents
          /\ d.field \in [Fields -> Cell] /\ d.rows \in Seq(Value)
        BY <1>2 DEF IsSurface, IsData
    <2> HIDE DEF d
    <2>2. Range(d.rows) \subseteq Value
        BY <2>1, LenProperties, ElementOfSeq DEF Range
    <2> QED
        BY <2>1, <2>2 DEF d
<1>5. /\ \A i \in DOMAIN widget.editors : widget.editors[i].text \in Texts
      /\ Len(widget.editors) <= MaxFocusables
      /\ widget.editors # <<>> => widget.focused \in DOMAIN widget.editors
    <2>1. CASE Active(widget)
        <3>1. IsForm(widget, eng.heap[widget.obj])
            BY <1>1, <2>1, FormIs
        <3> QED
            BY <3>1 DEF IsForm, Editors, IsEditor, Focused
    <2>2. CASE ~Active(widget)
        <3>1. widget.editors = <<>>
            BY <1>1, <2>2 DEF FormOver, NoWidget
        <3> QED
            BY <3>1, PaneAssumption
    <2> QED
        BY <2>1, <2>2
<1> QED
    BY <1>1, <1>2, <1>3, <1>4, <1>5 DEF PaneTypeOK, Apart

\* The form shows exactly the inputs its surface has now, every editor bound to a path of its
\* own shows what the agent will get (or is one of the exceptions EditorsTrue names), and the
\* mark "model edited" is that of its editors: whatever the agent sends and the user types
\* (widget/model.go rebuild, adopt, setValue; surfacepane.go sync).
THEOREM FormsTellTheTruth == PaneSpec => []FormTrue
<1>1. PaneInv => FormTrue
    <2> SUFFICES ASSUME PaneInv PROVE FormTrue
        OBVIOUS
    <2>1. FormOver(eng, widget) /\ IsEngine(eng)
        BY DEF PaneInv
    <2>2. CASE Active(widget)
        <3>1. IsForm(widget, Surface)
            BY <2>1, <2>2, FormIs DEF Surface
        <3>2. ShowsItsSurface /\ DirtyIsSomeones
            BY <3>1 DEF ShowsItsSurface, DirtyIsSomeones, IsForm, Editors, Marked
        <3>3. EditorsTrue
            BY <3>1 DEF EditorsTrue, IsForm, Tells
        <3> QED
            BY <3>2, <3>3, PaneIsTyped DEF FormTrue
    <2>3. CASE ~Active(widget)
        <3>1. widget.editors = <<>> /\ widget.dirty = FALSE
            BY <2>1, <2>3 DEF FormOver, NoWidget
        <3>2. ShowsItsSurface /\ EditorsTrue /\ DirtyIsSomeones
            BY <2>3, <3>1 DEF ShowsItsSurface, EditorsTrue, DirtyIsSomeones
        <3> QED
            BY <3>2, PaneIsTyped DEF FormTrue
    <2> QED
        BY <2>2, <2>3
<1> QED
    BY <1>1, PaneHolds, PTL

\* The pane shows no form of a surface that the agent has deleted or of a session that is
\* over (surfacepane.go sync, close), whatever the agent sends.
THEOREM FormsEndWithTheirSurface == PaneSpec => []ClosedWithSurface
<1>1. PaneInv => ClosedWithSurface
    BY DEF PaneInv, FormOver, ClosedWithSurface
<1> QED
    BY <1>1, PaneHolds, PTL

\* What rebuilding makes is a widget under the same identifier.
LEMMA RebuildMakes ==
    ASSUME NEW w, NEW c, NEW previous
    PROVE  LET r == rebuild(w, c, previous)
           IN  r = [id |-> w.id, obj |-> w.obj, editors |-> r.editors, focused |-> r.focused,
                    dirty |-> r.dirty]
BY Zenon DEF rebuild

\* What had the focus has it after a refresh, if it is still shown.
LEMMA RefreshFollows ==
    ASSUME NEW w, NEW c, w.focused \in DOMAIN w.editors,
           NEW j \in DOMAIN RefreshWidget(w, c).editors,
           RefreshWidget(w, c).editors[j].key = w.editors[w.focused].key
    PROVE  LET q == RefreshWidget(w, c)
           IN  q.editors[q.focused].key = w.editors[w.focused].key
<1> DEFINE q == RefreshWidget(w, c)
           r == rebuild(w, c, w.editors)
           key == w.editors[w.focused].key
           same == {i \in DOMAIN r.editors : /\ w.focused \in DOMAIN w.editors
                                             /\ r.editors[i].key = key}
           there == CHOOSE i \in same : TRUE
<1>1. r = [id |-> w.id, obj |-> w.obj, editors |-> r.editors, focused |-> r.focused,
           dirty |-> r.dirty]
    BY RebuildMakes
<1>2. CASE ~HasRoot(c)
    BY <1>2 DEF RefreshWidget
<1>3. CASE HasRoot(c) /\ same = {}
    <2>1. q = r
        BY <1>3 DEF RefreshWidget
    <2> HIDE DEF q, r
    <2> QED
        BY <1>3, <2>1 DEF q
<1>4. CASE HasRoot(c) /\ same # {}
    <2>1. q = [r EXCEPT !.focused = there]
        BY <1>4 DEF RefreshWidget
    <2>2. there \in same
        BY <1>4
    <2> HIDE DEF q, r, there
    <2>3. q.focused = there /\ q.editors = r.editors
        BY <1>1, <2>1
    <2> QED
        BY <2>2, <2>3 DEF q
<1> QED
    BY <1>2, <1>3, <1>4

\* The agent does not move the cursor to another field (widget/model.go Refresh, and
\* app.go mayAutoFocus only from another pane), whatever it sends and however its surface changes.
THEOREM CursorFollowsTheField == PaneSpec => FocusStays
<1>1. ASSUME NEW e, widget' = Sync(e, widget).widget, FormStays, FocusMoves PROVE FALSE
    <2> DEFINE n == e.live[widget.id]
               s == e.heap[widget.obj]
    <2>1. /\ widget.focused \in DOMAIN widget.editors
          /\ widget'.editors[widget'.focused].key # widget.editors[widget.focused].key
        BY <1>1 DEF FocusMoves, Current
    <2>2. PICK j \in DOMAIN widget'.editors : widget'.editors[j].key = widget.editors[widget.focused].key
        BY <1>1 DEF FocusMoves, Current
    <2>3. Active(widget) /\ widget'.obj = widget.obj
        BY <1>1 DEF FormStays
    <2>4. CASE n = 0
        BY <1>1, <2>3, <2>4 DEF Sync, NoWidget, Active
    <2>5. CASE n # 0 /\ n = e.synced
        <3>1. widget' = widget
            BY <1>1, <2>3, <2>5 DEF Sync
        <3> QED
            BY <2>1, <3>1
    <2>6. CASE n # 0 /\ n # e.synced
        <3>1. widget' = RefreshWidget(widget, s)
            BY <1>1, <2>3, <2>6 DEF Sync
        <3> HIDE DEF s
        <3> QED
            BY <2>1, <2>2, <3>1, RefreshFollows
    <2> QED
        BY <2>4, <2>5, <2>6
<1>2. ASSUME FormStays, FocusMoves, Agent PROVE FALSE
    <2>1. ASSUME NEW m \in Messages, handleAgentEvent(m) PROVE FALSE
        <3>1. pane' = pane
            BY <1>2 DEF FormStays
        <3>2. ~(mayAutoFocus(Sync(Apply(eng, m.envelopes, widget.obj), widget).eng) /\ pane' = "surface")
            BY <3>1 DEF mayAutoFocus
        <3>3. widget' = Sync(Apply(eng, m.envelopes, widget.obj), widget).widget
            BY <2>1, <3>2 DEF handleAgentEvent
        <3> QED
            BY <1>1, <1>2, <3>3
    <2>2. CASE handleTaskResult
        <3>1. PICK envelopes : widget' = Sync(Apply(eng, envelopes, widget.obj), widget).widget
            BY <2>2 DEF handleTaskResult
        <3> QED
            BY <1>1, <1>2, <3>1
    <2> QED
        BY <1>2, <2>1, <2>2 DEF Agent
<1>3. [PaneNext]_(paneVars) => [FormStays /\ FocusMoves => ~Agent]_(paneVars)
    BY <1>2
<1> QED
    BY <1>3, PTL DEF PaneSpec, FocusStays

\* Nor does it type over the user: an unsent text stays as long as the data model holds what it
\* wrote (widget/model.go adopt), whatever batch of envelopes comes.
THEOREM TextsStay == PaneSpec => UserTextSurvives
<1>1. ASSUME PaneInv, NEW batch \in Seq(Envelopes), FormStays, TypedOver,
             LET s == Sync(Apply(eng, batch, widget.obj), widget)
             IN  eng' = s.eng /\ widget' = s.widget
      PROVE  FALSE
    <2> DEFINE data == eng'.heap[widget.obj].data
    <2>1. Active(widget) /\ widget'.obj = widget.obj
        BY <1>1 DEF FormStays
    <2>2. Untouched(widget.editors, widget'.editors, data)
        BY <1>1, <2>1, BatchKeeps
    <2>3. PICK i \in DOMAIN widget.editors, j \in DOMAIN widget'.editors :
              LET f == widget.editors[i]
                  g == widget'.editors[j]
              IN  /\ HasText(f.kind) /\ f.dirty /\ ~f.stray /\ Sole(widget.editors, i)
                  /\ Identity(g) = Identity(f) /\ g.text # f.text
                  /\ Get(data, f.path) = Get(Surface.data, f.path)
        BY <1>1, <2>1 DEF TypedOver, Surface
    <2>4. Get(Surface.data, widget.editors[i].path) = widget.editors[i].last
        <3>1. IsForm(widget, Surface)
            BY <1>1, <2>1, FormIs DEF PaneInv, Surface
        <3>2. Wants(widget.editors[i], Surface.data)
            BY <2>3, <3>1 DEF IsForm
        <3> QED
            BY <2>3, <3>2 DEF Wants
    <2> HIDE DEF data
    <2> QED
        BY <2>2, <2>3, <2>4 DEF Untouched
<1>2. ASSUME PaneInv, FormStays, TypedOver, Agent PROVE FALSE
    <2>1. ASSUME NEW m \in Messages, handleAgentEvent(m) PROVE FALSE
        <3>1. pane' = pane
            BY <1>2 DEF FormStays
        <3>2. LET s == Sync(Apply(eng, m.envelopes, widget.obj), widget)
              IN  eng' = s.eng /\ widget' = s.widget
            BY <2>1, <3>1 DEF handleAgentEvent, mayAutoFocus
        <3>3. m.envelopes \in Seq(Envelopes)
            BY EnvelopesAre
        <3> QED
            BY <1>1, <1>2, <3>2, <3>3
    <2>2. CASE handleTaskResult
        <3>1. PICK k \in DOMAIN history :
                  LET envelopes == FlattenSeq(SubSeq(history, 1, k) \o SubSeq(history, 1, k))
                      s == Sync(Apply(eng, envelopes, widget.obj), widget)
                  IN  eng' = s.eng /\ widget' = s.widget
            BY <2>2 DEF handleTaskResult
        <3> DEFINE batch == FlattenSeq(SubSeq(history, 1, k) \o SubSeq(history, 1, k))
        <3>2. batch \in Seq(Envelopes)
            BY <1>2, FetchedAre DEF PaneInv
        <3> HIDE DEF batch
        <3>3. LET s == Sync(Apply(eng, batch, widget.obj), widget)
              IN  eng' = s.eng /\ widget' = s.widget
            BY <3>1 DEF batch
        <3> QED
            BY <1>1, <1>2, <3>2, <3>3
    <2> QED
        BY <1>2, <2>1, <2>2 DEF Agent
<1>3. PaneInv /\ [PaneNext]_(paneVars) => [FormStays /\ TypedOver => ~Agent]_(paneVars)
    BY <1>2
<1> QED
    BY <1>3, PaneHolds, PTL DEF PaneSpec, UserTextSurvives

\* Neither the text nor the cursor is taken out of the user's hands by the agent.
THEOREM AgentsKeepOut == PaneSpec => UserUndisturbed
BY TextsStay, CursorFollowsTheField DEF UserUndisturbed

=============================================================================
