------------------------- MODULE TelemetryLog_proof -------------------------
(***************************************************************************)
(* What the write-ahead log gives its readers: the whole lines implement   *)
(* LossyLog, and after Close the log has what the queues had.              *)
(***************************************************************************)
EXTENDS Telemetry_proof
-----------------------------------------------------------------------------
(* The log as its readers see it.                                          *)

\* From the files d, whose lines are at most a, to the files d2: files are
\* removed from the oldest on, and lines above a come to the last.
Advance(d, d2, a) ==
    /\ \A n \in DOMAIN d \cap DOMAIN d2 : \A i \in DOMAIN d[n].lines :
          i \in DOMAIN d2[n].lines /\ d2[n].lines[i] = d[n].lines[i]
    /\ \A n \in DOMAIN d \ DOMAIN d2, m \in DOMAIN d2 : n < m
    /\ \A n \in DOMAIN d2 : \A j \in DOMAIN d2[n].lines :
          \/ n \in DOMAIN d /\ j \in DOMAIN d[n].lines
          \/ (\A m \in DOMAIN d : m <= n) /\ a < d2[n].lines[j]

(* pruneLocked removes from the oldest on, and never the newest.           *)
LEMMA PruneOrder ==
    ASSUME NEW d, NEW b \in Nat, DOMAIN d \subseteq 1..b
    PROVE  /\ \A n \in DOMAIN d \ DOMAIN pruneLocked(d), m \in DOMAIN pruneLocked(d) : n < m
           /\ \A n \in DOMAIN d : (\A m \in DOMAIN d : m <= n) => n \in DOMAIN pruneLocked(d)
<1> DEFINE D == DOMAIN d
           newer(n) == {m \in D : m > n}
<1>1. MaxSegments \in Nat \ {0}
    BY TelemetryAssumption, Zenon
<1>2. \A n : n \in DOMAIN pruneLocked(d) <=> n \in D /\ Cardinality(newer(n)) < MaxSegments
    BY Zenon DEF pruneLocked
<1>3. D \subseteq Nat /\ IsFiniteSet(D)
    <2>1. IsFiniteSet(1..b)
        BY FS_Interval
    <2> QED
        BY <2>1, FS_Subset
<1>4. \A n \in D : newer(n) \in SUBSET D
    BY Zenon
<1>5. \A n \in D : IsFiniteSet(newer(n)) /\ Cardinality(newer(n)) \in Nat
    <2> TAKE n \in D
    <2> HIDE DEF D, newer
    <2> QED
        BY <1>3, <1>4, FS_Subset, FS_CardinalityType, Zenon
<1>6. ASSUME NEW n \in D, NEW m \in D, m <= n PROVE Cardinality(newer(n)) <= Cardinality(newer(m))
    <2>1. newer(n) \in SUBSET newer(m)
        BY <1>3, <1>6
    <2> HIDE DEF newer, D
    <2> QED
        BY <1>5, <2>1, FS_Subset, Zenon
<1>7. ASSUME NEW n \in D \ DOMAIN pruneLocked(d), NEW m \in DOMAIN pruneLocked(d) PROVE n < m
    <2>1. m \in D /\ n \in D /\ Cardinality(newer(m)) < MaxSegments /\ ~(Cardinality(newer(n)) < MaxSegments)
        BY <1>2, Zenon
    <2> HIDE DEF newer, D
    <2>2. ~(m <= n)
        BY <1>1, <1>5, <1>6, <2>1
    <2> QED
        BY <1>3, <2>1, <2>2
<1>8. ASSUME NEW n \in D, \A m \in D : m <= n PROVE n \in DOMAIN pruneLocked(d)
    <2>1. newer(n) = {}
        BY <1>3, <1>8
    <2>2. Cardinality(newer(n)) = 0
        BY <2>1, FS_EmptySet, Zenon
    <2> QED
        BY <1>1, <1>2, <2>2
<1> QED
    BY <1>7, <1>8, Zenon

(* A write.                                                                *)
LEMMA WroteAdvance ==
    ASSUME NEW d, NEW w \in Writers, NEW a \in Nat, NEW b \in Nat, NEW k \in 0..Len(w.buf), NEW torn,
           Files(d, a), DOMAIN d \subseteq 1..w.seq, Between(w.buf, a, b)
    PROVE  DOMAIN Wrote(d, w, k, torn) = DOMAIN d /\ Advance(d, Wrote(d, w, k, torn), a)
<1> DEFINE g == Wrote(d, w, k, torn)
           p == SubSeq(w.buf, 1, k)
           s == w.seq
<1>1. w.buf \in Seq(Nat) /\ s \in Nat
    BY Zenon DEF Writers, Buffers, Numbers
<1>2. p \in Seq(Nat) /\ Between(p, a, b)
    BY <1>1, BetweenPrefix, Zenon
<1>3. /\ DOMAIN g = DOMAIN d
      /\ \A n \in DOMAIN d : g[n].lines = IF n = s THEN d[n].lines \o p ELSE d[n].lines
    BY WroteLines, SMTT(30)
<1>4. \A n \in DOMAIN d : n \in Nat /\ n <= s
    BY <1>1
<1> HIDE DEF g, p, s
<1>5. ASSUME NEW l \in Seq(Nat)
      PROVE  /\ \A i \in DOMAIN l : i \in DOMAIN (l \o p) /\ (l \o p)[i] = l[i]
             /\ \A j \in DOMAIN (l \o p) : j \in DOMAIN l \/ a < (l \o p)[j]
    <2>1. /\ DOMAIN l = 1..Len(l) /\ DOMAIN (l \o p) = 1..Len(l) + Len(p) /\ Len(l) \in Nat /\ Len(p) \in Nat
          /\ DOMAIN p = 1..Len(p)
        BY <1>2
    <2>2. \A j \in DOMAIN (l \o p) : (l \o p)[j] = IF j <= Len(l) THEN l[j] ELSE p[j - Len(l)]
        BY <1>2
    <2>3. ASSUME NEW j \in DOMAIN (l \o p), j \notin DOMAIN l PROVE a < (l \o p)[j]
        <3> DEFINE q == j - Len(l)
        <3>1. q \in DOMAIN p /\ (l \o p)[j] = p[q]
            BY <2>1, <2>2, <2>3
        <3> HIDE DEF q
        <3> QED
            BY <1>2, <3>1, Zenon DEF Between
    <2>4. ASSUME NEW i \in DOMAIN l PROVE i \in DOMAIN (l \o p) /\ (l \o p)[i] = l[i]
        <3>1. i \in DOMAIN (l \o p) /\ i <= Len(l)
            BY <2>1
        <3> QED
            BY <2>2, <3>1, Zenon
    <2> QED
        BY <2>3, <2>4, Zenon
<1>6. \A n \in DOMAIN d : d[n].lines \in Seq(Nat)
    BY Zenon DEF Files
<1>7. ASSUME NEW n \in DOMAIN d, NEW i \in DOMAIN d[n].lines
      PROVE  i \in DOMAIN g[n].lines /\ g[n].lines[i] = d[n].lines[i]
    BY Zenon, <1>3, <1>5, <1>6
<1>8. ASSUME NEW n \in DOMAIN g, NEW j \in DOMAIN g[n].lines
      PROVE  \/ n \in DOMAIN d /\ j \in DOMAIN d[n].lines
             \/ (\A m \in DOMAIN d : m <= n) /\ a < g[n].lines[j]
    <2>1. CASE n = s
        <3>1. n \in DOMAIN d /\ g[n].lines = d[n].lines \o p
            BY Zenon, <1>3, <2>1
        <3>2. j \in DOMAIN d[n].lines \/ a < g[n].lines[j]
            BY <1>5, <1>6, <3>1, Zenon
        <3> QED
            BY <1>4, <2>1, <3>1, <3>2, Zenon
    <2>2. CASE n # s
        BY <1>3, <2>2, Zenon
    <2> QED
        BY <2>1, <2>2, Zenon
<1> QED
    BY <1>3, <1>7, <1>8, Zenon DEF Advance, g

(* Nothing written.                                                        *)
LEMMA SameAdvance ==
    ASSUME NEW d, NEW a
    PROVE  Advance(d, d, a)
BY Zenon DEF Advance

(* One write of the log.                                                   *)
LEMMA WriteAdvance ==
    ASSUME NEW d, NEW w \in Writers, NEW a \in Nat, NEW b \in Nat, NEW e \in Nat,
           Files(d, a), DOMAIN d \subseteq 1..w.seq, Between(w.buf, a, b),
           Write(d, w, e) \/ WriteFault(d, w)
    PROVE  DOMAIN disk' = DOMAIN d /\ Advance(d, disk', a)
<1>1. Len(w.buf) \in 0..Len(w.buf)
    BY DEF Writers, Buffers
<1>2. disk' = d \/ \E k \in 0..Len(w.buf), torn \in BOOLEAN : disk' = Wrote(d, w, k, torn)
    BY <1>1, Zenon DEF Write, WriteFault, Remains
<1> QED
    BY <1>2, SameAdvance, WroteAdvance

(* The flush of rotateLocked and of close.                                 *)
LEMMA FlushAdvance ==
    ASSUME wal \in Writers, NEW a \in Nat, NEW b \in Nat,
           Files(disk, a), Behind(disk, wal), Between(wal.buf, a, b),
           NEW d, d = Flush(disk) \/ d \in FlushFault
    PROVE  DOMAIN d = DOMAIN disk /\ Advance(disk, d, a)
<1>0. wal.buf \in Seq(Nat)
    BY Zenon DEF Writers, Buffers
<1>1. Len(wal.buf) \in 0..Len(wal.buf) /\ \A k \in 0..Len(wal.buf) - 1 : k \in 0..Len(wal.buf)
    BY <1>0
<1>2. d = disk \/ \E k \in 0..Len(wal.buf), torn \in BOOLEAN : d = Wrote(disk, wal, k, torn)
    BY <1>1, Zenon DEF Flush, FlushFault, Remains
<1> QED
    BY <1>2, SameAdvance, WroteAdvance DEF Behind

\* The files g less some of the oldest.
FromTheOldest(g, h) == Some(h, g) /\ \A l \in DOMAIN g \ DOMAIN h, m \in DOMAIN h : l < m

(* A rotation: the flush, the new file, the removal of old ones, a write.  *)
LEMMA RotateAdvance ==
    ASSUME NEW d, NEW d1, NEW d2, NEW a \in Nat, NEW b \in Nat, NEW n \in Nat \ {0}, a <= b,
           DOMAIN d \subseteq 1..(n - 1), DOMAIN d1 = DOMAIN d, Advance(d, d1, a), Files(d1, b),
           NEW h, FromTheOldest(WithFile(d1, n), h), DOMAIN d2 = DOMAIN h,
           \A m \in DOMAIN d2 : d2[m].lines \in Seq(Nat), Advance(h, d2, b)
    PROVE  Advance(d, d2, a)
<1> DEFINE g == WithFile(d1, n)
<1>1. /\ DOMAIN g = DOMAIN d1 \cup {n} /\ \A m \in DOMAIN d1 : g[m] = d1[m]
      /\ n \notin DOMAIN d1 => g[n].lines = <<>>
    BY Zenon DEF WithFile, NewSegment
<1> HIDE DEF g
<1>2. n \notin DOMAIN d /\ DOMAIN g \subseteq 1..n /\ DOMAIN d \subseteq Nat
    <2> DEFINE D == DOMAIN d
    <2>1. D \subseteq 1..(n - 1) /\ DOMAIN g = D \cup {n}
        BY <1>1, Zenon
    <2> HIDE DEF D
    <2>2. n \notin D /\ D \cup {n} \subseteq 1..n /\ D \subseteq Nat
        BY <2>1
    <2> QED
        BY <2>1, <2>2, Zenon DEF D
<1>3. DOMAIN h \subseteq DOMAIN g /\ \A m \in DOMAIN h : h[m] = g[m]
    BY Zenon DEF FromTheOldest, Some, g
<1>4. \A l \in DOMAIN g \ DOMAIN h, m \in DOMAIN h : l < m
    BY Zenon DEF FromTheOldest, g
<1>5. DOMAIN d2 = DOMAIN h /\ Advance(h, d2, b)
    BY Zenon
<1>6. ASSUME NEW l \in DOMAIN d \cap DOMAIN d2, NEW i \in DOMAIN d[l].lines
      PROVE  i \in DOMAIN d2[l].lines /\ d2[l].lines[i] = d[l].lines[i]
    <2>1. i \in DOMAIN d1[l].lines /\ d1[l].lines[i] = d[l].lines[i]
        BY Zenon DEF Advance
    <2>2. l \in DOMAIN h /\ h[l] = d1[l]
        BY Zenon, <1>1, <1>3, <1>5
    <2>3. i \in DOMAIN d2[l].lines /\ d2[l].lines[i] = h[l].lines[i]
        BY <1>5, <2>1, <2>2, Zenon DEF Advance
    <2> QED
        BY <2>1, <2>2, <2>3, Zenon
<1>7. \A l \in DOMAIN d \ DOMAIN d2, m \in DOMAIN d2 : l < m
    BY Zenon, <1>1, <1>4, <1>5
<1>8. ASSUME NEW l \in DOMAIN d2, NEW j \in DOMAIN d2[l].lines
      PROVE  \/ l \in DOMAIN d /\ j \in DOMAIN d[l].lines
             \/ (\A m \in DOMAIN d : m <= l) /\ a < d2[l].lines[j]
    <2>1. CASE l \in DOMAIN h /\ j \in DOMAIN h[l].lines
        <3>1. l # n
            BY <1>1, <1>2, <1>3, <2>1, SMTT(30)
        <3>2. l \in DOMAIN d1 /\ h[l] = d1[l]
            BY <1>1, <1>3, <2>1, <3>1, Zenon
        <3>3. CASE l \in DOMAIN d /\ j \in DOMAIN d[l].lines
            BY <3>3, Zenon
        <3>4. CASE (\A m \in DOMAIN d : m <= l) /\ a < d1[l].lines[j]
            <4>1. d2[l].lines[j] = d1[l].lines[j]
                BY <1>5, <2>1, <3>2, Zenon DEF Advance
            <4> QED
                BY <3>4, <4>1, Zenon
        <3> QED
            BY <2>1, <3>2, <3>3, <3>4, Zenon DEF Advance
    <2>2. CASE (\A m \in DOMAIN h : m <= l) /\ b < d2[l].lines[j]
        <3>1. l \in Nat /\ \A m \in DOMAIN d : m <= l
            BY <1>1, <1>2, <1>3, <1>5, <1>7, <2>2
        <3>2. d2[l].lines[j] \in Nat
            OBVIOUS
        <3> QED
            BY <2>2, <3>1, <3>2
    <2> QED
        BY <1>5, <2>1, <2>2, Zenon DEF Advance
<1> QED
    BY <1>6, <1>7, <1>8, Zenon DEF Advance

(* The places of the log are the lines of the files.                       *)
LEMMA PlaceIs ==
    ASSUME NEW d
    PROVE  /\ DOMAIN Lines(d) = Places(d)
           /\ \A x \in Places(d) : Lines(d)[x] = d[x[1]].lines[x[2]]
           /\ \A x \in Places(d) : x[1] \in DOMAIN d /\ x[2] \in DOMAIN d[x[1]].lines /\ x = <<x[1], x[2]>>
           /\ \A n \in DOMAIN d : \A i \in DOMAIN d[n].lines : <<n, i>> \in Places(d)
<1>1. DOMAIN Lines(d) = Places(d) /\ \A x \in Places(d) : Lines(d)[x] = d[x[1]].lines[x[2]]
    BY Zenon DEF Lines
<1>2. ASSUME NEW x \in Places(d)
      PROVE  x[1] \in DOMAIN d /\ x[2] \in DOMAIN d[x[1]].lines /\ x = <<x[1], x[2]>>
    <2>1. PICK n \in DOMAIN d : x \in {n} \X DOMAIN d[n].lines
        BY Zenon DEF Places
    <2> QED
        BY <2>1
<1>3. ASSUME NEW n \in DOMAIN d, NEW i \in DOMAIN d[n].lines PROVE <<n, i>> \in Places(d)
    <2>1. <<n, i>> \in {n} \X DOMAIN d[n].lines
        BY Zenon
    <2> QED
        BY <2>1, Zenon DEF Places
<1> QED
    BY <1>1, <1>2, <1>3, Zenon

(* Files that advance are a log that moves.                                *)
LEMMA AdvanceMoves ==
    ASSUME NEW a \in Nat, NEW b \in Nat, Files(disk, a), Files(disk', b), emitted \in Nat, b <= emitted,
           emitted' = emitted, DOMAIN disk \subseteq Nat, DOMAIN disk' \subseteq Nat, Advance(disk, disk', a)
    PROVE  Log!Move
<1> DEFINE P == Places(disk)
           Q == Places(disk')
           L == Lines(disk)
           M == Lines(disk')
           V(n, i) == disk[n].lines[i]
           W(n, i) == disk'[n].lines[i]
<1>1. /\ DOMAIN L = P /\ \A x \in P : L[x] = V(x[1], x[2])
      /\ \A x \in P : x[1] \in DOMAIN disk /\ x[2] \in DOMAIN disk[x[1]].lines /\ x = <<x[1], x[2]>>
      /\ \A n \in DOMAIN disk : \A i \in DOMAIN disk[n].lines : <<n, i>> \in P
    BY PlaceIs, Zenon
<1>2. /\ DOMAIN M = Q /\ \A x \in Q : M[x] = W(x[1], x[2])
      /\ \A x \in Q : x[1] \in DOMAIN disk' /\ x[2] \in DOMAIN disk'[x[1]].lines /\ x = <<x[1], x[2]>>
      /\ \A n \in DOMAIN disk' : \A i \in DOMAIN disk'[n].lines : <<n, i>> \in Q
    <2>1. \A d : /\ DOMAIN Lines(d) = Places(d)
                 /\ \A x \in Places(d) : Lines(d)[x] = d[x[1]].lines[x[2]]
                 /\ \A x \in Places(d) : x[1] \in DOMAIN d /\ x[2] \in DOMAIN d[x[1]].lines /\ x = <<x[1], x[2]>>
                 /\ \A n \in DOMAIN d : \A i \in DOMAIN d[n].lines : <<n, i>> \in Places(d)
        BY PlaceIs, Zenon
    <2> QED
        BY <2>1, Zenon
<1>3. /\ \A n \in DOMAIN disk : disk[n].lines \in Seq(Nat) /\ Between(disk[n].lines, 0, a)
      /\ \A n \in DOMAIN disk' : disk'[n].lines \in Seq(Nat) /\ Between(disk'[n].lines, 0, b)
      /\ \A m, n \in DOMAIN disk' : m < n =>
            \A i \in DOMAIN disk'[m].lines, j \in DOMAIN disk'[n].lines : W(m, i) < W(n, j)
    BY Zenon DEF Files
<1>4. /\ \A n \in DOMAIN disk \cap DOMAIN disk' : \A i \in DOMAIN disk[n].lines :
            i \in DOMAIN disk'[n].lines /\ W(n, i) = V(n, i)
      /\ \A n \in DOMAIN disk \ DOMAIN disk', m \in DOMAIN disk' : n < m
      /\ \A n \in DOMAIN disk' : \A j \in DOMAIN disk'[n].lines :
            \/ n \in DOMAIN disk /\ j \in DOMAIN disk[n].lines
            \/ (\A m \in DOMAIN disk : m <= n) /\ a < W(n, j)
    BY Zenon DEF Advance
<1>5. /\ \A n \in DOMAIN disk : \A i \in DOMAIN disk[n].lines : V(n, i) \in Nat /\ V(n, i) <= a
      /\ \A n \in DOMAIN disk' : \A i \in DOMAIN disk'[n].lines : W(n, i) \in 1..b
      /\ \A n \in DOMAIN disk' : \A i, j \in DOMAIN disk'[n].lines : i < j => W(n, i) < W(n, j)
    <2>1. ASSUME NEW s \in Seq(Nat), NEW c \in Nat, Between(s, 0, c)
          PROVE  /\ \A i \in DOMAIN s : s[i] \in Nat /\ s[i] <= c /\ s[i] \in 1..c
                 /\ \A i, j \in DOMAIN s : i < j => s[i] < s[j]
        BY <2>1 DEF Between
    <2>2. ASSUME NEW n \in DOMAIN disk, NEW i \in DOMAIN disk[n].lines
          PROVE  V(n, i) \in Nat /\ V(n, i) <= a
        BY <1>3, <2>1, Zenon
    <2>3. ASSUME NEW n \in DOMAIN disk'
          PROVE  /\ \A i \in DOMAIN disk'[n].lines : W(n, i) \in 1..b
                 /\ \A i, j \in DOMAIN disk'[n].lines : i < j => W(n, i) < W(n, j)
        BY <1>3, <2>1, Zenon
    <2> QED
        BY <2>2, <2>3, Zenon
<1>6. ASSUME NEW n \in DOMAIN disk, NEW i \in DOMAIN disk[n].lines, n \in DOMAIN disk',
             NEW j \in DOMAIN disk'[n].lines, j \notin DOMAIN disk[n].lines
      PROVE  i < j
    <2> DEFINE s == disk[n].lines
               t == disk'[n].lines
    <2>1. s \in Seq(Nat) /\ t \in Seq(Nat)
        BY <1>3, <1>6, Zenon
    <2> HIDE DEF s, t
    <2>2. i \in DOMAIN s /\ j \in DOMAIN t /\ j \notin DOMAIN s
        BY <1>6, Zenon DEF s, t
    <2>3. DOMAIN s = 1..Len(s) /\ DOMAIN t = 1..Len(t) /\ Len(s) \in Nat /\ Len(t) \in Nat
        BY <2>1
    <2> QED
        BY <2>2, <2>3
<1> HIDE DEF P, Q, L, M, V, W
<1>7. ASSUME NEW x \in P \cap Q PROVE M[x] = L[x]
    BY <1>1, <1>2, <1>4, Zenon
<1>8. ASSUME NEW x \in P \ Q, NEW y \in Q PROVE Log!Precedes(x, y)
    <2>1. x[1] \in DOMAIN disk /\ x[1] \notin DOMAIN disk'
        BY <1>1, <1>2, <1>4
    <2>2. x[1] < y[1]
        BY <1>2, <1>4, <2>1, Zenon
    <2> QED
        BY <2>2, Zenon DEF Log!Precedes
<1>9. ASSUME NEW x \in P, NEW y \in Q \ P PROVE Log!Precedes(x, y) /\ L[x] < M[y]
    <2>1. /\ x[1] \in DOMAIN disk /\ x[2] \in DOMAIN disk[x[1]].lines
          /\ y[1] \in DOMAIN disk' /\ y[2] \in DOMAIN disk'[y[1]].lines
        BY <1>1, <1>2, Zenon
    <2>2. ~(y[1] \in DOMAIN disk /\ y[2] \in DOMAIN disk[y[1]].lines)
        BY <1>1, <1>2
    <2>3. x[1] <= y[1] /\ a < W(y[1], y[2])
        BY <1>4, <2>1, <2>2, Zenon
    <2>4. L[x] = V(x[1], x[2]) /\ L[x] \in Nat /\ L[x] <= a /\ M[y] = W(y[1], y[2]) /\ M[y] \in Nat
        BY <1>1, <1>2, <1>5, <2>1
    <2>5. x[1] = y[1] => x[2] < y[2]
        BY <1>6, <2>1, <2>2, Zenon
    <2>6. x[1] < y[1] \/ x[1] = y[1]
        BY <2>1, <2>3
    <2> QED
        BY <2>3, <2>4, <2>5, <2>6 DEF Log!Precedes
<1>10. Log!Increasing(M)
    <2> SUFFICES ASSUME NEW x \in Q, NEW y \in Q, Log!Precedes(x, y) PROVE M[x] < M[y]
        BY <1>2, Zenon DEF Log!Increasing
    <2>1. /\ M[x] = W(x[1], x[2]) /\ x[1] \in DOMAIN disk' /\ x[2] \in DOMAIN disk'[x[1]].lines
          /\ M[y] = W(y[1], y[2]) /\ y[1] \in DOMAIN disk' /\ y[2] \in DOMAIN disk'[y[1]].lines
        BY <1>2, Zenon
    <2>2. CASE x[1] < y[1]
        BY <1>3, <2>1, <2>2, Zenon
    <2>3. CASE x[1] = y[1] /\ x[2] < y[2]
        BY <1>5, <2>1, <2>3, Zenon
    <2> QED
        BY <2>2, <2>3, Zenon DEF Log!Precedes
<1>11. \A x \in Q : M[x] \in 1..emitted
    BY <1>2, <1>5
<1>12. Lines(disk)' = M /\ Lines(disk) = L
    BY Zenon DEF L, M
<1> QED
    BY <1>1, <1>2, <1>7, <1>8, <1>9, <1>10, <1>11, <1>12, Zenon DEF Log!Move

(* Every step is one of the log that LossyLog promises, or none, or        *)
(* something has gone amiss.                                               *)
LEMMA TrailStep ==
    ASSUME TInd, TInd', LogInd, LogInd', [TNext]_tvars
    PROVE  [Log!Emitted \/ Log!Move \/ mishap' # {}]_<<emitted, Lines(disk)>>
<1> SUFFICES ASSUME mishap' = {} PROVE [Log!Emitted \/ Log!Move]_<<emitted, Lines(disk)>>
    BY Zenon
<1>0. mishap = {} /\ Sighted /\ Sighted'
    BY OnRecord, Zenon DEF Sighted
<1>1. PICK a, b, c : LogFlow(a, b, c)
    BY Zenon DEF LogInd
<1>2. PICK a2, b2, c2 : LogFlow(a2, b2, c2)'
    BY Zenon DEF LogInd
<1>3. a \in Nat /\ b \in Nat /\ a <= b /\ b <= c /\ emitted \in Nat /\ Files(disk, a) /\ Between(wal.buf, a, b)
    BY <1>0, <1>1, Zenon DEF LogFlow, TInd, QueueTypes
<1>4. a2 \in Nat /\ a2 <= emitted' /\ Files(disk', a2) /\ emitted' \in Nat
    BY <1>0, <1>2 DEF LogFlow, TInd, QueueTypes, Files
<1>5. /\ wal \in Writers /\ Typed(disk) /\ Behind(disk, wal) /\ wal.seq \in Nat
      /\ DOMAIN disk \subseteq Nat /\ DOMAIN disk' \subseteq Nat
    <2>1. wal \in Writers /\ Typed(disk) /\ Behind(disk, wal) /\ wal' \in Writers /\ Behind(disk, wal)'
        BY <1>0, Zenon DEF TInd
    <2>2. wal.seq \in Nat /\ wal'.seq \in Nat
        BY <2>1, Zenon DEF Writers, Numbers
    <2> QED
        BY <2>1, <2>2 DEF Behind
<1>6. ASSUME Advance(disk, disk', a), emitted' = emitted PROVE Log!Move
    BY <1>3, <1>4, <1>5, <1>6, AdvanceMoves, Zenon
<1>7. ASSUME disk' = disk, emitted' = emitted \/ emitted' = emitted + 1
      PROVE  [Log!Emitted \/ Log!Move]_<<emitted, Lines(disk)>>
    BY <1>7, Zenon DEF Log!Emitted
<1>8. CASE enqueue
    BY <1>7, <1>8, Zenon DEF enqueue, Died, walVars
<1>9. CASE walLoop
    <2>1. PICK e \in Nat : AppendLine(e) \/ RotateAndAppend(e)
        BY <1>9 DEF walLoop, TInd, QueueTypes, Buffers
    <2>2. emitted' = emitted
        BY <1>9, Zenon DEF walLoop
    <2>3. CASE AppendLine(e)
        <3>1. Write(disk, wal, e) \/ WriteFault(disk, wal)
            BY <2>3, Zenon DEF AppendLine
        <3>2. Advance(disk, disk', a)
            BY <1>3, <1>5, <3>1, WriteAdvance, Zenon DEF Behind
        <3> QED
            BY <1>6, <2>2, <3>2, Zenon
    <2>4. CASE RotateAndAppend(e)
        <3> DEFINE n == wal.seq + 1
        <3>1. Files(Flush(disk), b) /\ \A d \in FlushFault : Files(d, b)
            BY <1>3, <1>5, FlushFlow, Zenon DEF LogFlow
        <3>5. Typed(Flush(disk)) /\ \A d \in FlushFault : Typed(d)
            BY <1>5, FlushSound, Zenon
        <3>2. ASSUME NEW d, d = Flush(disk) \/ d \in FlushFault, NEW g, FromTheOldest(WithFile(d, n), g),
                     Write(g, openLocked(d, n), e) \/ WriteFault(g, openLocked(d, n))
              PROVE  Advance(disk, disk', a)
            <4>1. Files(d, b) /\ Typed(d) /\ DOMAIN d = DOMAIN disk /\ Advance(disk, d, a)
                BY <1>3, <1>5, <3>1, <3>2, <3>5, FlushAdvance, Zenon
            <4> DEFINE w == openLocked(d, n)
            <4>2. n \in Nat \ {0} /\ DOMAIN disk \subseteq 1..(n - 1) /\ DOMAIN d \subseteq 1..wal.seq
                BY <1>5, <4>1 DEF Behind
            <4>9. Some(g, WithFile(d, n))
                BY <3>2, Zenon DEF FromTheOldest
            <4>3. w \in Writers /\ w.seq = n /\ w.buf = <<>> /\ DOMAIN g \subseteq 1..w.seq
                BY <1>5, <4>1, <4>2, <4>9, OpenSound, Zenon
            <4> HIDE DEF n
            <4>4. Files(g, b)
                BY <1>3, <4>1, <4>2, <4>9, FilesOpened, Zenon
            <4>5. Between(w.buf, b, b)
                BY <4>3, BetweenEmpty, Zenon
            <4>6. Write(g, w, e) \/ WriteFault(g, w)
                BY <3>2, Zenon
            <4> HIDE DEF w
            <4>7. DOMAIN disk' = DOMAIN g /\ Advance(g, disk', b)
                BY <1>3, <2>1, <4>3, <4>4, <4>5, <4>6, WriteAdvance, Zenon
            <4>8. \A m \in DOMAIN disk' : disk'[m].lines \in Seq(Nat)
                BY <1>4, Zenon DEF Files
            <4> QED
                BY <1>3, <3>2, <4>1, <4>2, <4>7, <4>8, RotateAdvance, Zenon
        <3>3. CASE disk' = Flush(disk)
            <4>1. Advance(disk, disk', a)
                BY <1>3, <1>5, <3>3, FlushAdvance, Zenon
            <4> QED
                BY <1>6, <2>2, <4>1, Zenon
        <3>6. mishap # mishap \cup {"stray"}
            BY <1>0, Zenon
        <3>4. \/ \E d : /\ d = Flush(disk) \/ d \in FlushFault
                        /\ Write(Opened(d), openLocked(d, n), e) \/ WriteFault(Opened(d), openLocked(d, n))
              \/ Write(WithFile(Flush(disk), n), openLocked(Flush(disk), n), e)
              \/ disk' = Flush(disk)
            BY <1>0, <2>4, <3>6, Zenon DEF RotateAndAppend
        <3>7. ASSUME NEW d, d = Flush(disk) \/ d \in FlushFault
              PROVE  FromTheOldest(WithFile(d, n), Opened(d)) /\ FromTheOldest(WithFile(d, n), WithFile(d, n))
            <4>1. Typed(d) /\ n \in Nat \ {0}
                BY <1>5, <3>5, <3>7
            <4> HIDE DEF n
            <4>2. PICK k \in Nat : DOMAIN WithFile(d, n) \subseteq 1..k
                BY <4>1, OpenFile, Zenon DEF Typed
            <4>3. FromTheOldest(WithFile(d, n), pruneLocked(WithFile(d, n)))
                BY <4>2, PruneBounds, PruneOrder, Zenon DEF FromTheOldest, Some
            <4>4. FromTheOldest(WithFile(d, n), WithFile(d, n))
                BY Zenon DEF FromTheOldest, Some
            <4> QED
                BY <4>3, <4>4, Zenon DEF Opened, n
        <3> QED
            BY <1>6, <2>2, <3>2, <3>3, <3>4, <3>7, Zenon
    <2> QED
        BY <2>1, <2>3, <2>4, Zenon
<1>10. CASE walClose
    <2>1. emitted' = emitted /\ (disk' = Flush(disk) \/ disk' \in FlushFault)
        BY <1>10, Zenon DEF walClose
    <2>2. Advance(disk, disk', a)
        <3>1. PICK d : d = disk'
            BY Zenon
        <3> QED
            BY <1>3, <1>5, <2>1, <3>1, FlushAdvance, Zenon
    <2> QED
        BY <1>6, <2>1, <2>2, Zenon
<1>11. CASE Restart
    <2> DEFINE n == NextSeq(disk)
    <2>0. mishap' # mishap \cup {"blind"}
        BY Zenon
    <2>1. disk' = WithFile(disk, n) /\ emitted' = emitted
        BY <1>11, <2>0, Zenon DEF Restart, Reopened
    <2>2. n \notin DOMAIN disk /\ \A m \in DOMAIN disk : m < n
        BY <1>5, NextIsNew DEF Behind
    <2> HIDE DEF n
    <2>3. DOMAIN disk' = DOMAIN disk \cup {n} /\ (\A m \in DOMAIN disk : disk'[m] = disk[m]) /\ disk'[n].lines = <<>>
        BY <2>1, <2>2, Zenon DEF WithFile, NewSegment
    <2>4. Advance(disk, disk', a)
        BY <2>3 DEF Advance
    <2> QED
        BY <1>6, <2>1, <2>4, Zenon
<1>12. CASE Exit \/ Crash
    BY <1>7, <1>12, Zenon DEF Exit, Crash, Died
<1>13. CASE fanout \/ Connect \/ Deliver \/ unsubscribe \/ Recent \/ RecentReturns \/ CloseStep
    BY <1>7, <1>13, Zenon DEF fanout, Connect, Deliver, unsubscribe, Recent, RecentReturns, CloseStep, walVars
<1>14. CASE Gather \/ Tick \/ SendReturns \/ ForwarderStops \/ SetTarget \/ Ingest \/ IngestLost \/ Prune
    <2>1. UNCHANGED exporterKept
        BY <1>14, Zenon DEF Gather, Tick, SendReturns, ForwarderStops, SetTarget, Ingest, IngestLost, Prune
    <2> QED
        BY <1>7, <2>1, Zenon DEF exporterKept, walVars
<1>15. CASE UNCHANGED tvars
    BY <1>7, <1>15, Zenon DEF tvars, walVars
<1> QED
    BY <1>8, <1>9, <1>10, <1>11, <1>12, <1>13, <1>14, <1>15, Zenon DEF TNext

(* The write-ahead log implements LossyLog: whatever crashes, restarts,    *)
(* rotations, failed writes, failed opens and failed listings of pruneLocked *)
(* there are, its whole lines are some of the events, each once and in the *)
(* order in which they were emitted, they never change, new ones come at   *)
(* the end and the oldest go first, until newWAL fails to list the         *)
(* directory or an os.Remove fails before one that does not                *)
(* (internal/export/wal.go:43-186, internal/export/export.go:182-190,      *)
(* 284-335).                                                               *)
THEOREM AuditTrailAlways == TSpec => AuditTrail
<1>1. TInit => Log!AInit
    <2> SUFFICES ASSUME TInit PROVE emitted = 0 /\ DOMAIN Lines(disk) = {}
        BY Zenon DEF Log!AInit
    <2>1. emitted = 0 /\ DOMAIN disk = {1} /\ disk[1].lines = <<>>
        BY Zenon DEF TInit, NewSegment
    <2>2. ASSUME NEW x \in Places(disk) PROVE FALSE
        BY <2>1, PlaceIs
    <2>3. DOMAIN Lines(disk) = Places(disk)
        BY PlaceIs, Zenon
    <2>4. Places(disk) = {}
        BY <2>2, Zenon
    <2> QED
        BY <2>1, <2>3, <2>4, Zenon
<1>2. (TInd /\ LogInd) /\ (TInd /\ LogInd)' /\ [TNext]_tvars
        => [Log!Emitted \/ Log!Move \/ mishap' # {}]_<<emitted, Lines(disk)>>
    BY TrailStep, Zenon
<1> QED
    BY <1>1, <1>2, LogIndAlways, PTL DEF TSpec, AuditTrail
-----------------------------------------------------------------------------
(* What Close leaves.  The events in the files, and those in the files or  *)
(* in bufio's buffer.                                                      *)
OnDisk(d) == {v \in Nat : \E n \in DOMAIN d : \E j \in DOMAIN d[n].lines : v = d[n].lines[j]}
InLog(d, w) == OnDisk(d) \cup Range(w.buf)

(* An event is on its way to the log, or in it, or older than all that     *)
(* retention has left of it.                                               *)
Held(e, q, L) == e \in Range(q) \/ e \in L \/ (L # {} /\ \A n \in L : e < n)

(* Elements of a sequence with one more at the end, or without its head.   *)
LEMMA RangeMoves ==
    ASSUME NEW s \in Seq(Nat), NEW e \in Nat
    PROVE  /\ Range(s) \subseteq Nat
           /\ Range(Append(s, e)) = Range(s) \cup {e} /\ Range(<<e>>) = {e} /\ Range(<<>>) = {}
           /\ s # <<>> => \A x \in Range(s) : x = Head(s) \/ x \in Range(Tail(s))
<1>1. Range(s) \subseteq Nat
    BY DEF Range
<1>2. Range(<<e>>) = {e} /\ Range(<<>>) = {}
    BY DEF Range
<1>3. Range(Append(s, e)) = Range(s) \cup {e}
    <2> DEFINE t == Append(s, e)
               m == Len(s)
    <2>1. m \in Nat /\ DOMAIN s = 1..m /\ DOMAIN t = 1..(m + 1) /\ t[m + 1] = e /\ \A i \in 1..m : t[i] = s[i]
        OBVIOUS
    <2> HIDE DEF t, m
    <2>2. \A i \in 1..(m + 1) : i \in 1..m \/ i = m + 1
        BY <2>1
    <2>3. m + 1 \in 1..(m + 1) /\ \A i \in 1..m : i \in 1..(m + 1)
        BY <2>1
    <2>4. \A x : x \in Range(t) <=> x \in Range(s) \cup {e}
        BY <2>1, <2>2, <2>3, Zenon DEF Range
    <2> QED
        BY <2>4, Zenon DEF t
<1>4. ASSUME s # <<>>, NEW x \in Range(s) PROVE x = Head(s) \/ x \in Range(Tail(s))
    <2> DEFINE t == Tail(s)
               m == Len(s)
    <2>1. m \in Nat /\ DOMAIN s = 1..m /\ DOMAIN t = 1..(m - 1) /\ Head(s) = s[1]
        BY <1>4
    <2>2. \A j \in 1..(m - 1) : t[j] = s[j + 1]
        BY <1>4
    <2>3. PICK i \in 1..m : x = s[i]
        BY <2>1, Zenon DEF Range
    <2> HIDE DEF t, m
    <2>4. CASE i # 1
        <3>1. PICK j : j = i - 1
            BY Zenon
        <3>2. j \in 1..(m - 1) /\ j + 1 = i
            BY <2>1, <2>4, <3>1
        <3>3. t[j] = s[i]
            BY <2>2, <3>2, Zenon
        <3> QED
            BY <2>1, <2>3, <3>2, <3>3, Zenon DEF Range, t
    <2> QED
        BY <2>1, <2>3, <2>4, Zenon
<1> QED
    BY <1>1, <1>2, <1>3, <1>4, Zenon

(* A sequence cut at its length.                                           *)
LEMMA WholeSeq == \A u \in Seq(Nat) : SubSeq(u, 1, Len(u)) = u
<1> SUFFICES ASSUME NEW u \in Seq(Nat) PROVE SubSeq(u, 1, Len(u)) = u
    BY Zenon
<1>1. PICK k \in Nat : k = Len(u)
    OBVIOUS
<1>2. PICK t \in Seq(Nat) : t = SubSeq(u, 1, k)
    BY <1>1
<1>3. Len(t) = k /\ \A i \in 1..k : t[i] = u[i]
    BY <1>1, <1>2
<1>4. \A v \in Seq(Nat) : v = [i \in 1..Len(v) |-> v[i]]
    OBVIOUS
<1>5. t = [i \in 1..k |-> t[i]] /\ u = [i \in 1..k |-> u[i]]
    BY <1>1, <1>3, <1>4, Zenon
<1>6. t = u
    BY <1>3, <1>5, Zenon
<1> QED
    BY <1>1, <1>2, <1>6, Zenon

(* The elements of two sequences joined.                                   *)
LEMMA RangeJoin == \A u, v \in Seq(Nat) : Range(u \o v) = Range(u) \cup Range(v)
<1> SUFFICES ASSUME NEW u \in Seq(Nat), NEW v \in Seq(Nat) PROVE Range(u \o v) = Range(u) \cup Range(v)
    BY Zenon
<1>1. PICK k \in Nat, m \in Nat : k = Len(u) /\ m = Len(v)
    OBVIOUS
<1>2. PICK t \in Seq(Nat) : t = u \o v
    <2>1. u \o v \in Seq(Nat)
        OBVIOUS
    <2> QED
        BY <2>1, Zenon
<1>3. /\ DOMAIN t = 1..(k + m) /\ DOMAIN u = 1..k /\ DOMAIN v = 1..m
      /\ \A i \in 1..k : t[i] = u[i]
      /\ \A i \in 1..m : t[k + i] = v[i]
    BY <1>1, <1>2
<1>4. ASSUME NEW x \in Range(t) PROVE x \in Range(u) \cup Range(v)
    <2>1. PICK i \in 1..(k + m) : x = t[i]
        BY <1>3, <1>4, Zenon DEF Range
    <2>2. CASE i <= k
        <3>1. i \in DOMAIN u /\ x = u[i]
            BY <1>3, <2>1, <2>2
        <3> QED
            BY <3>1, Zenon DEF Range
    <2>3. CASE i > k
        <3>1. PICK j : j = i - k
            BY Zenon
        <3>2. j \in 1..m /\ k + j = i
            BY <2>3, <3>1
        <3> QED
            BY <1>3, <2>1, <3>2, Zenon DEF Range
    <2> QED
        BY <2>2, <2>3
<1>5. Range(u) \subseteq Range(t)
    <2>1. \A i \in 1..k : i \in 1..(k + m)
        OBVIOUS
    <2> QED
        BY <1>3, <2>1, Zenon DEF Range
<1>6. Range(v) \subseteq Range(t)
    <2>1. \A i \in 1..m : k + i \in 1..(k + m)
        OBVIOUS
    <2> QED
        BY <1>3, <2>1, Zenon DEF Range
<1> QED
    BY <1>2, <1>4, <1>5, <1>6, Zenon

(* All that is buffered is written.                                        *)
LEMMA WroteSet ==
    ASSUME NEW d, NEW w \in Writers, w.seq \in DOMAIN d, NEW torn, NEW b, Files(d, b)
    PROVE  /\ DOMAIN Wrote(d, w, Len(w.buf), torn) = DOMAIN d
           /\ OnDisk(Wrote(d, w, Len(w.buf), torn)) = InLog(d, w)
<1>0. PICK g : g = Wrote(d, w, Len(w.buf), torn)
    BY Zenon
<1>1. w.buf \in Seq(Nat) /\ \A n \in DOMAIN d : d[n].lines \in Seq(Nat)
    BY Zenon DEF Writers, Buffers, Files
<1>2. SubSeq(w.buf, 1, Len(w.buf)) = w.buf
    BY <1>1, WholeSeq, Zenon
<1>3. /\ DOMAIN g = DOMAIN d
      /\ \A n \in DOMAIN d : g[n].lines = IF n = w.seq THEN d[n].lines \o w.buf ELSE d[n].lines
    <2>1. PICK k : k = Len(w.buf)
        BY Zenon
    <2>2. /\ DOMAIN Wrote(d, w, k, torn) = DOMAIN d
          /\ \A n \in DOMAIN d : Wrote(d, w, k, torn)[n].lines =
                IF n = w.seq THEN d[n].lines \o SubSeq(w.buf, 1, k) ELSE d[n].lines
        BY WroteLines
    <2>3. g = Wrote(d, w, k, torn) /\ SubSeq(w.buf, 1, k) = w.buf
        BY <1>0, <1>2, <2>1, Zenon
    <2> QED
        BY Zenon, <2>2, <2>3
<1>4. PICK s : s = d[w.seq].lines
    BY Zenon
<1>5. s \in Seq(Nat) /\ g[w.seq].lines = s \o w.buf
    BY Zenon, <1>1, <1>3, <1>4
<1>6. Range(s \o w.buf) = Range(s) \cup Range(w.buf)
    BY <1>1, <1>5, RangeJoin, Zenon
<1>7. Range(s) \subseteq Nat /\ Range(w.buf) \subseteq Nat
    BY <1>1, <1>5 DEF Range
<1>8. \A h, v : v \in OnDisk(h) <=> v \in Nat /\ \E n \in DOMAIN h : v \in Range(h[n].lines)
    BY Zenon DEF OnDisk, Range
<1>9. ASSUME NEW v \in OnDisk(g) PROVE v \in InLog(d, w)
    <2>1. PICK n \in DOMAIN d : v \in Range(g[n].lines) /\ v \in Nat
        BY <1>3, <1>8, Zenon
    <2>2. CASE n = w.seq
        <3>1. v \in Range(s) \/ v \in Range(w.buf)
            BY Zenon, <1>5, <1>6, <2>1, <2>2
        <3>2. v \in Range(s) => v \in OnDisk(d)
            BY <1>4, <1>8, <2>1, <2>2, Zenon
        <3> QED
            BY <3>1, <3>2, Zenon DEF InLog
    <2>3. CASE n # w.seq
        BY <1>3, <1>8, <2>1, <2>3, Zenon DEF InLog
    <2> QED
        BY <2>2, <2>3, Zenon
<1>10. ASSUME NEW v \in InLog(d, w) PROVE v \in OnDisk(g)
    <2>1. CASE v \in Range(w.buf)
        BY Zenon, <1>3, <1>5, <1>6, <1>7, <1>8, <2>1
    <2>2. CASE v \in OnDisk(d)
        <3>1. PICK n \in DOMAIN d : v \in Range(d[n].lines) /\ v \in Nat
            BY <1>8, <2>2, Zenon
        <3>2. CASE n = w.seq
            BY <1>3, <1>4, <1>5, <1>6, <1>8, <3>1, <3>2, Zenon
        <3>3. CASE n # w.seq
            BY <1>3, <1>8, <3>1, <3>3, Zenon
        <3> QED
            BY <3>2, <3>3, Zenon
    <2> QED
        BY <1>10, <2>1, <2>2, Zenon DEF InLog
<1> QED
    BY Zenon, <1>0, <1>3, <1>9, <1>10

(* A line that bufio takes, spilling or not.                               *)
LEMMA WriteSet ==
    ASSUME NEW d, NEW w \in Writers, w.seq \in DOMAIN d, ~w.failed, NEW b, Files(d, b), Spliceless(d, w),
           NEW e \in Nat, Write(d, w, e)
    PROVE  /\ InLog(disk', wal') = InLog(d, w) \cup {e}
           /\ ~wal'.failed /\ wal'.seq = w.seq /\ DOMAIN disk' = DOMAIN d
<1>1. w.buf \in Seq(Nat)
    BY Zenon DEF Writers, Buffers
<1>2. \A t \in Buffers : Took(w, t).seq = w.seq /\ Took(w, t).buf = t /\ Took(w, t).failed = w.failed
    BY Zenon DEF Took, Writers
<1>3. CASE disk' = d /\ wal' = Took(w, Append(w.buf, e))
    <2>1. PICK t : t = Append(w.buf, e)
        BY Zenon
    <2>2. t \in Buffers /\ Range(t) = Range(w.buf) \cup {e}
        <3>1. PICK s : s = w.buf
            BY Zenon
        <3>2. Range(Append(s, e)) = Range(s) \cup {e} /\ Append(s, e) \in Seq(Nat)
            <4>1. s \in Seq(Nat) /\ Append(s, e) \in Seq(Nat)
                BY <1>1, <3>1
            <4> QED
                BY <4>1, RangeMoves, Zenon
        <3> QED
            BY <2>1, <3>1, <3>2, Zenon DEF Buffers
    <2>3. wal'.buf = t /\ wal'.seq = w.seq /\ ~wal'.failed
        BY Zenon, <1>2, <1>3, <2>1, <2>2
    <2> QED
        BY <1>3, <2>2, <2>3, Zenon DEF InLog
<1>4. CASE (\E torn \in BOOLEAN : disk' = Wrote(d, w, Len(w.buf), torn)) /\ wal' = Took(w, <<e>>)
    <2>1. <<e>> \in Buffers /\ Range(<<e>>) = {e}
        BY DEF Buffers, Range
    <2>2. wal'.buf = <<e>> /\ wal'.seq = w.seq /\ ~wal'.failed
        BY <1>2, <1>4, <2>1, Zenon
    <2>3. DOMAIN disk' = DOMAIN d /\ OnDisk(disk') = InLog(d, w)
        <3>1. PICK torn : disk' = Wrote(d, w, Len(w.buf), torn)
            BY <1>4, Zenon
        <3>2. /\ DOMAIN Wrote(d, w, Len(w.buf), torn) = DOMAIN d
              /\ OnDisk(Wrote(d, w, Len(w.buf), torn)) = InLog(d, w)
            BY WroteSet, Zenon
        <3> QED
            BY <3>1, <3>2, Zenon
    <2> QED
        BY <2>1, <2>2, <2>3, Zenon DEF InLog
<1>5. Line(d, w, e) = e
    BY LineIs, Zenon
<1> QED
    BY <1>3, <1>4, <1>5, Zenon DEF Write

(* Close's and a rotation's flush.                                         *)
LEMMA FlushSet ==
    ASSUME wal \in Writers, wal.seq \in DOMAIN disk, ~wal.failed, NEW b, Files(disk, b)
    PROVE  DOMAIN Flush(disk) = DOMAIN disk /\ OnDisk(Flush(disk)) = InLog(disk, wal)
<1>1. CASE wal.buf = <<>>
    <2>1. Range(wal.buf) = {}
        BY <1>1 DEF Range
    <2> QED
        BY <1>1, <2>1, Zenon DEF Flush, InLog
<1>2. CASE wal.buf # <<>>
    BY <1>2, WroteSet, Zenon DEF Flush
<1> QED
    BY <1>1, <1>2, Zenon

(* A new file, and the removal of the oldest ones.                         *)
LEMMA OpenedSet ==
    ASSUME NEW d, NEW n \in Nat \ {0}, NEW b \in Nat, Files(d, b), DOMAIN d \subseteq 1..(n - 1)
    PROVE  LET h == pruneLocked(WithFile(d, n)) IN
           /\ n \in DOMAIN h /\ OnDisk(h) \subseteq OnDisk(d)
           /\ \A x \in OnDisk(d) \ OnDisk(h), y \in OnDisk(h) : x < y
<1>0. PICK g, h : g = WithFile(d, n) /\ h = pruneLocked(g)
    BY Zenon
<1>1. DOMAIN g = DOMAIN d \cup {n} /\ (\A m \in DOMAIN d : g[m] = d[m]) /\ (n \notin DOMAIN d => g[n].lines = <<>>)
    BY <1>0, Zenon DEF WithFile, NewSegment
<1>2. n \notin DOMAIN d /\ DOMAIN g \subseteq 1..n /\ \A m \in DOMAIN g : m <= n
    <2>1. PICK D : D = DOMAIN d
        BY Zenon
    <2>2. D \subseteq 1..(n - 1) /\ DOMAIN g = D \cup {n}
        BY <1>1, <2>1, Zenon
    <2>3. n \notin D /\ D \cup {n} \subseteq 1..n /\ \A m \in D \cup {n} : m <= n
        BY <2>2
    <2> QED
        BY <2>1, <2>2, <2>3, Zenon
<1>3. DOMAIN h \subseteq DOMAIN g /\ \A m \in DOMAIN h : h[m] = g[m]
    BY <1>0, <1>2, PruneBounds, Zenon
<1>4. /\ \A k \in DOMAIN g \ DOMAIN h, m \in DOMAIN h : k < m
      /\ \A k \in DOMAIN g : (\A m \in DOMAIN g : m <= k) => k \in DOMAIN h
    BY <1>0, <1>2, PruneOrder, Zenon
<1>5. n \in DOMAIN h
    BY <1>1, <1>2, <1>4, Zenon
<1>6. \A m \in DOMAIN h : \A j \in DOMAIN h[m].lines : m \in DOMAIN d /\ h[m] = d[m]
    <2>1. h[n].lines = <<>>
        BY <1>1, <1>2, <1>3, <1>5, Zenon
    <2> QED
        BY <1>1, <1>3, <2>1
<1>7. ASSUME NEW x \in OnDisk(d) \ OnDisk(h), NEW y \in OnDisk(h) PROVE x < y
    <2>1. PICK k \in DOMAIN d : \E i \in DOMAIN d[k].lines : x = d[k].lines[i]
        BY Zenon DEF OnDisk
    <2>2. PICK m \in DOMAIN h : \E j \in DOMAIN h[m].lines : y = h[m].lines[j]
        BY Zenon DEF OnDisk
    <2>3. k \notin DOMAIN h
        BY <1>1, <1>3, <1>7, <2>1 DEF OnDisk
    <2>4. k < m /\ m \in DOMAIN d /\ h[m] = d[m]
        BY <1>1, <1>4, <1>6, <2>1, <2>2, <2>3, Zenon
    <2> QED
        BY <2>1, <2>2, <2>4, Zenon DEF Files
<1>8. OnDisk(h) \subseteq OnDisk(d)
    BY <1>6, Zenon DEF OnDisk
<1> QED
    BY <1>0, <1>5, <1>7, <1>8, Zenon

(* The head of walQueue is in the log, and what retention removed is older *)
(* than what it left.                                                      *)
LEMMA HeldMoves ==
    ASSUME NEW q \in Seq(Nat), q # <<>>, NEW e \in Nat, e = Head(q),
           NEW L \in SUBSET Nat, NEW M \in SUBSET Nat, e \in M, \A n \in L : n < e,
           \A n \in M : n \in L \/ n = e, \A n \in L \ M, m \in M : n < m,
           NEW x \in Nat, Held(x, q, L)
    PROVE  Held(x, Tail(q), M)
<1>1. CASE x \in Range(q)
    <2>1. x = e \/ x \in Range(Tail(q))
        BY Zenon, <1>1, RangeMoves
    <2> QED
        BY <2>1, Zenon DEF Held
<1>2. CASE x \in L
    BY <1>2, Zenon DEF Held
<1>3. CASE L # {} /\ \A n \in L : x < n
    <2>1. PICK n \in L : TRUE
        BY Zenon, <1>3
    <2>2. x < e
        BY <1>3, <2>1
    <2> QED
        BY <1>3, <2>2, Zenon DEF Held
<1> QED
    BY <1>1, <1>2, <1>3, Zenon DEF Held

(* The loops have run out in the order in which they feed each other.      *)
StageInd ==
    /\ accepted \in Seq(Nat) /\ (~Up => accepted = <<>>)
    /\ stage \in {"flushing", "closed"} => queue = <<>>
    /\ stage = "closed" => walQueue = <<>> /\ wal.buf = <<>>

(* While no write has failed, all that this run accepted is held.          *)
KeptInd ==
    budget["faults"] = MaxFaults =>
       /\ ~wal.failed /\ (Up => wal.seq \in DOMAIN disk)
       /\ \A i \in DOMAIN accepted : Held(accepted[i], walQueue, InLog(disk, wal))

(* The order of Close over every step.                                     *)
LEMMA StageStep ==
    ASSUME TInd, StageInd, [TNext]_tvars
    PROVE  StageInd'
<1>1. ASSUME Died PROVE StageInd'
    BY <1>1 DEF Died, StageInd, Up
<1>2. ASSUME UNCHANGED <<stage, queue, walQueue, wal, accepted>> PROVE StageInd'
    BY <1>2, Zenon DEF StageInd, Up
<1>3. CASE enqueue
    <2>1. CASE Closed
        BY <1>1, <1>3, <2>1, Zenon DEF enqueue
    <2>2. CASE ~Closed
        BY <1>3, <2>2, Zenon DEF enqueue, StageInd, Up, Closed
    <2> QED
        BY <2>1, <2>2, Zenon
<1>4. CASE fanout
    <2>1. queue # <<>> /\ Up /\ stage' = stage /\ stage \notin {"flushing", "closed"}
        BY <1>4, Zenon DEF fanout, StageInd
    <2>2. Head(queue) \in Nat
        BY <2>1 DEF TInd, QueueTypes, Buffers
    <2>3. accepted' \in Seq(Nat)
        BY <1>4, <2>2 DEF fanout, StageInd
    <2> QED
        BY <2>1, <2>3, Zenon DEF StageInd, Up
<1>5. CASE walLoop
    <2>1. walQueue # <<>> /\ Up /\ UNCHANGED <<stage, queue, accepted>> /\ stage # "closed"
        BY <1>5, Zenon DEF walLoop, StageInd
    <2> QED
        BY <2>1, Zenon DEF StageInd, Up
<1>6. CASE walClose
    <2>1. walQueue' = <<>> /\ stage' = "closed" /\ queue' = queue /\ accepted' = accepted /\ stage = "flushing"
        BY <1>6, Zenon DEF walClose, walDone
    <2>2. wal'.buf = <<>>
        BY <1>6, Zenon DEF walClose, Failed, TInd, Writers
    <2> QED
        BY <2>1, <2>2, Zenon DEF StageInd, Up
<1>7. CASE CloseStep
    <2>1. UNCHANGED <<queue, walQueue, wal, accepted>> /\ Up
        BY <1>7, Zenon DEF CloseStep, CloseMoves, walVars, Up
    <2>2. stage' \in {"stopping", "graceful", "draining", "flushing"} /\ (stage' = "flushing" => queue = <<>>)
        BY <1>7, Zenon DEF CloseStep, CloseMoves, loopDone
    <2> QED
        BY <2>1, <2>2, Zenon DEF StageInd, Up
<1>8. CASE Restart
    BY <1>8, Zenon DEF Restart, StageInd, Up
<1>9. CASE Exit \/ Crash
    BY <1>1, <1>9, Zenon DEF Exit, Crash
<1>10. CASE Connect \/ Deliver \/ unsubscribe \/ Recent \/ RecentReturns
    BY <1>2, <1>10, Zenon DEF Connect, Deliver, unsubscribe, Recent, RecentReturns, walVars
<1>11. CASE Gather \/ Tick \/ SendReturns \/ ForwarderStops \/ SetTarget \/ Ingest \/ IngestLost \/ Prune
    <2>1. UNCHANGED exporterKept
        BY <1>11, Zenon DEF Gather, Tick, SendReturns, ForwarderStops, SetTarget, Ingest, IngestLost, Prune
    <2> QED
        BY <1>2, <2>1, Zenon DEF exporterKept, exportVars, walVars
<1>12. CASE UNCHANGED tvars
    BY <1>2, <1>12, Zenon DEF tvars, exportVars, walVars
<1> QED
    BY <1>3, <1>4, <1>5, <1>6, <1>7, <1>8, <1>9, <1>10, <1>11, <1>12, Zenon DEF TNext

(* What is in the log are events no later than b.                          *)
LEMMA InLogBound ==
    ASSUME NEW d, NEW w \in Writers, NEW a \in Nat, NEW b \in Nat, a <= b, Files(d, a), Between(w.buf, a, b)
    PROVE  InLog(d, w) \subseteq Nat /\ \A n \in InLog(d, w) : n <= b
<1>1. \A n \in Range(w.buf) : n \in Nat /\ n <= b
    <2>1. w.buf \in Seq(Nat)
        BY Zenon DEF Writers, Buffers
    <2>2. \A i \in DOMAIN w.buf : w.buf[i] \in Nat /\ w.buf[i] <= b
        BY <2>1 DEF Between
    <2> QED
        BY <2>2, Zenon DEF Range
<1>2. ASSUME NEW n \in OnDisk(d) PROVE n \in Nat /\ n <= b
    <2>1. PICK k \in DOMAIN d : \E j \in DOMAIN d[k].lines : n = d[k].lines[j]
        BY Zenon DEF OnDisk
    <2>2. PICK j \in DOMAIN d[k].lines : n = d[k].lines[j]
        BY <2>1, Zenon
    <2>3. n \in Nat /\ n <= a
        BY <2>2, Zenon DEF Files, Between, OnDisk
    <2> QED
        BY <2>3
<1> QED
    BY <1>1, <1>2, Zenon DEF InLog

(* walLoop, when it does not fail: the event joins the log.                *)
LEMMA LogJoined ==
    ASSUME TInd, Sighted, Up, NEW a \in Nat, NEW b \in Nat, a <= b, Files(disk, a), Between(wal.buf, a, b),
           ~wal.failed, wal.seq \in DOMAIN disk, NEW e \in Nat, b < e,
           \/ Write(disk, wal, e)
           \/ Write(Opened(Flush(disk)), openLocked(Flush(disk), wal.seq + 1), e)
    PROVE  LET L == InLog(disk, wal)
               M == InLog(disk', wal')
           IN  /\ ~wal'.failed /\ wal'.seq \in DOMAIN disk'
               /\ e \in M /\ (\A n \in M : n \in L \/ n = e) /\ \A n \in L \ M, m \in M : n < m
<1>1. wal \in Writers /\ Typed(disk) /\ Behind(disk, wal) /\ Spliceless(disk, wal) /\ wal.seq \in Nat
    BY Zenon DEF TInd, Writers, Numbers
<1>2. PICK L, M : L = InLog(disk, wal) /\ M = InLog(disk', wal')
    BY Zenon
<1>3. L \subseteq Nat /\ \A n \in L : n < e
    <2>1. L \subseteq Nat /\ \A n \in L : n <= b
        BY <1>1, <1>2, InLogBound, Zenon
    <2> QED
        BY <2>1
<1>4. CASE Write(disk, wal, e)
    <2>1. M = L \cup {e} /\ ~wal'.failed /\ wal'.seq = wal.seq /\ DOMAIN disk' = DOMAIN disk
        BY <1>1, <1>2, <1>4, WriteSet, Zenon
    <2> QED
        BY <1>2, <2>1, Zenon
<1>5. CASE Write(Opened(Flush(disk)), openLocked(Flush(disk), wal.seq + 1), e)
    <2>1. PICK d, n : d = Flush(disk) /\ n = wal.seq + 1
        BY Zenon
    <2>2. PICK h, w : h = pruneLocked(WithFile(d, n)) /\ w = openLocked(d, n)
        BY Zenon
    <2>3. DOMAIN d = DOMAIN disk /\ OnDisk(d) = L /\ Files(d, b)
        BY <1>1, <1>2, <2>1, FlushSet, FlushFlow, Zenon
    <2>4. n \in Nat \ {0} /\ DOMAIN d \subseteq 1..(n - 1)
        BY <1>1, <2>1, <2>3 DEF Behind
    <2>5. n \in DOMAIN h /\ OnDisk(h) \subseteq L /\ \A x \in L \ OnDisk(h), y \in OnDisk(h) : x < y
        BY Zenon, <2>2, <2>3, <2>4, OpenedSet
    <2>6. Files(h, b)
        <3>1. Typed(d)
            BY <1>1, <2>1, FlushSound, Zenon
        <3>2. Some(h, WithFile(d, n))
            BY <2>2, <2>4, <3>1, OpenFile, PruneSound, Zenon
        <3> QED
            BY <2>3, <2>4, <3>2, FilesOpened, Zenon
    <2>7. w \in Writers /\ w.seq = n /\ ~w.failed /\ w.buf = <<>> /\ Spliceless(h, w)
        <3>1. Typed(d)
            BY <1>1, <2>1, FlushSound, Zenon
        <3>2. Some(h, WithFile(d, n))
            BY <2>2, <2>4, <3>1, OpenFile, PruneSound, Zenon
        <3>3. DOMAIN d \subseteq 1..wal.seq
            BY <1>1, <2>3, Zenon DEF Behind
        <3>4. w \in Writers /\ w.seq = n /\ w.buf = <<>> /\ Spliceless(h, w)
            BY <1>1, <2>1, <2>2, <3>1, <3>2, <3>3, OpenSound, Zenon
        <3>5. w.failed = FALSE
            BY <2>2, Zenon DEF openLocked, WriterAt
        <3> QED
            BY <3>4, <3>5, Zenon
    <2>8. Write(h, w, e)
        BY <1>5, <2>1, <2>2, Zenon DEF Opened
    <2>9. InLog(disk', wal') = InLog(h, w) \cup {e} /\ ~wal'.failed /\ wal'.seq = w.seq /\ DOMAIN disk' = DOMAIN h
        BY Zenon, <2>5, <2>6, <2>7, <2>8, WriteSet
    <2>10. M = OnDisk(h) \cup {e}
        <3>1. Range(w.buf) = {}
            BY <2>7 DEF Range
        <3>2. InLog(h, w) = OnDisk(h)
            BY <3>1, Zenon DEF InLog
        <3> QED
            BY <1>2, <2>9, <3>2, Zenon
    <2>11. \A x \in L \ M, m \in M : x < m
        BY <1>3, <2>5, <2>10, Zenon
    <2> QED
        BY Zenon, <1>2, <2>5, <2>7, <2>9, <2>10, <2>11
<1> QED
    BY <1>4, <1>5, Zenon

(* walLoop keeps what is held.                                             *)
LEMMA KeptWal ==
    ASSUME TInd, LogInd, BudgetInd, StageInd, KeptInd, walLoop,
           budget["faults"] = MaxFaults, budget'["faults"] = MaxFaults
    PROVE  KeptInd'
<1>1. PICK a, b, c : LogFlow(a, b, c)
    BY Zenon DEF LogInd
<1>0. Sighted
    BY Zenon DEF BudgetInd, Sighted
<1>2. /\ a \in Nat /\ b \in Nat /\ c \in Nat /\ a <= b /\ b <= c
      /\ Files(disk, a) /\ Between(wal.buf, a, b) /\ Between(walQueue, b, c)
    BY <1>0, <1>1, Zenon DEF LogFlow
<1>3. /\ wal \in Writers /\ Up /\ walQueue # <<>> /\ walQueue \in Seq(Nat) /\ accepted \in Seq(Nat)
      /\ walQueue' = Tail(walQueue) /\ UNCHANGED <<stage, accepted>>
    BY Zenon DEF TInd, QueueTypes, Buffers, walLoop, StageInd
<1>4. PICK e : e = Head(walQueue)
    BY Zenon
<1>5. e \in Nat /\ b < e
    BY <1>2, <1>3, <1>4, BetweenTail, Zenon
<1>6. ~wal.failed /\ wal.seq \in DOMAIN disk /\ \A i \in DOMAIN accepted : Held(accepted[i], walQueue, InLog(disk, wal))
    BY <1>3, Zenon DEF KeptInd
<1>7. ~Fault
    <2>1. "faults" \in Kinds
        BY Zenon DEF Kinds
    <2> QED
        BY <2>1, Spent, Zenon DEF Fault
<1>8. Write(disk, wal, e) \/ Write(Opened(Flush(disk)), openLocked(Flush(disk), wal.seq + 1), e)
    BY <1>4, <1>7, Zenon DEF walLoop, AppendLine, RotateAndAppend
<1>9. PICK L, M : L = InLog(disk, wal) /\ M = InLog(disk', wal')
    BY Zenon
<1>10. /\ ~wal'.failed /\ wal'.seq \in DOMAIN disk'
       /\ e \in M /\ (\A n \in M : n \in L \/ n = e) /\ \A n \in L \ M, m \in M : n < m
    BY Zenon, <1>0, <1>2, <1>3, <1>5, <1>6, <1>8, <1>9, LogJoined
<1>11. L \subseteq Nat /\ \A n \in L : n <= b
    BY Zenon, <1>2, <1>3, <1>9, InLogBound
<1>12. L \in SUBSET Nat /\ M \in SUBSET Nat /\ \A n \in L : n < e
    <2>1. L \in SUBSET Nat /\ M \in SUBSET Nat
        BY <1>5, <1>10, <1>11, Zenon
    <2>2. ASSUME NEW n \in L PROVE n < e
        <3>1. n \in Nat /\ n <= b
            BY <1>11, Zenon
        <3> QED
            BY <1>2, <1>5, <3>1
    <2> QED
        BY <2>1, <2>2, Zenon
<1>13. ASSUME NEW i \in DOMAIN accepted PROVE Held(accepted[i], Tail(walQueue), M)
    <2>1. PICK x : x = accepted[i]
        BY Zenon
    <2>2. x \in Nat /\ Held(x, walQueue, L)
        BY <1>3, <1>6, <1>9, <2>1
    <2>3. PICK q : q = walQueue
        BY Zenon
    <2>4. q \in Seq(Nat) /\ q # <<>> /\ e = Head(q) /\ Held(x, q, L)
        BY <1>3, <1>4, <2>2, <2>3, Zenon
    <2>5. Held(x, Tail(q), M)
        BY <1>5, <1>10, <1>12, <2>2, <2>4, HeldMoves, Zenon
    <2> QED
        BY <2>1, <2>3, <2>5, Zenon
<1> QED
    BY <1>3, <1>9, <1>10, <1>13, Zenon DEF KeptInd

(* What is held over every step.                                           *)
LEMMA KeptStep ==
    ASSUME TInd, LogInd, BudgetInd, StageInd, KeptInd, [TNext]_tvars
    PROVE  KeptInd'
<1> SUFFICES ASSUME budget'["faults"] = MaxFaults PROVE KeptInd'
    BY Zenon DEF KeptInd
<1>0. /\ budget["faults"] = MaxFaults /\ ~wal.failed /\ (Up => wal.seq \in DOMAIN disk)
      /\ \A i \in DOMAIN accepted : Held(accepted[i], walQueue, InLog(disk, wal))
    BY BudgetStep, Zenon DEF KeptInd
<1>13. Sighted
    BY <1>0, Zenon DEF BudgetInd, Sighted
<1>1. ASSUME Died PROVE KeptInd'
    BY <1>1 DEF Died, KeptInd, Up, WriterAt
<1>2. ASSUME UNCHANGED <<walQueue, disk, wal, accepted>>, Up' => Up PROVE KeptInd'
    BY <1>0, <1>2, Zenon DEF KeptInd
<1>3. CASE enqueue
    <2>1. CASE Closed
        BY <1>1, <1>3, <2>1, Zenon DEF enqueue
    <2>2. CASE ~Closed
        BY <1>2, <1>3, <2>2, Zenon DEF enqueue, walVars, Up
    <2> QED
        BY <2>1, <2>2, Zenon
<1>4. CASE fanout
    <2>1. PICK e : e = Head(queue)
        BY Zenon
    <2>2. /\ e \in Nat /\ walQueue \in Seq(Nat) /\ accepted \in Seq(Nat)
          /\ walQueue' = Offer(walQueue, QueueCap, e)
          /\ accepted' = IF Len(walQueue) < QueueCap THEN Append(accepted, e) ELSE accepted
          /\ UNCHANGED <<disk, wal, stage>>
        BY <1>4, <2>1 DEF fanout, walVars, TInd, QueueTypes, Buffers, StageInd
    <2>3. CASE ~(Len(walQueue) < QueueCap)
        BY <1>2, <2>2, <2>3, Zenon DEF Offer, Up
    <2>4. CASE Len(walQueue) < QueueCap
        <3>1. walQueue' = Append(walQueue, e) /\ accepted' = Append(accepted, e)
            BY <2>2, <2>4, Zenon DEF Offer
        <3>2. PICK q, L : q = walQueue /\ L = InLog(disk, wal)
            BY Zenon
        <3>3. Range(Append(q, e)) = Range(q) \cup {e}
            <4>1. q \in Seq(Nat)
                BY <2>2, <3>2, Zenon
            <4> QED
                BY <2>2, <4>1, RangeMoves, Zenon
        <3>4. \A i \in DOMAIN accepted' : (i \in DOMAIN accepted /\ accepted'[i] = accepted[i]) \/ accepted'[i] = e
            BY <2>2, <3>1
        <3>5. \A i \in DOMAIN accepted' : Held(accepted'[i], walQueue', L)
            BY <1>0, <3>1, <3>2, <3>3, <3>4, Zenon DEF Held
        <3>6. InLog(disk', wal') = L /\ Up' = Up
            BY <2>2, <3>2, Zenon DEF Up
        <3> QED
            BY <1>0, <2>2, <3>5, <3>6, Zenon DEF KeptInd
    <2> QED
        BY <2>3, <2>4, Zenon
<1>5. CASE walLoop
    BY <1>0, <1>5, KeptWal, Zenon
<1>6. CASE walClose
    <2>1. ~Fault
        <3>1. "faults" \in Kinds
            BY Zenon DEF Kinds
        <3> QED
            BY <3>1, Spent, Zenon DEF Fault
    <2>2. /\ disk' = Flush(disk) /\ wal' = [wal EXCEPT !.buf = <<>>] /\ UNCHANGED <<walQueue, accepted>>
          /\ wal.seq \in DOMAIN disk
        BY <1>0, <1>6, <2>1, Zenon DEF walClose, Up
    <2>3. wal \in Writers
        BY Zenon DEF TInd
    <2>4. wal'.seq = wal.seq /\ wal'.failed = wal.failed /\ wal'.buf = <<>>
        BY <2>2, <2>3, Zenon DEF Writers
    <2>5. PICK a, b, c : LogFlow(a, b, c)
        BY Zenon DEF LogInd
    <2>6. Files(disk, a)
        BY <1>13, <2>5, Zenon DEF LogFlow
    <2>7. DOMAIN Flush(disk) = DOMAIN disk /\ OnDisk(Flush(disk)) = InLog(disk, wal)
        BY <1>0, <2>2, <2>3, <2>6, FlushSet, Zenon
    <2>8. InLog(disk', wal') = InLog(disk, wal)
        BY <2>2, <2>4, <2>7 DEF InLog, Range
    <2> QED
        BY <1>0, <2>2, <2>4, <2>7, <2>8, Zenon DEF KeptInd
<1>7. CASE CloseStep
    BY <1>2, <1>7, Zenon DEF CloseStep, CloseMoves, walVars, Up
<1>8. CASE Restart
    <2>1. PICK n : n = NextSeq(disk)
        BY Zenon
    <2>0. ~Fault
        <3>1. "faults" \in Kinds
            BY Zenon DEF Kinds
        <3> QED
            BY <3>1, Spent, Zenon DEF Fault
    <2>2. wal' = openLocked(disk, n) /\ disk' = WithFile(disk, n) /\ accepted' = <<>>
        BY <1>8, <2>0, <2>1, Zenon DEF Restart, Reopened, StageInd, Up
    <2>3. wal'.seq = n /\ wal'.failed = FALSE /\ n \in DOMAIN disk'
        BY <2>2, Zenon DEF openLocked, WriterAt, WithFile
    <2>4. ~wal'.failed /\ wal'.seq \in DOMAIN disk'
        BY <2>3, Zenon
    <2>5. \A i \in DOMAIN accepted' : FALSE
        BY <2>2
    <2> QED
        BY <2>4, <2>5, Zenon DEF KeptInd
<1>9. CASE Exit \/ Crash
    BY <1>1, <1>9, Zenon DEF Exit, Crash
<1>10. CASE Connect \/ Deliver \/ unsubscribe \/ Recent \/ RecentReturns
    BY <1>2, <1>10, Zenon DEF Connect, Deliver, unsubscribe, Recent, RecentReturns, walVars, Up
<1>11. CASE Gather \/ Tick \/ SendReturns \/ ForwarderStops \/ SetTarget \/ Ingest \/ IngestLost \/ Prune
    <2>1. UNCHANGED exporterKept
        BY <1>11, Zenon DEF Gather, Tick, SendReturns, ForwarderStops, SetTarget, Ingest, IngestLost, Prune
    <2> QED
        BY <1>2, <2>1, Zenon DEF exporterKept, exportVars, walVars, Up
<1>12. CASE UNCHANGED tvars
    BY <1>2, <1>12, Zenon DEF tvars, exportVars, walVars, Up
<1> QED
    BY <1>3, <1>4, <1>5, <1>6, <1>7, <1>8, <1>9, <1>10, <1>11, <1>12, Zenon DEF TNext

CloseInd == BudgetInd /\ StageInd /\ KeptInd

(* The invariants of Close.                                                *)
THEOREM CloseIndAlways == TSpec => [](TInd /\ LogInd /\ CloseInd)
<1>1. TInit => StageInd /\ KeptInd
    <2> SUFFICES ASSUME TInit PROVE StageInd /\ KeptInd
        BY Zenon
    <2>1. StageInd
        <3>1. stage = "run" /\ accepted = <<>>
            BY Zenon DEF TInit
        <3> QED
            BY <3>1 DEF StageInd, Up
    <2>2. KeptInd
        <3>1. wal.failed = FALSE /\ wal.seq = 1 /\ DOMAIN disk = {1} /\ accepted = <<>>
            BY Zenon DEF TInit, WriterAt
        <3> QED
            BY <3>1 DEF KeptInd
    <2> QED
        BY <2>1, <2>2, Zenon
<1>2. (TInd /\ LogInd /\ BudgetInd) /\ (StageInd /\ KeptInd) /\ [TNext]_tvars => (StageInd /\ KeptInd)'
    BY BudgetStep, StageStep, KeptStep, Zenon
<1> QED
    BY <1>1, <1>2, LogIndAlways, BudgetAlways, PTL DEF TSpec, CloseInd

(* Once Close is through, and if the disk has not failed in any run, every *)
(* event that fan-out put on walQueue in this run is a whole line of the   *)
(* files or older than every line that retention left: the queue is        *)
(* drained before walQueue is closed, walQueue before the last flush       *)
(* (internal/export/export.go, internal/export/wal.go).                    *)
THEOREM CloseFlushesAlways == TSpec => []CloseFlushes
<1>1. TInd /\ LogInd /\ CloseInd => CloseFlushes
    <2> SUFFICES ASSUME TInd, LogInd, CloseInd, stage = "closed", budget["faults"] = MaxFaults,
                        NEW i \in DOMAIN accepted,
                        NEW lines, lines = Range(Lines(disk))
                 PROVE  \/ accepted[i] \in lines
                        \/ lines # {} /\ \A n \in lines : accepted[i] < n
        BY Zenon DEF CloseFlushes
    <2>1. walQueue = <<>> /\ wal.buf = <<>> /\ Held(accepted[i], walQueue, InLog(disk, wal))
        BY Zenon DEF CloseInd, StageInd, KeptInd
    <2>2. PICK a, b, c : LogFlow(a, b, c)
        BY Zenon DEF LogInd
    <2>3. \A n \in DOMAIN disk : \A j \in DOMAIN disk[n].lines : disk[n].lines[j] \in Nat
        <3>1. Sighted
            BY Zenon DEF CloseInd, BudgetInd, Sighted
        <3> QED
            BY <2>2, <3>1 DEF LogFlow, Files
    <2>4. ASSUME NEW v \in lines PROVE v \in OnDisk(disk)
        <3>1. PICK x \in Places(disk) : v = disk[x[1]].lines[x[2]]
            BY PlaceIs DEF Range
        <3>2. x[1] \in DOMAIN disk /\ x[2] \in DOMAIN disk[x[1]].lines
            BY PlaceIs, Zenon
        <3> QED
            BY <2>3, <3>1, <3>2, Zenon DEF OnDisk
    <2>5. ASSUME NEW v \in OnDisk(disk) PROVE v \in lines
        <3>1. PICK n \in DOMAIN disk : \E j \in DOMAIN disk[n].lines : v = disk[n].lines[j]
            BY Zenon DEF OnDisk
        <3>2. PICK j \in DOMAIN disk[n].lines : v = disk[n].lines[j]
            BY <3>1, Zenon
        <3>3. PICK x : x = <<n, j>>
            BY Zenon
        <3>4. x \in Places(disk) /\ x[1] = n /\ x[2] = j
            BY <3>1, <3>2, <3>3, PlaceIs, Zenon
        <3>5. x \in DOMAIN Lines(disk) /\ Lines(disk)[x] = v
            BY <3>2, <3>4, PlaceIs, Zenon
        <3> QED
            BY <3>5, Zenon DEF Range
    <2>6. InLog(disk, wal) = lines
        <3>1. Range(wal.buf) = {}
            BY <2>1 DEF Range
        <3>2. InLog(disk, wal) = OnDisk(disk)
            BY <3>1, Zenon DEF InLog
        <3>3. OnDisk(disk) = lines
            BY <2>4, <2>5, Zenon
        <3> QED
            BY <3>2, <3>3, Zenon
    <2> QED
        BY <2>1, <2>6 DEF Held, Range
<1> QED
    BY <1>1, CloseIndAlways, PTL
===============================================================================
