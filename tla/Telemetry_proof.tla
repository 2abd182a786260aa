---------------------------- MODULE Telemetry_proof ----------------------------
(***************************************************************************)
(* The write-ahead log over any number of events, crashes, restarts,       *)
(* rotations, failed writes and failed opens: no line is spliced onto a    *)
(* piece of another, the number of segments is bounded, and the events     *)
(* keep their order on the way to the files.                               *)
(***************************************************************************)
EXTENDS Telemetry, FiniteSetTheorems, TLAPS

Buffers == Seq(Nat)
Numbers == Nat
Writers == [seq : Numbers, buf : Buffers, written : Numbers, failed : BOOLEAN]

\* What is on its way to the log are events.
QueueTypes == emitted \in Nat /\ queue \in Buffers /\ walQueue \in Buffers

\* No file has a number the writer has not reached.
Behind(d, w) == DOMAIN d \subseteq 1..w.seq

\* A piece of a line at the end of the open segment has its rest in the buffer.
Spliceless(d, w) == EndsTorn(d, w) => (w.failed \/ w.buf # <<>>)

\* The files have numbers up to some bound, and hold lines.
Typed(d) ==
    /\ \E b \in Nat : DOMAIN d \subseteq 1..b
    /\ \A n \in DOMAIN d : d[n].lines \in Buffers

\* Some of the files of d.
Some(g, d) == DOMAIN g \subseteq DOMAIN d /\ \A n \in DOMAIN g : g[n] = d[n]

TInd ==
    /\ QueueTypes
    /\ wal \in Writers /\ opened \in Nat /\ Typed(disk)
    /\ Sighted => Behind(disk, wal)
    /\ Sighted /\ Up => Spliceless(disk, wal)
    /\ SegmentsBounded
-----------------------------------------------------------------------------
(* A bounded set of numbers has a last one, so maxExistingSeq finds it.    *)
LEMMA LastExists ==
    ASSUME NEW S \in SUBSET Nat, NEW b \in Nat, \A s \in S : s <= b, S # {}
    PROVE  \E n \in S : \A m \in S : m <= n
<1> DEFINE T == {b - s : s \in S}
<1>1. T \subseteq Nat /\ T # {}
    <2>1. PICK s \in S : TRUE
        BY Zenon
    <2>2. b - s \in T
        BY <2>1, Zenon
    <2>3. ASSUME NEW y \in T PROVE y \in Nat
        <3>1. PICK r \in S : y = b - r
            BY Zenon
        <3> QED
            BY <3>1
    <2> QED
        BY <2>2, <2>3, Zenon
<1>2. PICK x \in T : \A y \in T : ~(<<y, x>> \in OpToRel(<, Nat))
    BY Zenon, <1>1, NatLessThanWellFounded, WFMin
<1>3. \A y \in T : ~(y < x)
    BY <1>1, <1>2, Zenon DEF OpToRel
<1>4. PICK n \in S : x = b - n
    BY Zenon
<1>5. \A m \in S : ~(b - m < b - n)
    BY Zenon, <1>3, <1>4
<1> QED
    BY <1>5

(* The next number is above that of every file.                            *)
LEMMA NextIsNew ==
    ASSUME NEW d, NEW b \in Nat, DOMAIN d \subseteq 1..b
    PROVE  NextSeq(d) \in Nat \ {0} /\ \A n \in DOMAIN d : n < NextSeq(d)
<1>1. CASE DOMAIN d = {}
    BY <1>1 DEF NextSeq, maxExistingSeq
<1>2. CASE DOMAIN d # {}
    <2> DEFINE D == DOMAIN d
    <2>1. D \in SUBSET Nat /\ (\A s \in D : s <= b) /\ D # {}
        BY <1>2
    <2> HIDE DEF D
    <2>2. \E n \in D : \A m \in D : m <= n
        BY Zenon, <2>1, LastExists
    <2>3. maxExistingSeq(d) \in D /\ \A m \in D : m <= maxExistingSeq(d)
        BY <2>1, <2>2, Zenon DEF maxExistingSeq, D
    <2> QED
        BY <2>1, <2>3 DEF NextSeq, D
<1> QED
    BY <1>1, <1>2, Zenon

(* pruneLocked keeps at most walMaxSegments files: the number of newer     *)
(* files tells any two files apart.                                        *)
LEMMA PruneBounds ==
    ASSUME NEW d, NEW b \in Nat, DOMAIN d \subseteq 1..b
    PROVE  /\ DOMAIN pruneLocked(d) \subseteq DOMAIN d
           /\ \A n \in DOMAIN pruneLocked(d) : pruneLocked(d)[n] = d[n]
           /\ Cardinality(DOMAIN pruneLocked(d)) <= MaxSegments
<1> DEFINE D == DOMAIN d
           newer(n) == {m \in D : m > n}
           P == {n \in D : Cardinality(newer(n)) < MaxSegments}
           f == [n \in P |-> Cardinality(newer(n))]
<1>1. MaxSegments \in Nat \ {0}
    BY TelemetryAssumption, Zenon
<1>2. pruneLocked(d) = [n \in P |-> d[n]]
    BY Zenon DEF pruneLocked
<1>3. D \subseteq Nat /\ IsFiniteSet(D)
    <2>1. IsFiniteSet(1..b)
        BY FS_Interval
    <2> QED
        BY <2>1, FS_Subset
<1>4. \A n \in D : newer(n) \in SUBSET D
    BY Zenon
<1>5. \A n \in D : IsFiniteSet(newer(n)) /\ Cardinality(newer(n)) \in Nat
    <2> TAKE n \in D
    <2> HIDE DEF D, newer
    <2> QED
        BY <1>3, <1>4, FS_Subset, FS_CardinalityType, Zenon
<1>6. \A m, n \in D : m < n => Cardinality(newer(m)) # Cardinality(newer(n))
    <2> SUFFICES ASSUME NEW m \in D, NEW n \in D, m < n
                 PROVE  Cardinality(newer(m)) # Cardinality(newer(n))
        BY Zenon
    <2>1. newer(n) \in SUBSET newer(m)
        BY <1>3
    <2>2. n \in newer(m) /\ n \notin newer(n)
        BY <1>3
    <2>3. newer(m) # newer(n)
        BY <2>2, Zenon
    <2> HIDE DEF newer
    <2> QED
        BY <2>1, <2>3, <1>5, FS_Subset, Zenon
<1>7. f \in Injection(P, 0..(MaxSegments - 1))
    <2>1. f \in [P -> 0..(MaxSegments - 1)]
        <3> SUFFICES ASSUME NEW n \in P PROVE Cardinality(newer(n)) \in 0..(MaxSegments - 1)
            BY Zenon
        <3>1. n \in D /\ Cardinality(newer(n)) < MaxSegments
            BY Zenon
        <3> HIDE DEF newer, D
        <3> QED
            BY <3>1, <1>1, <1>5
    <2>2. \A m, n \in P : f[m] = f[n] => m = n
        <3> SUFFICES ASSUME NEW m \in P, NEW n \in P, m # n PROVE f[m] # f[n]
            BY Zenon
        <3>1. m \in D /\ n \in D /\ f[m] = Cardinality(newer(m)) /\ f[n] = Cardinality(newer(n))
            BY Zenon
        <3>2. m < n \/ n < m
            BY <3>1, <1>3
        <3> HIDE DEF newer, D, f
        <3> QED
            BY <3>1, <3>2, <1>6, Zenon
    <2> QED
        BY <2>1, <2>2, Zenon DEF Injection, IsInjective
<1>8. Cardinality(P) <= MaxSegments
    <2>1. IsFiniteSet(0..(MaxSegments - 1)) /\ Cardinality(0..(MaxSegments - 1)) = MaxSegments
        BY <1>1, FS_Interval
    <2> HIDE DEF f, P
    <2> QED
        BY <2>1, <1>7, FS_Injection
<1> QED
    BY <1>2, <1>8, Zenon
-----------------------------------------------------------------------------
(* A line that bufio takes.                                                *)
LEMMA TookSound ==
    ASSUME NEW w \in Writers, NEW b \in Buffers
    PROVE  Took(w, b) \in Writers /\ Took(w, b).seq = w.seq /\ Took(w, b).buf = b
<1>1. w.written + 1 \in Numbers
    <2>1. w.written \in Numbers
        BY Zenon DEF Writers
    <2> QED
        BY <2>1 DEF Numbers
<1> DEFINE n == w.written + 1
<1>2. Took(w, b) = [w EXCEPT !.buf = b, !.written = n]
    BY Zenon DEF Took
<1> HIDE DEF n
<1> QED
    BY <1>1, <1>2, Zenon DEF Writers, n

(* Some files of typed files are typed.                                    *)
LEMMA SomeTyped ==
    ASSUME NEW d, NEW g, Typed(d), Some(g, d)
    PROVE  Typed(g)
BY Zenon DEF Typed, Some

(* Any number of the buffered lines may be written.                        *)
LEMMA WroteTyped ==
    ASSUME NEW d, NEW w \in Writers, Typed(d), NEW k \in 0..Len(w.buf), NEW torn
    PROVE  Typed(Wrote(d, w, k, torn)) /\ DOMAIN Wrote(d, w, k, torn) = DOMAIN d
<1> DEFINE p == SubSeq(w.buf, 1, k)
<1>1. p \in Buffers
    <2>1. w.buf \in Seq(Nat)
        BY Zenon DEF Writers, Buffers
    <2> QED
        BY <2>1 DEF Buffers
<1>2. /\ DOMAIN Wrote(d, w, k, torn) = DOMAIN d
      /\ \A n \in DOMAIN d : Wrote(d, w, k, torn)[n].lines =
            IF n = w.seq THEN d[n].lines \o p ELSE d[n].lines
    BY Zenon DEF Wrote
<1> HIDE DEF p
<1>3. \A l \in Buffers : l \o p \in Buffers
    BY <1>1 DEF Buffers
<1> QED
    BY <1>2, <1>3, Zenon DEF Typed

(* Unless the file ends in a piece that the buffer does not continue, the  *)
(* line is the event's.                                                    *)
LEMMA LineIs ==
    ASSUME NEW d, NEW w, NEW e
    PROVE  /\ e \in Nat => Line(d, w, e) \in Nat
           /\ Spliceless(d, w) /\ ~w.failed => Line(d, w, e) = e
BY DEF Line, Spliceless

(* One write of the log, to any files d with any writer w on them: the     *)
(* files keep their numbers, the writer its segment, and a piece of a line *)
(* has its rest in the buffer.                                             *)
LEMMA WriteSound ==
    ASSUME NEW d, NEW w \in Writers, NEW e \in Nat, Typed(d),
           Write(d, w, e) \/ WriteFault(d, w)
    PROVE  /\ wal' \in Writers /\ wal'.seq = w.seq
           /\ DOMAIN disk' = DOMAIN d /\ Typed(disk')
           /\ Spliceless(d, w) => Spliceless(disk', wal')
<1>0. PICK l \in Nat : l = Line(d, w, e)
    BY LineIs, Zenon
<1>1. \A k \in 0..Len(w.buf) : \A torn : DOMAIN Wrote(d, w, k, torn) = DOMAIN d /\ Typed(Wrote(d, w, k, torn))
    BY WroteTyped, Zenon
<1>6. Len(w.buf) \in 0..Len(w.buf)
    <2>1. w.buf \in Seq(Nat)
        BY Zenon DEF Writers, Buffers
    <2> QED
        BY <2>1
<1>2. CASE w.failed /\ disk' = d /\ wal' = w
    BY <1>2, Zenon DEF Spliceless, EndsTorn
<1>3. CASE ~w.failed /\ disk' = d /\ wal' = Took(w, Append(w.buf, l))
    <2>0. PICK q \in Seq(Nat) : q = w.buf
        BY Zenon DEF Writers, Buffers
    <2>1. Append(q, l) \in Buffers /\ Append(q, l) # <<>>
        BY DEF Buffers
    <2> QED
        BY <1>3, <2>0, <2>1, TookSound, Zenon DEF Spliceless
<1>4. CASE /\ ~w.failed /\ \E torn \in BOOLEAN : disk' = Wrote(d, w, Len(w.buf), torn)
           /\ wal' = Took(w, <<l>>)
    <2>1. <<l>> \in Buffers /\ <<l>> # <<>>
        BY DEF Buffers
    <2>2. DOMAIN disk' = DOMAIN d /\ Typed(disk')
        BY <1>1, <1>4, <1>6, Zenon
    <2> QED
        BY <1>4, <2>1, <2>2, TookSound, Zenon DEF Spliceless
<1>5. CASE WriteFault(d, w)
    <2>1. Failed(w) \in Writers /\ Failed(w).seq = w.seq /\ Failed(w).failed
        <3>1. <<>> \in Buffers
            BY DEF Buffers
        <3> QED
            BY <3>1, Zenon DEF Failed, Writers
    <2>2. \E k \in 0..Len(w.buf) : \E torn : disk' = Wrote(d, w, k, torn)
        BY <1>5 DEF WriteFault, Remains
    <2>3. DOMAIN disk' = DOMAIN d /\ Typed(disk')
        BY <1>1, <2>2, Zenon
    <2> QED
        BY <1>5, <2>1, <2>3, Zenon DEF WriteFault, Spliceless
<1> QED
    BY <1>0, <1>2, <1>3, <1>4, <1>5, Zenon DEF Write

(* Flushing the buffer leaves the files' numbers and no piece of a line.   *)
LEMMA FlushSound ==
    ASSUME wal \in Writers, Typed(disk)
    PROVE  /\ DOMAIN Flush(disk) = DOMAIN disk /\ Typed(Flush(disk))
           /\ \A d \in FlushFault : DOMAIN d = DOMAIN disk /\ Typed(d)
           /\ Spliceless(disk, wal) => Spliceless(Flush(disk), [wal EXCEPT !.buf = <<>>])
<1>0. wal.buf \in Seq(Nat) /\ Len(wal.buf) \in 0..Len(wal.buf)
      /\ \A k \in 0..Len(wal.buf) - 1 : k \in 0..Len(wal.buf)
    <2>1. wal.buf \in Seq(Nat)
        BY Zenon DEF Writers, Buffers
    <2> QED
        BY <2>1
<1>1. \A k \in 0..Len(wal.buf) : \A torn :
         DOMAIN Wrote(disk, wal, k, torn) = DOMAIN disk /\ Typed(Wrote(disk, wal, k, torn))
    BY WroteTyped, Zenon
<1>2. \A d \in FlushFault : DOMAIN d = DOMAIN disk /\ Typed(d)
    <2> SUFFICES ASSUME NEW d \in FlushFault PROVE DOMAIN d = DOMAIN disk /\ Typed(d)
        BY Zenon
    <2>0. d \in Remains(disk, wal, Len(wal.buf) - 1)
        BY Zenon DEF FlushFault
    <2>1. \E k \in 0..Len(wal.buf) - 1 : \E torn : d = Wrote(disk, wal, k, torn)
        BY <2>0 DEF Remains
    <2> QED
        BY <1>0, <1>1, <2>1, Zenon
<1>3. [wal EXCEPT !.buf = <<>>].seq = wal.seq /\ [wal EXCEPT !.buf = <<>>].failed = wal.failed
    BY Zenon DEF Writers
<1>4. CASE wal.failed \/ wal.buf = <<>>
    BY <1>2, <1>3, <1>4, Zenon DEF Flush, Spliceless, EndsTorn
<1>5. CASE ~(wal.failed \/ wal.buf = <<>>)
    <2>1. Flush(disk) = Wrote(disk, wal, Len(wal.buf), FALSE)
        BY <1>5, Zenon DEF Flush
    <2>2. wal.seq \in DOMAIN disk => Flush(disk)[wal.seq].torn = FALSE
        BY <2>1 DEF Wrote
    <2> QED
        BY <1>0, <1>1, <1>2, <1>3, <2>1, <2>2, Zenon DEF Spliceless, EndsTorn
<1> QED
    BY <1>4, <1>5, Zenon

(* openLocked: at most one file more; a new file is empty.                 *)
LEMMA OpenFile ==
    ASSUME NEW d, Typed(d), NEW n \in Nat \ {0}
    PROVE  /\ openLocked(d, n) \in Writers /\ openLocked(d, n).seq = n /\ openLocked(d, n).buf = <<>>
           /\ DOMAIN WithFile(d, n) = DOMAIN d \cup {n}
           /\ \A m \in DOMAIN d : WithFile(d, n)[m] = d[m]
           /\ n \notin DOMAIN d => WithFile(d, n)[n] = NewSegment
           /\ Typed(WithFile(d, n))
           /\ IsFiniteSet(DOMAIN d) /\ Cardinality(DOMAIN d) \in Nat
           /\ IsFiniteSet(DOMAIN d \cup {n}) /\ Cardinality(DOMAIN d \cup {n}) \in Nat
           /\ Cardinality(DOMAIN d \cup {n}) <= Cardinality(DOMAIN d) + 1
<1>1. <<>> \in Buffers
    BY DEF Buffers
<1>2. PICK k \in Nat : k = IF n \in DOMAIN d THEN Len(d[n].lines) ELSE 0
    <2>1. \A l \in Buffers : Len(l) \in Nat
        BY DEF Buffers
    <2> QED
        BY <2>1, Zenon DEF Typed
<1>3. openLocked(d, n) = [WriterAt(n) EXCEPT !.written = k]
    BY <1>2, Zenon DEF openLocked
<1>4. openLocked(d, n) \in Writers /\ openLocked(d, n).seq = n /\ openLocked(d, n).buf = <<>>
    BY <1>1, <1>3, Zenon DEF WriterAt, Writers, Numbers
<1>5. /\ DOMAIN WithFile(d, n) = DOMAIN d \cup {n}
      /\ \A m \in DOMAIN d : WithFile(d, n)[m] = d[m]
      /\ n \notin DOMAIN d => WithFile(d, n)[n] = NewSegment
    BY Zenon DEF WithFile
<1>6. PICK b \in Nat : DOMAIN d \subseteq 1..b
    BY Zenon DEF Typed
<1>7. DOMAIN d \cup {n} \subseteq 1..(b + n) /\ b + n \in Nat
    BY <1>6
<1>8. NewSegment.lines \in Buffers
    BY <1>1, Zenon DEF NewSegment
<1>9. Typed(WithFile(d, n))
    BY <1>5, <1>7, <1>8, Zenon DEF Typed
<1>10. IsFiniteSet(DOMAIN d) /\ Cardinality(DOMAIN d) \in Nat
    <2>1. IsFiniteSet(1..b)
        BY FS_Interval
    <2> QED
        BY <1>6, <2>1, FS_Subset, FS_CardinalityType, Zenon
<1>11. /\ IsFiniteSet(DOMAIN d \cup {n})
       /\ \/ Cardinality(DOMAIN d \cup {n}) = Cardinality(DOMAIN d)
          \/ Cardinality(DOMAIN d \cup {n}) = Cardinality(DOMAIN d) + 1
    BY <1>10, FS_AddElement, Zenon
<1> QED
    BY <1>4, <1>5, <1>9, <1>10, <1>11

(* A rotation's files, pruned or not: what is left of them, and how many.  *)
LEMMA PruneSound ==
    ASSUME NEW d, Typed(d)
    PROVE  /\ Some(pruneLocked(d), d) /\ Cardinality(DOMAIN pruneLocked(d)) <= MaxSegments
           /\ \A g \in PruneFails(d) : Some(g, d)
<1>1. PICK b \in Nat : DOMAIN d \subseteq 1..b
    BY Zenon DEF Typed
<1>2. Some(pruneLocked(d), d) /\ Cardinality(DOMAIN pruneLocked(d)) <= MaxSegments
    BY <1>1, PruneBounds, Zenon DEF Some
<1>3. ASSUME NEW g \in PruneFails(d) PROVE Some(g, d)
    <2>1. PICK left \in SUBSET (DOMAIN d \ DOMAIN pruneLocked(d)) :
             g = [n \in DOMAIN pruneLocked(d) \cup left |-> d[n]]
        BY Zenon DEF PruneFails
    <2>2. DOMAIN pruneLocked(d) \cup left \subseteq DOMAIN d
        BY <1>2, Zenon DEF Some
    <2> QED
        BY <2>1, <2>2, Zenon DEF Some
<1> QED
    BY <1>2, <1>3, Zenon

(* The files and the writer of a rotation, whatever pruneLocked removes.   *)
LEMMA OpenSound ==
    ASSUME wal \in Writers, NEW d, Typed(d), NEW g, Some(g, WithFile(d, wal.seq + 1))
    PROVE  /\ openLocked(d, wal.seq + 1) \in Writers /\ openLocked(d, wal.seq + 1).seq = wal.seq + 1
           /\ openLocked(d, wal.seq + 1).buf = <<>>
           /\ Typed(g)
           /\ Cardinality(DOMAIN g) <= Cardinality(DOMAIN d) + 1
           /\ DOMAIN d \subseteq 1..wal.seq => /\ DOMAIN g \subseteq 1..(wal.seq + 1)
                                               /\ Spliceless(g, openLocked(d, wal.seq + 1))
<1> DEFINE n == wal.seq + 1
<1>1. wal.seq \in Nat /\ n \in Nat \ {0}
    <2>1. wal.seq \in Nat
        BY Zenon DEF Writers, Numbers
    <2> QED
        BY <2>1
<1>2. DOMAIN d \subseteq 1..wal.seq => n \notin DOMAIN d /\ DOMAIN d \cup {n} \subseteq 1..n
    BY <1>1
<1> HIDE DEF n
<1>3. /\ openLocked(d, n) \in Writers /\ openLocked(d, n).seq = n /\ openLocked(d, n).buf = <<>>
      /\ DOMAIN WithFile(d, n) = DOMAIN d \cup {n}
      /\ n \notin DOMAIN d => WithFile(d, n)[n] = NewSegment
      /\ Typed(WithFile(d, n))
      /\ IsFiniteSet(DOMAIN d \cup {n}) /\ Cardinality(DOMAIN d \cup {n}) \in Nat /\ Cardinality(DOMAIN d) \in Nat
      /\ Cardinality(DOMAIN d \cup {n}) <= Cardinality(DOMAIN d) + 1
    BY <1>1, OpenFile, Zenon
<1>4. Some(g, WithFile(d, n))
    BY Zenon DEF n
<1>5. Typed(g) /\ DOMAIN g \subseteq DOMAIN d \cup {n}
    BY <1>3, <1>4, SomeTyped, Zenon DEF Some
<1>6. Cardinality(DOMAIN g) <= Cardinality(DOMAIN d \cup {n}) /\ Cardinality(DOMAIN g) \in Nat
    BY <1>3, <1>5, FS_Subset, FS_CardinalityType, Zenon
<1>7. ASSUME DOMAIN d \subseteq 1..wal.seq PROVE DOMAIN g \subseteq 1..n /\ Spliceless(g, openLocked(d, n))
    <2>1. n \in DOMAIN g => g[n] = NewSegment
        BY <1>2, <1>3, <1>4, <1>7, Zenon DEF Some
    <2>2. n \in DOMAIN g => g[n].torn = FALSE
        BY <2>1 DEF NewSegment
    <2> QED
        BY <1>2, <1>3, <1>5, <1>7, <2>2, Zenon DEF Spliceless, EndsTorn
<1>8. Cardinality(DOMAIN g) <= Cardinality(DOMAIN d) + 1
    BY <1>3, <1>6
<1> QED
    BY <1>3, <1>5, <1>7, <1>8, Zenon DEF n
-----------------------------------------------------------------------------
(* Of a step that touches neither the files nor the writer only the queues *)
(* are left to look at.                                                    *)
LEMMA LogKept ==
    ASSUME TInd, UNCHANGED walVars, Up' => Up, QueueTypes'
    PROVE  TInd'
BY Zenon DEF TInd, walVars, Behind, Spliceless, EndsTorn, Typed, Sighted, SegmentsBounded

(* The log starts with one empty segment.                                  *)
LEMMA TIndInit == TInit => TInd
<1> SUFFICES ASSUME TInit PROVE TInd
    BY Zenon
<1>1. <<>> \in Buffers
    BY DEF Buffers
<1>2. QueueTypes
    BY <1>1, Zenon DEF TInit, QueueTypes
<1>3. wal \in Writers /\ wal.seq = 1 /\ opened = 1
    BY <1>1, Zenon DEF TInit, WriterAt, Writers, Numbers
<1>4. DOMAIN disk = {1} /\ disk[1] = NewSegment
    BY Zenon DEF TInit
<1>6. disk[1].torn = FALSE /\ disk[1].lines \in Buffers
    BY <1>1, <1>4 DEF NewSegment
<1>7. Typed(disk)
    <2>1. {1} \subseteq 1..1
        OBVIOUS
    <2> QED
        BY <1>4, <1>6, <2>1, Zenon DEF Typed
<1>8. Behind(disk, wal) /\ Spliceless(disk, wal)
    BY <1>3, <1>4, <1>6 DEF Behind, Spliceless, EndsTorn
<1>5. SegmentsBounded
    <2>1. Cardinality({1}) = 1 /\ MaxSegments \in Nat \ {0}
        BY FS_Singleton, TelemetryAssumption, Zenon
    <2> QED
        BY <2>1, <1>3, <1>4 DEF SegmentsBounded
<1> QED
    BY <1>2, <1>3, <1>5, <1>7, <1>8, Zenon DEF TInd

(* walLoop: an append, with or without a rotation before it.               *)
LEMMA WalLoopKeeps == TInd /\ walLoop => TInd'
<1> SUFFICES ASSUME TInd, walLoop PROVE TInd'
    BY Zenon
<1> DEFINE e == Head(walQueue)
<1>1. /\ wal \in Writers /\ Typed(disk) /\ SegmentsBounded /\ opened \in Nat
      /\ Sighted => Behind(disk, wal) /\ Spliceless(disk, wal)
    BY Zenon DEF TInd, walLoop
<1>2. e \in Nat /\ QueueTypes'
    BY DEF TInd, QueueTypes, walLoop, Buffers
<1>3. MaxSegments \in Nat
    BY TelemetryAssumption, Zenon
<1>4. wal.seq \in Nat
    BY <1>1, Zenon DEF Writers, Numbers
<1> DEFINE Goal == /\ wal' \in Writers /\ opened' \in Nat /\ Typed(disk')
                   /\ Sighted' => Behind(disk', wal') /\ Spliceless(disk', wal')
                   /\ Cardinality(DOMAIN disk') <= MaxSegments + opened'
<1> SUFFICES Goal
    BY <1>2, Zenon DEF TInd, Behind, Spliceless, EndsTorn, Typed, SegmentsBounded
<1> HIDE DEF e
<1>5. CASE AppendLine(e)
    <2>1. Write(disk, wal, e) \/ WriteFault(disk, wal)
        BY <1>5, Zenon DEF AppendLine
    <2>2. /\ wal' \in Writers /\ wal'.seq = wal.seq /\ DOMAIN disk' = DOMAIN disk /\ Typed(disk')
          /\ Spliceless(disk, wal) => Spliceless(disk', wal')
        BY <2>1, <1>1, <1>2, WriteSound, Zenon
    <2>3. opened' = opened /\ Sighted' = Sighted
        BY <1>5, Zenon DEF AppendLine, Sighted
    <2> QED
        BY <1>1, <2>2, <2>3, Zenon DEF Behind, SegmentsBounded
<1>6. CASE RotateAndAppend(e)
    <2>1. /\ DOMAIN Flush(disk) = DOMAIN disk /\ Typed(Flush(disk))
          /\ \A d \in FlushFault : DOMAIN d = DOMAIN disk /\ Typed(d)
        BY <1>1, FlushSound, Zenon
    <2>2. ASSUME NEW d, DOMAIN d = DOMAIN disk, Typed(d),
                 NEW g, Some(g, WithFile(d, wal.seq + 1)),
                 \/ opened' = 0 /\ Cardinality(DOMAIN g) <= MaxSegments
                 \/ opened' = opened + 1,
                 Sighted' => Sighted,
                 Write(g, openLocked(d, wal.seq + 1), e) \/ WriteFault(g, openLocked(d, wal.seq + 1))
          PROVE  Goal
        <3> DEFINE w == openLocked(d, wal.seq + 1)
        <3>1. /\ w \in Writers /\ w.seq = wal.seq + 1 /\ Typed(g)
              /\ Cardinality(DOMAIN g) <= Cardinality(DOMAIN disk) + 1
              /\ DOMAIN disk \subseteq 1..wal.seq => DOMAIN g \subseteq 1..(wal.seq + 1) /\ Spliceless(g, w)
            BY <1>1, <2>2, OpenSound, Zenon
        <3> HIDE DEF w
        <3>2. /\ wal' \in Writers /\ wal'.seq = w.seq /\ DOMAIN disk' = DOMAIN g /\ Typed(disk')
              /\ Spliceless(g, w) => Spliceless(disk', wal')
            BY <1>2, <2>2, <3>1, WriteSound, Zenon DEF w
        <3>3. Sighted' => Behind(disk', wal') /\ Spliceless(disk', wal')
            BY <1>1, <2>2, <3>1, <3>2, Zenon DEF Behind
        <3>4. IsFiniteSet(DOMAIN disk) /\ Cardinality(DOMAIN disk) \in Nat /\ Cardinality(DOMAIN g) \in Nat
            BY <1>1, <3>1, OpenFile, 1 \in Nat \ {0}
        <3>5. opened' \in Nat /\ Cardinality(DOMAIN disk') <= MaxSegments + opened'
            BY <1>1, <1>3, <2>2, <3>1, <3>2, <3>4 DEF SegmentsBounded
        <3> QED
            BY <3>2, <3>3, <3>5, Zenon
    <2>3. CASE /\ disk' = Flush(disk) /\ wal' = [wal EXCEPT !.seq = @ + 1, !.buf = <<>>]
               /\ UNCHANGED <<opened, mishap>>
        <3>1. <<>> \in Buffers /\ wal.seq + 1 \in Numbers
            BY <1>4 DEF Buffers, Numbers
        <3>2. wal' \in Writers /\ wal'.seq = wal.seq + 1
            BY <1>1, <2>3, <3>1, Zenon DEF Writers
        <3>3. DOMAIN disk' = DOMAIN disk /\ Typed(disk') /\ opened' = opened /\ Sighted' = Sighted
            BY <2>1, <2>3, Zenon DEF Sighted
        <3>4. ASSUME Sighted PROVE Behind(disk', wal') /\ Spliceless(disk', wal')
            BY <1>1, <1>4, <3>2, <3>3, <3>4 DEF Behind, Spliceless, EndsTorn
        <3> QED
            BY <1>1, <3>2, <3>3, <3>4, Zenon DEF SegmentsBounded
    <2>4. ASSUME NEW d, Typed(d)
          PROVE  Some(Opened(d), WithFile(d, wal.seq + 1)) /\ Cardinality(DOMAIN Opened(d)) <= MaxSegments
                 /\ \A g \in PruneFails(WithFile(d, wal.seq + 1)) : Some(g, WithFile(d, wal.seq + 1))
        <3>1. wal.seq + 1 \in Nat \ {0}
            BY <1>4
        <3>2. Typed(WithFile(d, wal.seq + 1))
            BY <2>4, <3>1, OpenFile, Zenon
        <3> QED
            BY <3>2, PruneSound, Zenon DEF Opened
    <2>5. ASSUME NEW d, d = Flush(disk) \/ d \in FlushFault, opened' = 0, UNCHANGED mishap,
                 Write(Opened(d), openLocked(d, wal.seq + 1), e) \/ WriteFault(Opened(d), openLocked(d, wal.seq + 1))
          PROVE  Goal
        <3>1. DOMAIN d = DOMAIN disk /\ Typed(d) /\ (Sighted' => Sighted)
            BY <2>1, <2>5, Zenon DEF Sighted
        <3> HIDE DEF Goal
        <3> QED
            BY <2>2, <2>4, <2>5, <3>1, Zenon
    <2>6. ASSUME NEW d \in PruneFails(WithFile(Flush(disk), wal.seq + 1)), opened' = opened + 1,
                 mishap' = mishap \/ mishap' = mishap \cup {"stray"},
                 Write(d, openLocked(Flush(disk), wal.seq + 1), e)
          PROVE  Goal
        <3>1. Sighted' => Sighted
            BY <2>6, Zenon DEF Sighted
        <3> HIDE DEF Goal
        <3> QED
            BY <2>1, <2>2, <2>4, <2>6, <3>1, Zenon
    <2> HIDE DEF Goal
    <2> QED
        BY <1>6, <2>3, <2>5, <2>6, Zenon DEF RotateAndAppend
<1> QED
    BY <1>5, <1>6, Zenon DEF walLoop, e

(* Close's flush.                                                          *)
LEMMA WalCloseKeeps == TInd /\ walClose => TInd'
<1> SUFFICES ASSUME TInd, walClose PROVE TInd'
    BY Zenon
<1>1. /\ wal \in Writers /\ Typed(disk) /\ SegmentsBounded /\ opened \in Nat
      /\ Sighted => Behind(disk, wal) /\ Spliceless(disk, wal)
    BY Zenon DEF TInd, walClose, Up
<1>2. QueueTypes' /\ opened' = opened /\ Sighted' = Sighted
    BY Zenon DEF TInd, QueueTypes, walClose, Sighted
<1>3. /\ DOMAIN Flush(disk) = DOMAIN disk /\ Typed(Flush(disk))
      /\ \A d \in FlushFault : DOMAIN d = DOMAIN disk /\ Typed(d)
      /\ Spliceless(disk, wal) => Spliceless(Flush(disk), [wal EXCEPT !.buf = <<>>])
    BY <1>1, FlushSound, Zenon
<1>4. <<>> \in Buffers
    BY DEF Buffers
<1>5. /\ wal' \in Writers /\ wal'.seq = wal.seq /\ DOMAIN disk' = DOMAIN disk /\ Typed(disk')
      /\ Spliceless(disk, wal) => Spliceless(disk', wal')
    <2>1. CASE disk' = Flush(disk) /\ wal' = [wal EXCEPT !.buf = <<>>]
        BY <1>1, <1>3, <1>4, <2>1, Zenon DEF Writers
    <2>2. CASE disk' \in FlushFault /\ wal' = Failed(wal)
        <3>1. wal' \in Writers /\ wal'.seq = wal.seq /\ wal'.failed
            BY <1>1, <1>4, <2>2, Zenon DEF Writers, Failed
        <3> QED
            BY <1>3, <2>2, <3>1, Zenon DEF Spliceless
    <2> QED
        BY <2>1, <2>2, Zenon DEF walClose
<1>6. Sighted' => Behind(disk', wal') /\ Spliceless(disk', wal')
    BY <1>1, <1>2, <1>5, Zenon DEF Behind
<1>7. Cardinality(DOMAIN disk') <= MaxSegments + opened'
    BY <1>1, <1>2, <1>5, Zenon DEF SegmentsBounded
<1> QED
    BY <1>1, <1>2, <1>5, <1>6, <1>7, Zenon DEF TInd, Behind, Spliceless, EndsTorn, Typed, SegmentsBounded

(* A process death leaves the files, and nobody at work on them.           *)
LEMMA DeathKeeps == TInd /\ Died /\ emitted' \in Nat => TInd'
<1> SUFFICES ASSUME TInd, Died, emitted' \in Nat PROVE TInd'
    BY Zenon
<1>1. <<>> \in Buffers
    BY DEF Buffers
<1>2. wal' \in Writers /\ wal'.seq = wal.seq
    BY <1>1, Zenon DEF TInd, Died, WriterAt, Writers, Numbers
<1>3. QueueTypes' /\ ~Up'
    BY <1>1, Zenon DEF Died, QueueTypes, Up
<1>4. disk' = disk /\ opened' = opened /\ Sighted' = Sighted
    BY Zenon DEF Died, Sighted
<1> QED
    BY <1>2, <1>3, <1>4, Zenon DEF TInd, Behind, Typed, SegmentsBounded

(* newWAL opens a segment with a number of its own, or segment 1.          *)
LEMMA RestartKeeps == TInd /\ Restart => TInd'
<1> SUFFICES ASSUME TInd, Restart PROVE TInd'
    BY Zenon
<1>0. wal.seq \in Nat /\ Typed(disk) /\ opened \in Nat /\ SegmentsBounded /\ (Sighted => DOMAIN disk \subseteq 1..wal.seq)
    BY Zenon DEF TInd, Writers, Numbers, Behind
<1>1. PICK b \in Nat : DOMAIN disk \subseteq 1..b
    BY <1>0, Zenon DEF Typed
<1>2. NextSeq(disk) \in Nat \ {0} /\ \A m \in DOMAIN disk : m < NextSeq(disk)
    BY <1>1, NextIsNew, Zenon
<1>3. PICK n \in Nat \ {0} :
         /\ Reopened(n)
         /\ Sighted' => Sighted /\ \A m \in DOMAIN disk : m < n
    <2>1. CASE Reopened(NextSeq(disk)) /\ UNCHANGED mishap
        BY <1>2, <2>1, Zenon DEF Sighted
    <2>2. CASE Reopened(1) /\ mishap' = mishap \cup {"blind"}
        <3>1. ~Sighted' /\ 1 \in Nat \ {0}
            BY <2>2 DEF Sighted
        <3> QED
            BY <2>2, <3>1, Zenon
    <2> QED
        BY <2>1, <2>2, Zenon DEF Restart
<1>4. wal' = openLocked(disk, n) /\ disk' = WithFile(disk, n) /\ opened' = opened + 1
    BY <1>3, Zenon DEF Reopened
<1>5. /\ wal' \in Writers /\ wal'.seq = n /\ DOMAIN disk' = DOMAIN disk \cup {n} /\ Typed(disk')
      /\ n \notin DOMAIN disk => disk'[n] = NewSegment
      /\ Cardinality(DOMAIN disk) \in Nat /\ Cardinality(DOMAIN disk') \in Nat
      /\ Cardinality(DOMAIN disk') <= Cardinality(DOMAIN disk) + 1
    BY <1>0, <1>4, OpenFile, Zenon
<1>6. opened' \in Nat /\ Cardinality(DOMAIN disk') <= MaxSegments + opened'
    BY <1>0, <1>4, <1>5, TelemetryAssumption DEF SegmentsBounded
<1>7. QueueTypes'
    BY Zenon DEF TInd, QueueTypes, Restart
<1>8. ASSUME Sighted' PROVE Behind(disk', wal') /\ Spliceless(disk', wal')
    <2>1. n \notin DOMAIN disk /\ DOMAIN disk \cup {n} \subseteq 1..n
        BY <1>1, <1>3, <1>8
    <2>2. disk'[n].torn = FALSE
        BY <1>5, <2>1 DEF NewSegment
    <2> QED
        BY <1>5, <2>1, <2>2, Zenon DEF Behind, Spliceless, EndsTorn
<1> QED
    BY <1>5, <1>6, <1>7, <1>8, Zenon DEF TInd, Behind, Spliceless, EndsTorn, Typed, SegmentsBounded
-----------------------------------------------------------------------------
(* Every step of the exporter, the forwarder and the aggregator.           *)
LEMMA TIndNext == TInd /\ [TNext]_tvars => TInd'
<1> SUFFICES ASSUME TInd, [TNext]_tvars PROVE TInd'
    BY Zenon
<1>0. QueueTypes
    BY Zenon DEF TInd
<1>1. CASE enqueue
    <2>1. emitted' = emitted + 1 /\ emitted' \in Nat
        BY <1>0, <1>1 DEF enqueue, QueueTypes
    <2>2. CASE Died
        BY <2>1, <2>2, DeathKeeps, Zenon
    <2>3. CASE /\ queue' = Offer(queue, QueueCap, emitted + 1)
               /\ UNCHANGED <<stage, walQueue, walVars>>
        <3>1. queue' \in Buffers
            BY <1>0, <2>1, <2>3 DEF QueueTypes, Offer, Buffers
        <3> QED
            BY <1>0, <2>1, <2>3, <3>1, LogKept, Zenon DEF QueueTypes, Up
    <2> QED
        BY <1>1, <2>2, <2>3, Zenon DEF enqueue
<1>2. CASE fanout
    <2>1. Head(queue) \in Nat /\ queue' \in Buffers
        BY <1>0, <1>2 DEF fanout, QueueTypes, Buffers
    <2>2. walQueue' \in Buffers
        BY <1>0, <1>2, <2>1 DEF fanout, QueueTypes, Offer, Buffers
    <2> QED
        BY <1>0, <1>2, <2>1, <2>2, LogKept, Zenon DEF fanout, QueueTypes, Up
<1>3. CASE walLoop
    BY <1>3, WalLoopKeeps, Zenon
<1>4. CASE Connect \/ Deliver \/ unsubscribe \/ Recent \/ RecentReturns
    BY <1>0, <1>4, LogKept, Zenon DEF Connect, Deliver, unsubscribe, Recent, RecentReturns, QueueTypes, Up
<1>5. CASE CloseStep
    BY <1>0, <1>5, LogKept, Zenon DEF CloseStep, CloseMoves, QueueTypes, Up
<1>6. CASE walClose
    BY <1>6, WalCloseKeeps, Zenon
<1>7. CASE Exit \/ Crash
    BY <1>0, <1>7, DeathKeeps, Zenon DEF Exit, Crash, QueueTypes
<1>8. CASE Restart
    BY <1>8, RestartKeeps, Zenon
<1>9. CASE Gather \/ Tick \/ SendReturns \/ ForwarderStops \/ SetTarget \/ Ingest \/ IngestLost \/ Prune
    <2>1. UNCHANGED exporterKept
        BY <1>9, Zenon DEF Gather, Tick, SendReturns, ForwarderStops, SetTarget, Ingest, IngestLost, Prune
    <2> QED
        BY <1>0, <2>1, LogKept, Zenon DEF exporterKept, exportVars, QueueTypes, Up
<1>10. CASE UNCHANGED tvars
    BY <1>0, <1>10, LogKept, Zenon DEF tvars, exportVars, QueueTypes, Up
<1> QED
    BY <1>1, <1>2, <1>3, <1>4, <1>5, <1>6, <1>7, <1>8, <1>9, <1>10, Zenon DEF TNext

(* TInd holds in every reachable state.                                    *)
THEOREM TIndAlways == TSpec => []TInd
BY TIndInit, TIndNext, PTL DEF TSpec

(* Whatever crashes, restarts, failed writes, opens and prunings there     *)
(* are, the log never appends a line to a piece of another as long as      *)
(* every start could list the directory: newWAL starts above the number of *)
(* every file it finds, and within a run the rest of a line that has begun *)
(* in the file is at the head of bufio's buffer until an error stops the   *)
(* writer for good (internal/export/wal.go:43-71, 107-146).                *)
THEOREM NoSpliceAlways == TSpec => []NoSplice
<1>1. TInd => NoSplice
    BY Zenon DEF TInd, Spliceless, NoSplice
<1> QED
    BY <1>1, TIndAlways, PTL

(* The files never number more than walMaxSegments and the starts since    *)
(* the last rotation, for any number of events (internal/export/wal.go:    *)
(* 134-175).                                                               *)
THEOREM SegmentsBoundedAlways == TSpec => []SegmentsBounded
<1>1. TInd => SegmentsBounded
    BY Zenon DEF TInd
<1> QED
    BY <1>1, TIndAlways, PTL
-----------------------------------------------------------------------------
(* Sequences of numbers that rise from above a to at most b: what a queue  *)
(* holds of the events, in the order in which they were emitted.           *)
Between(s, a, b) ==
    /\ \A i \in DOMAIN s : a < s[i] /\ s[i] <= b
    /\ \A i, j \in DOMAIN s : i < j => s[i] < s[j]

(* An empty queue is between any two numbers.                              *)
LEMMA BetweenEmpty == \A a, b : Between(<<>>, a, b)
BY DEF Between

(* The bounds may be loosened.                                             *)
LEMMA BetweenWiden ==
    ASSUME NEW s \in Seq(Nat), NEW a \in Nat, NEW b \in Nat, NEW c \in Nat, NEW d \in Nat,
           Between(s, a, b), c <= a, b <= d
    PROVE  Between(s, c, d)
<1>1. \A i \in DOMAIN s : s[i] \in Nat
    OBVIOUS
<1> QED
    BY <1>1 DEF Between

(* A later event at the end.                                               *)
LEMMA BetweenAppend ==
    ASSUME NEW s \in Seq(Nat), NEW a \in Nat, NEW b \in Nat, NEW e \in Nat,
           Between(s, a, b), a <= b, b < e
    PROVE  Append(s, e) \in Seq(Nat) /\ Between(Append(s, e), a, e)
<1> DEFINE t == Append(s, e)
<1>1. t \in Seq(Nat) /\ Len(t) = Len(s) + 1 /\ Len(s) \in Nat /\ DOMAIN s = 1..Len(s) /\ DOMAIN t = 1..Len(t)
    OBVIOUS
<1>2. \A i \in DOMAIN t : t[i] = IF i = Len(t) THEN e ELSE s[i]
    OBVIOUS
<1>3. \A i \in DOMAIN s : s[i] \in Nat /\ a < s[i] /\ s[i] <= b
    BY DEF Between
<1>4. \A i, j \in DOMAIN s : i < j => s[i] < s[j]
    BY Zenon DEF Between
<1> HIDE DEF t
<1>5. \A i \in DOMAIN t : (i \in DOMAIN s /\ t[i] = s[i]) \/ (i = Len(t) /\ t[i] = e)
    BY <1>1, <1>2
<1>6. \A i \in DOMAIN t : a < t[i] /\ t[i] <= e
    BY <1>3, <1>5
<1>7. ASSUME NEW i \in DOMAIN t, NEW j \in DOMAIN t, i < j PROVE t[i] < t[j]
    <2>1. i \in DOMAIN s /\ t[i] = s[i]
        BY <1>1, <1>5, <1>7
    <2>2. CASE j \in DOMAIN s /\ t[j] = s[j]
        BY <1>4, <1>7, <2>1, <2>2, Zenon
    <2>3. CASE t[j] = e
        BY <1>3, <2>1, <2>3
    <2> QED
        BY <1>5, <2>2, <2>3, Zenon
<1> QED
    BY <1>1, <1>6, <1>7, Zenon DEF Between, t

(* A queue takes a later event, or drops it.                               *)
LEMMA BetweenOffer ==
    ASSUME NEW s \in Seq(Nat), NEW a \in Nat, NEW b \in Nat, NEW e \in Nat, NEW cap \in Nat,
           Between(s, a, b), a <= b, b < e, Len(s) <= cap
    PROVE  /\ Offer(s, cap, e) \in Seq(Nat) /\ Between(Offer(s, cap, e), a, e)
           /\ Len(Offer(s, cap, e)) <= cap
<1>1. CASE Len(s) < cap
    <2>1. Offer(s, cap, e) = Append(s, e)
        BY <1>1, Zenon DEF Offer
    <2>2. Len(Append(s, e)) <= cap
        BY <1>1
    <2> QED
        BY <2>1, <2>2, BetweenAppend, Zenon
<1>2. CASE ~(Len(s) < cap)
    BY <1>2, BetweenWiden DEF Offer
<1> QED
    BY <1>1, <1>2, Zenon

(* The head leaves, and is a bound of the rest.                            *)
LEMMA BetweenTail ==
    ASSUME NEW s \in Seq(Nat), NEW a \in Nat, NEW b \in Nat, Between(s, a, b), s # <<>>
    PROVE  /\ Head(s) \in Nat /\ a < Head(s) /\ Head(s) <= b
           /\ Tail(s) \in Seq(Nat) /\ Between(Tail(s), Head(s), b) /\ Len(Tail(s)) = Len(s) - 1
<1> DEFINE t == Tail(s)
<1>1. /\ t \in Seq(Nat) /\ Len(t) = Len(s) - 1 /\ Len(s) \in Nat /\ Len(s) > 0
      /\ DOMAIN s = 1..Len(s) /\ DOMAIN t = 1..Len(t) /\ Head(s) = s[1] /\ s[1] \in Nat
    OBVIOUS
<1>2. \A i \in DOMAIN t : t[i] = s[i + 1]
    OBVIOUS
<1>3. \A i \in DOMAIN s : s[i] \in Nat /\ a < s[i] /\ s[i] <= b
    BY DEF Between
<1>4. \A i, j \in DOMAIN s : i < j => s[i] < s[j]
    BY Zenon DEF Between
<1> HIDE DEF t
<1>5. \A i \in DOMAIN t : i + 1 \in DOMAIN s /\ 1 \in DOMAIN s /\ 1 < i + 1
    <2> DEFINE m == Len(s)
    <2>1. m \in Nat /\ m > 0 /\ DOMAIN s = 1..m /\ DOMAIN t = 1..m - 1
        BY <1>1, Zenon
    <2> HIDE DEF m, t
    <2>2. \A i \in 1..m - 1 : i + 1 \in 1..m /\ 1 \in 1..m /\ 1 < i + 1
        BY <2>1
    <2> QED
        BY <2>1, <2>2, Zenon
<1>6. ASSUME NEW i \in DOMAIN t PROVE s[1] < t[i] /\ t[i] <= b
    <2> DEFINE k == i + 1
    <2>1. t[i] = s[k] /\ k \in DOMAIN s /\ 1 \in DOMAIN s /\ 1 < k
        BY <1>2, <1>5, Zenon
    <2> HIDE DEF k
    <2> QED
        BY <1>3, <1>4, <2>1, Zenon
<1>7. ASSUME NEW i \in DOMAIN t, NEW j \in DOMAIN t, i < j PROVE t[i] < t[j]
    <2> DEFINE k == i + 1
               l == j + 1
    <2>1. t[i] = s[k] /\ k \in DOMAIN s /\ t[j] = s[l] /\ l \in DOMAIN s
        BY <1>2, <1>5, Zenon
    <2>2. k < l
        BY <1>1, <1>7
    <2> HIDE DEF k, l
    <2> QED
        BY <1>4, <2>1, <2>2, Zenon
<1>8. 1 \in DOMAIN s
    BY <1>1
<1> QED
    BY <1>1, <1>3, <1>6, <1>7, <1>8, Zenon DEF Between, t

(* The first k.                                                            *)
LEMMA BetweenPrefix ==
    ASSUME NEW s \in Seq(Nat), NEW a \in Nat, NEW b \in Nat, Between(s, a, b), NEW k \in 0..Len(s)
    PROVE  /\ SubSeq(s, 1, k) \in Seq(Nat) /\ Len(SubSeq(s, 1, k)) = k
           /\ Between(SubSeq(s, 1, k), a, b)
           /\ \A i \in 1..k : SubSeq(s, 1, k)[i] = s[i]
<1> DEFINE t == SubSeq(s, 1, k)
<1>1. t \in Seq(Nat) /\ Len(t) = k /\ Len(s) \in Nat /\ DOMAIN s = 1..Len(s) /\ DOMAIN t = 1..k
    OBVIOUS
<1>2. \A i \in 1..k : t[i] = s[i]
    OBVIOUS
<1> HIDE DEF t
<1> QED
    BY <1>1, <1>2 DEF Between, t

(* What lies between a and b, and then what lies between b and c.          *)
LEMMA BetweenConcat ==
    ASSUME NEW s \in Seq(Nat), NEW t \in Seq(Nat), NEW a \in Nat, NEW b \in Nat, NEW c \in Nat,
           Between(s, a, b), Between(t, b, c), a <= b, b <= c
    PROVE  s \o t \in Seq(Nat) /\ Between(s \o t, a, c)
<1> DEFINE u == s \o t
<1>1. /\ u \in Seq(Nat) /\ Len(u) = Len(s) + Len(t) /\ Len(s) \in Nat /\ Len(t) \in Nat
      /\ DOMAIN s = 1..Len(s) /\ DOMAIN t = 1..Len(t) /\ DOMAIN u = 1..Len(u)
    OBVIOUS
<1>2. \A i \in DOMAIN u : u[i] = IF i <= Len(s) THEN s[i] ELSE t[i - Len(s)]
    OBVIOUS
<1>3. \A i \in DOMAIN s : s[i] \in Nat /\ a < s[i] /\ s[i] <= b
    BY DEF Between
<1>4. \A i \in DOMAIN t : t[i] \in Nat /\ b < t[i] /\ t[i] <= c
    BY DEF Between
<1>5. (\A i, j \in DOMAIN s : i < j => s[i] < s[j]) /\ (\A i, j \in DOMAIN t : i < j => t[i] < t[j])
    BY Zenon DEF Between
<1> HIDE DEF u
<1>6. ASSUME NEW i \in DOMAIN u
      PROVE  \/ i <= Len(s) /\ i \in DOMAIN s /\ u[i] = s[i]
             \/ i > Len(s) /\ \E k \in DOMAIN t : k = i - Len(s) /\ u[i] = t[k]
    <2>1. CASE i <= Len(s)
        BY <1>1, <1>2, <2>1
    <2>2. CASE ~(i <= Len(s))
        <3>1. i - Len(s) \in DOMAIN t /\ u[i] = t[i - Len(s)] /\ i > Len(s)
            BY <1>1, <1>2, <2>2
        <3> QED
            BY <3>1, Zenon
    <2> QED
        BY <2>1, <2>2, Zenon
<1>7. ASSUME NEW i \in DOMAIN u PROVE a < u[i] /\ u[i] <= c
    <2>1. CASE i \in DOMAIN s /\ u[i] = s[i]
        BY <1>3, <2>1
    <2>2. ASSUME NEW k \in DOMAIN t, u[i] = t[k] PROVE a < u[i] /\ u[i] <= c
        BY <1>4, <2>2
    <2> QED
        BY <1>6, <2>1, <2>2, Zenon
<1>8. ASSUME NEW i \in DOMAIN u, NEW j \in DOMAIN u, i < j PROVE u[i] < u[j]
    <2>1. CASE i \in DOMAIN s /\ u[i] = s[i] /\ j \in DOMAIN s /\ u[j] = s[j]
        BY <1>5, <1>8, <2>1, Zenon
    <2>2. ASSUME i \in DOMAIN s, u[i] = s[i], NEW k \in DOMAIN t, u[j] = t[k] PROVE u[i] < u[j]
        BY <1>3, <1>4, <2>2
    <2>3. ASSUME NEW k \in DOMAIN t, u[i] = t[k], k = i - Len(s),
                 NEW l \in DOMAIN t, u[j] = t[l], l = j - Len(s)
          PROVE  u[i] < u[j]
        <3>1. k < l
            BY <1>1, <1>8, <2>3
        <3> QED
            BY <1>5, <2>3, <3>1, Zenon
    <2>4. ~(i > Len(s) /\ j <= Len(s))
        BY <1>1, <1>8
    <2> QED
        BY <1>6, <2>1, <2>2, <2>3, <2>4, Zenon
<1> QED
    BY <1>1, <1>7, <1>8, Zenon DEF Between, u
-----------------------------------------------------------------------------
(* The way to the log.                                                     *)

\* The lines of each file rise and are at most a, and those of a file precede
\* those of the next.
Files(d, a) ==
    /\ \A n \in DOMAIN d : d[n].lines \in Seq(Nat) /\ Between(d[n].lines, 0, a)
    /\ \A m, n \in DOMAIN d : m < n =>
          \A i \in DOMAIN d[m].lines, j \in DOMAIN d[n].lines : d[m].lines[i] < d[n].lines[j]

\* What is in the files precedes what is in bufio's buffer, unless a start was
\* blind, that what is on walQueue, and that what is on queue.
LogFlow(a, b, c) ==
    /\ a \in Nat /\ b \in Nat /\ c \in Nat /\ a <= b /\ b <= c /\ c <= emitted
    /\ Sighted => Files(disk, a) /\ Between(wal.buf, a, b)
    /\ Between(walQueue, b, c) /\ Between(queue, c, emitted)

LogInd ==
    /\ \E a, b, c : LogFlow(a, b, c)
    /\ Len(queue) <= QueueCap /\ Len(walQueue) <= QueueCap

(* The lines of the files after a write: the open segment has more.        *)
LEMMA WroteLines ==
    ASSUME NEW d, NEW w \in Writers, NEW k, NEW torn
    PROVE  /\ DOMAIN Wrote(d, w, k, torn) = DOMAIN d
           /\ \A n \in DOMAIN d : Wrote(d, w, k, torn)[n].lines =
                 IF n = w.seq THEN d[n].lines \o SubSeq(w.buf, 1, k) ELSE d[n].lines
BY Zenon DEF Wrote

(* Looser bounds.                                                          *)
LEMMA FilesWiden ==
    ASSUME NEW d, NEW a \in Nat, NEW b \in Nat, Files(d, a), a <= b
    PROVE  Files(d, b)
<1>1. ASSUME NEW n \in DOMAIN d PROVE Between(d[n].lines, 0, b)
    <2> DEFINE s == d[n].lines
    <2>1. s \in Seq(Nat) /\ Between(s, 0, a)
        BY Zenon DEF Files
    <2> HIDE DEF s
    <2>2. Between(s, 0, b)
        BY <2>1, BetweenWiden
    <2> QED
        BY <2>2, Zenon DEF s
<1> QED
    BY <1>1, Zenon DEF Files

(* Any number of the buffered lines may be written: they are above what is *)
(* there, and go to the last file.                                         *)
LEMMA WroteFiles ==
    ASSUME NEW d, NEW w \in Writers, NEW a \in Nat, NEW b \in Nat, a <= b, NEW k \in 0..Len(w.buf), NEW torn,
           Files(d, a), DOMAIN d \subseteq 1..w.seq, Between(w.buf, a, b)
    PROVE  Files(Wrote(d, w, k, torn), b)
<1> DEFINE g == Wrote(d, w, k, torn)
           p == SubSeq(w.buf, 1, k)
           s == w.seq
<1>1. w.buf \in Seq(Nat) /\ s \in Nat
    BY Zenon DEF Writers, Buffers, Numbers
<1>2. p \in Seq(Nat) /\ Between(p, a, b)
    BY <1>1, BetweenPrefix, Zenon
<1>3. /\ DOMAIN g = DOMAIN d
      /\ \A n \in DOMAIN d : g[n].lines = IF n = s THEN d[n].lines \o p ELSE d[n].lines
    BY WroteLines
<1>4. /\ \A n \in DOMAIN d : d[n].lines \in Seq(Nat) /\ Between(d[n].lines, 0, a)
      /\ \A m, n \in DOMAIN d : m < n =>
            \A i \in DOMAIN d[m].lines, j \in DOMAIN d[n].lines : d[m].lines[i] < d[n].lines[j]
    BY Zenon DEF Files
<1>5. \A n \in DOMAIN d : n \in Nat /\ n <= s
    BY <1>1
<1> HIDE DEF g, p, s
<1>6. ASSUME NEW n \in DOMAIN g PROVE g[n].lines \in Seq(Nat) /\ Between(g[n].lines, 0, b)
    <2> DEFINE l == d[n].lines
    <2>1. l \in Seq(Nat) /\ Between(l, 0, a)
        BY <1>3, <1>4, Zenon
    <2>2. g[n].lines = l \o p \/ g[n].lines = l
        BY Zenon, <1>3
    <2> HIDE DEF l
    <2>3. l \o p \in Seq(Nat) /\ Between(l \o p, 0, b) /\ Between(l, 0, b)
        BY <1>2, <2>1, BetweenConcat, BetweenWiden
    <2> QED
        BY Zenon, <2>1, <2>2, <2>3
<1>7. ASSUME NEW m \in DOMAIN g, NEW n \in DOMAIN g, m < n,
             NEW i \in DOMAIN g[m].lines, NEW j \in DOMAIN g[n].lines
      PROVE  g[m].lines[i] < g[n].lines[j]
    <2>1. m \in DOMAIN d /\ n \in DOMAIN d /\ m # s
        BY <1>1, <1>3, <1>5, <1>7
    <2>2. g[m].lines = d[m].lines
        BY <1>3, <2>1, Zenon
    <2> DEFINE x == d[m].lines
               l == d[n].lines
    <2>3. x \in Seq(Nat) /\ l \in Seq(Nat) /\ Between(x, 0, a) /\ i \in DOMAIN x
        BY <1>4, <1>7, <2>1, <2>2, Zenon
    <2>4. x[i] \in Nat /\ x[i] <= a
        BY <2>3 DEF Between
    <2>5. \A jj \in DOMAIN l : x[i] < l[jj]
        BY <1>4, <1>7, <2>1, <2>3, Zenon
    <2>6. CASE n # s
        BY <1>3, <1>7, <2>1, <2>2, <2>5, <2>6, Zenon
    <2>7. CASE n = s
        <3>1. g[n].lines = l \o p
            BY Zenon, <1>3, <2>1, <2>7
        <3> HIDE DEF x, l
        <3>2. j \in 1..Len(l) + Len(p) /\ (l \o p)[j] = IF j <= Len(l) THEN l[j] ELSE p[j - Len(l)]
            BY <1>2, <1>7, <2>3, <3>1
        <3>3. CASE j <= Len(l)
            BY <2>2, <2>3, <2>5, <3>1, <3>2, <3>3 DEF x
        <3>4. CASE ~(j <= Len(l))
            <4> DEFINE q == j - Len(l)
            <4>1. q \in DOMAIN p /\ (l \o p)[j] = p[q]
                BY <1>2, <2>3, <3>2, <3>4
            <4> HIDE DEF q
            <4>2. a < p[q] /\ p[q] \in Nat
                BY <1>2, <4>1 DEF Between
            <4> QED
                BY <2>2, <2>4, <3>1, <4>1, <4>2 DEF x
        <3> QED
            BY <3>3, <3>4, Zenon
    <2> QED
        BY <2>6, <2>7, Zenon
<1> QED
    BY <1>6, <1>7, Zenon DEF Files, g

(* One write of the log: the bounds of files and buffer move up.           *)
LEMMA WriteFlow ==
    ASSUME NEW d, NEW w \in Writers, NEW a \in Nat, NEW b \in Nat, NEW e \in Nat, a <= b, b < e,
           Files(d, a), DOMAIN d \subseteq 1..w.seq, Between(w.buf, a, b), Spliceless(d, w),
           Write(d, w, e) \/ WriteFault(d, w)
    PROVE  \E n \in Nat : n <= e /\ Files(disk', n) /\ Between(wal'.buf, n, e)
<1>0. w.buf \in Seq(Nat)
    BY Zenon DEF Writers, Buffers
<1>1. CASE w.failed /\ disk' = d /\ wal' = w
    <2>1. Between(w.buf, a, e)
        BY <1>0, BetweenWiden
    <2> QED
        BY <1>1, <2>1
<1>2. CASE disk' = d /\ wal' = Took(w, Append(w.buf, e))
    <2>1. Append(w.buf, e) \in Buffers /\ Between(Append(w.buf, e), a, e)
        BY <1>0, BetweenAppend, Zenon DEF Buffers
    <2>2. wal'.buf = Append(w.buf, e)
        BY Zenon, <1>2, <2>1, TookSound
    <2> QED
        BY <1>2, <2>1, <2>2
<1>3. ASSUME NEW torn, disk' = Wrote(d, w, Len(w.buf), torn), wal' = Took(w, <<e>>)
      PROVE  \E n \in Nat : n <= e /\ Files(disk', n) /\ Between(wal'.buf, n, e)
    <2>1. Len(w.buf) \in 0..Len(w.buf)
        BY <1>0
    <2>2. Files(disk', b)
        BY <1>3, <2>1, WroteFiles, Zenon
    <2>3. <<e>> \in Buffers
        BY DEF Buffers
    <2>4. wal'.buf = <<e>>
        BY <1>3, <2>3, TookSound, Zenon
    <2>5. Between(<<e>>, b, e)
        BY DEF Between
    <2> QED
        BY <2>2, <2>4, <2>5
<1>4. CASE WriteFault(d, w)
    <2>1. PICK k \in 0..Len(w.buf), torn \in BOOLEAN : disk' = Wrote(d, w, k, torn)
        BY <1>4, Zenon DEF WriteFault, Remains
    <2>2. Files(disk', b)
        BY <2>1, WroteFiles, Zenon
    <2>3. wal'.buf = <<>>
        BY <1>4, Zenon DEF WriteFault, Failed, Writers
    <2> QED
        BY <2>2, <2>3, BetweenEmpty
<1>5. ~w.failed => Line(d, w, e) = e
    BY LineIs, Zenon
<1> QED
    BY <1>1, <1>2, <1>3, <1>4, <1>5, Zenon DEF Write

(* The flush of rotateLocked and of close.                                 *)
LEMMA FlushFlow ==
    ASSUME wal \in Writers, NEW a \in Nat, NEW b \in Nat, a <= b,
           Files(disk, a), Behind(disk, wal), Between(wal.buf, a, b)
    PROVE  Files(Flush(disk), b) /\ \A d \in FlushFault : Files(d, b)
<1>0. wal.buf \in Seq(Nat)
    BY Zenon DEF Writers, Buffers
<1>1. \A k \in 0..Len(wal.buf) : \A torn : Files(Wrote(disk, wal, k, torn), b)
    BY WroteFiles, Zenon DEF Behind
<1>2. Len(wal.buf) \in 0..Len(wal.buf) /\ \A k \in 0..Len(wal.buf) - 1 : k \in 0..Len(wal.buf)
    BY <1>0
<1>3. Files(Flush(disk), b)
    BY <1>1, <1>2, FilesWiden, Zenon DEF Flush
<1>4. ASSUME NEW d \in FlushFault PROVE Files(d, b)
    <2>1. PICK k \in 0..Len(wal.buf) - 1, torn \in BOOLEAN : d = Wrote(disk, wal, k, torn)
        BY Zenon DEF FlushFault, Remains
    <2> QED
        BY <1>1, <1>2, <2>1, Zenon
<1> QED
    BY <1>3, <1>4, Zenon

(* A new file and the removal of old ones.                                 *)
LEMMA FilesOpened ==
    ASSUME NEW d, NEW n \in Nat \ {0}, NEW b \in Nat, Files(d, b), DOMAIN d \subseteq 1..(n - 1)
    PROVE  /\ Files(WithFile(d, n), b)
           /\ \A g : Some(g, WithFile(d, n)) => Files(g, b)
<1> DEFINE g == WithFile(d, n)
<1>1. /\ DOMAIN g = DOMAIN d \cup {n} /\ \A m \in DOMAIN d : g[m] = d[m]
      /\ n \notin DOMAIN d => g[n].lines = <<>>
    BY Zenon DEF WithFile, NewSegment
<1> HIDE DEF g
<1>2. n \notin DOMAIN d /\ DOMAIN g \subseteq 1..n
    <2> DEFINE D == DOMAIN d
    <2>1. D \subseteq 1..(n - 1) /\ DOMAIN g = D \cup {n}
        BY <1>1, Zenon
    <2> HIDE DEF D
    <2>2. n \notin D /\ D \cup {n} \subseteq 1..n
        BY <2>1
    <2> QED
        BY <2>1, <2>2, Zenon DEF D
<1>3. Files(g, b)
    <2>1. <<>> \in Seq(Nat) /\ Between(<<>>, 0, b)
        BY BetweenEmpty
    <2>2. \A m \in DOMAIN g : g[m].lines \in Seq(Nat) /\ Between(g[m].lines, 0, b)
        BY <1>1, <1>2, <2>1, Zenon DEF Files
    <2>3. ASSUME NEW l \in DOMAIN g, NEW m \in DOMAIN g, l < m,
                 NEW i \in DOMAIN g[l].lines, NEW j \in DOMAIN g[m].lines
          PROVE  g[l].lines[i] < g[m].lines[j]
        <3>1. l # n /\ m # n
            BY <1>1, <1>2, <2>3
        <3> QED
            BY <1>1, <2>3, <3>1, Zenon DEF Files
    <2> QED
        BY <2>2, <2>3, Zenon DEF Files
<1>4. ASSUME NEW h, Some(h, g) PROVE Files(h, b)
    BY <1>3, <1>4, Zenon DEF Files, Some
<1> QED
    BY <1>3, <1>4, Zenon DEF g

(* The segments hold nothing at the start.                                 *)
LEMMA LogInit == TInit => LogInd
<1> SUFFICES ASSUME TInit PROVE LogInd
    BY Zenon
<1>1. /\ emitted = 0 /\ queue = <<>> /\ walQueue = <<>> /\ wal.buf = <<>>
      /\ DOMAIN disk = {1} /\ disk[1].lines = <<>>
    BY Zenon DEF TInit, WriterAt, NewSegment
<1>2. <<>> \in Seq(Nat) /\ Between(<<>>, 0, 0) /\ Len(<<>>) = 0 /\ DOMAIN (<<>>) = {}
    BY BetweenEmpty
<1>3. Files(disk, 0)
    BY <1>1, <1>2, Zenon DEF Files
<1>4. LogFlow(0, 0, 0)
    BY <1>1, <1>2, <1>3 DEF LogFlow
<1> QED
    BY <1>1, <1>2, <1>4, TelemetryAssumption DEF LogInd

(* A step that leaves the queues, the writer and the files alone.          *)
LEMMA LogSame ==
    ASSUME LogInd, UNCHANGED <<emitted, queue, walQueue, disk, wal, mishap>>
    PROVE  LogInd'
<1>1. PICK a, b, c : LogFlow(a, b, c)
    BY Zenon DEF LogInd
<1>2. LogFlow(a, b, c)'
    BY <1>1 DEF LogFlow, Files, Sighted
<1> QED
    BY <1>2, Zenon DEF LogInd

(* A process death: the files are left.                                    *)
LEMMA LogDeath ==
    ASSUME TInd, LogInd, Died, emitted' \in Nat, emitted <= emitted'
    PROVE  LogInd'
<1>1. PICK a, b, c : LogFlow(a, b, c)
    BY Zenon DEF LogInd
<1>2. queue' = <<>> /\ walQueue' = <<>> /\ wal'.buf = <<>> /\ disk' = disk /\ mishap' = mishap
    BY Zenon DEF Died, WriterAt
<1>3. emitted \in Nat
    BY Zenon DEF TInd, QueueTypes
<1>4. LogFlow(a, a, a)'
    BY <1>1, <1>2, <1>3, BetweenEmpty DEF LogFlow, Files, Sighted
<1> QED
    BY <1>2, <1>4, TelemetryAssumption DEF LogInd

(* walLoop.                                                                *)
LEMMA LogWal == TInd /\ LogInd /\ walLoop => LogInd'
<1> SUFFICES ASSUME TInd, LogInd, walLoop PROVE LogInd'
    BY Zenon
<1>1. PICK a, b, c : LogFlow(a, b, c)
    BY Zenon DEF LogInd
<1>2. a \in Nat /\ b \in Nat /\ c \in Nat /\ a <= b /\ b <= c /\ c <= emitted /\ emitted \in Nat
    BY <1>1, Zenon DEF LogFlow, TInd, QueueTypes
<1>3. Between(walQueue, b, c) /\ Between(queue, c, emitted)
    BY <1>1, Zenon DEF LogFlow
<1>4. wal \in Writers /\ Typed(disk) /\ walQueue \in Seq(Nat) /\ walQueue # <<>>
    BY Zenon DEF TInd, QueueTypes, Buffers, walLoop
<1> DEFINE rest == Tail(walQueue)
<1>0. PICK e : e = Head(walQueue)
    BY Zenon
<1>5. e \in Nat /\ b < e /\ e <= c /\ rest \in Seq(Nat) /\ Between(rest, e, c) /\ Len(rest) = Len(walQueue) - 1
    BY <1>0, <1>2, <1>3, <1>4, BetweenTail, Zenon
<1>6. walQueue' = rest /\ UNCHANGED <<emitted, queue>> /\ (AppendLine(e) \/ RotateAndAppend(e))
    BY <1>0, Zenon DEF walLoop
<1>12. Sighted' => Sighted
    BY <1>6, Zenon DEF AppendLine, RotateAndAppend, Sighted
<1> HIDE DEF rest
<1>7. ASSUME Sighted PROVE \E n \in Nat : n <= e /\ Files(disk', n) /\ Between(wal'.buf, n, e)
    <2>0. /\ Files(disk, a) /\ Between(wal.buf, a, b)
          /\ Behind(disk, wal) /\ Spliceless(disk, wal)
        BY <1>1, <1>7, Zenon DEF LogFlow, TInd, walLoop
    <2>1. CASE AppendLine(e)
        <3>1. Write(disk, wal, e) \/ WriteFault(disk, wal)
            BY <2>1, Zenon DEF AppendLine
        <3> QED
            BY <1>2, <1>4, <1>5, <2>0, <3>1, WriteFlow, Zenon DEF Behind
    <2>2. CASE RotateAndAppend(e)
        <3> DEFINE s == wal.seq + 1
        <3>1. Files(Flush(disk), b) /\ \A d \in FlushFault : Files(d, b)
            BY <1>2, <1>4, <2>0, FlushFlow, Zenon
        <3>2. /\ DOMAIN Flush(disk) = DOMAIN disk /\ Typed(Flush(disk))
              /\ \A d \in FlushFault : DOMAIN d = DOMAIN disk /\ Typed(d)
            BY <1>4, FlushSound, Zenon
        <3>3. wal.seq \in Nat
            BY <1>4, Zenon DEF Writers, Numbers
        <3>4. ASSUME NEW d, Files(d, b), DOMAIN d = DOMAIN disk, Typed(d), NEW g, Some(g, WithFile(d, s)),
                     Write(g, openLocked(d, s), e) \/ WriteFault(g, openLocked(d, s))
              PROVE  \E n \in Nat : n <= e /\ Files(disk', n) /\ Between(wal'.buf, n, e)
            <4> DEFINE w == openLocked(d, s)
            <4>1. DOMAIN d \subseteq 1..wal.seq
                BY <2>0, <3>4, Zenon DEF Behind
            <4>2. /\ w \in Writers /\ w.seq = s /\ w.buf = <<>>
                  /\ DOMAIN g \subseteq 1..s /\ Spliceless(g, w)
                BY <1>4, <3>4, <4>1, OpenSound, Zenon
            <4>3. s \in Nat \ {0} /\ DOMAIN d \subseteq 1..(s - 1)
                BY <3>3, <4>1
            <4> HIDE DEF s
            <4>4. Files(g, b)
                BY <1>2, <3>4, <4>3, FilesOpened, Zenon
            <4>5. Between(w.buf, b, b)
                BY <4>2, BetweenEmpty, Zenon
            <4>6. Write(g, w, e) \/ WriteFault(g, w)
                BY <3>4, Zenon
            <4>7. b \in Nat /\ b <= b /\ b < e /\ e \in Nat
                BY <1>2, <1>5
            <4> HIDE DEF w
            <4> QED
                BY <4>2, <4>4, <4>5, <4>6, <4>7, WriteFlow, Zenon
        <3>5. CASE disk' = Flush(disk) /\ wal' = [wal EXCEPT !.seq = @ + 1, !.buf = <<>>]
            <4>1. wal'.buf = <<>>
                BY <1>4, <3>5, Zenon DEF Writers
            <4>2. Files(disk', b)
                BY <3>1, <3>5, Zenon
            <4>3. Between(wal'.buf, b, e)
                BY <4>1, BetweenEmpty, Zenon
            <4>4. b \in Nat /\ b <= e
                BY <1>2, <1>5
            <4> QED
                BY <4>2, <4>3, <4>4, Zenon
        <3>6. ASSUME NEW d, Typed(d)
              PROVE  Some(Opened(d), WithFile(d, s)) /\ \A g \in PruneFails(WithFile(d, s)) : Some(g, WithFile(d, s))
            <4>1. s \in Nat \ {0}
                BY <3>3
            <4> HIDE DEF s
            <4>2. Typed(WithFile(d, s))
                BY <3>6, <4>1, OpenFile, Zenon
            <4> QED
                BY <4>2, PruneSound, Zenon DEF Opened, s
        <3> QED
            BY <2>2, <3>1, <3>2, <3>4, <3>5, <3>6, Zenon DEF RotateAndAppend
    <2> QED
        BY <1>6, <2>1, <2>2, Zenon
<1>8. PICK n \in Nat : n <= e /\ (Sighted' => Files(disk', n) /\ Between(wal'.buf, n, e))
    <2>1. CASE Sighted
        BY <1>7, <2>1, Zenon
    <2>2. CASE ~Sighted
        <3>1. e <= e
            BY <1>5
        <3> QED
            BY <1>5, <1>12, <2>2, <3>1, Zenon
    <2> QED
        BY <2>1, <2>2, Zenon
<1>9. LogFlow(n, e, c)'
    BY <1>2, <1>3, <1>5, <1>6, <1>8, Zenon DEF LogFlow, Files
<1>10. Len(walQueue') <= QueueCap /\ Len(queue') <= QueueCap
    <2>1. Len(walQueue) \in Nat /\ QueueCap \in Nat
        BY <1>4, TelemetryAssumption
    <2> QED
        BY <1>5, <1>6, <2>1 DEF LogInd
<1> QED
    BY <1>9, <1>10, Zenon DEF LogInd

(* Every step keeps the events in their order on the way to the log.       *)
LEMMA LogStep == TInd /\ LogInd /\ [TNext]_tvars => LogInd'
<1> SUFFICES ASSUME TInd, LogInd, [TNext]_tvars PROVE LogInd'
    BY Zenon
<1>1. PICK a, b, c : LogFlow(a, b, c)
    BY Zenon DEF LogInd
<1>2. a \in Nat /\ b \in Nat /\ c \in Nat /\ a <= b /\ b <= c /\ c <= emitted /\ emitted \in Nat
    BY <1>1, Zenon DEF LogFlow, TInd, QueueTypes
<1>3. /\ Sighted => Files(disk, a) /\ Between(wal.buf, a, b) /\ Behind(disk, wal)
      /\ Between(walQueue, b, c) /\ Between(queue, c, emitted)
    BY <1>1, Zenon DEF LogFlow, TInd
<1>4. /\ wal \in Writers /\ Typed(disk) /\ walQueue \in Seq(Nat) /\ queue \in Seq(Nat)
      /\ wal.buf \in Seq(Nat) /\ QueueCap \in Nat /\ Len(queue) <= QueueCap /\ Len(walQueue) <= QueueCap
    BY TelemetryAssumption, Zenon DEF TInd, QueueTypes, Buffers, Writers, LogInd
<1>5. CASE enqueue
    <2>1. emitted' = emitted + 1
        BY <1>5, Zenon DEF enqueue
    <2>2. CASE Died
        BY <1>2, <2>1, <2>2, LogDeath
    <2>3. CASE queue' = Offer(queue, QueueCap, emitted + 1) /\ UNCHANGED <<walQueue, disk, wal, mishap>>
        <3> DEFINE e == emitted + 1
        <3>1. e \in Nat /\ emitted < e /\ emitted' = e
            BY <1>2, <2>1
        <3> HIDE DEF e
        <3>2. Between(queue', c, e) /\ Len(queue') <= QueueCap
            BY <1>2, <1>3, <1>4, <2>3, <3>1, BetweenOffer, Zenon DEF e
        <3>3. LogFlow(a, b, c)'
            BY <1>2, <1>3, <2>3, <3>1, <3>2 DEF LogFlow, Files, Sighted
        <3> QED
            BY <1>4, <2>3, <3>2, <3>3, Zenon DEF LogInd
    <2> QED
        BY <1>5, <2>2, <2>3, Zenon DEF enqueue, walVars
<1>6. CASE fanout
    <2> DEFINE rest == Tail(queue)
    <2>0. PICK e : e = Head(queue)
        BY Zenon
    <2>1. queue # <<>> /\ queue' = rest /\ walQueue' = Offer(walQueue, QueueCap, e) /\ UNCHANGED <<emitted, disk, wal, mishap>>
        BY <1>6, <2>0, Zenon DEF fanout, walVars
    <2>2. e \in Nat /\ c < e /\ e <= emitted /\ Between(rest, e, emitted) /\ Len(rest) = Len(queue) - 1
        BY <1>2, <1>3, <1>4, <2>0, <2>1, BetweenTail, Zenon
    <2> HIDE DEF rest
    <2>3. Between(walQueue', b, e) /\ Len(walQueue') <= QueueCap
        BY <1>2, <1>3, <1>4, <2>1, <2>2, BetweenOffer, Zenon
    <2>4. LogFlow(a, b, e)'
        BY <1>2, <1>3, <2>1, <2>2, <2>3 DEF LogFlow, Files, Sighted
    <2>5. Len(queue') <= QueueCap
        <3>1. Len(queue) \in Nat
            BY <1>4
        <3> QED
            BY <1>4, <2>1, <2>2, <3>1
    <2> QED
        BY <2>3, <2>4, <2>5, Zenon DEF LogInd
<1>7. CASE walLoop
    BY <1>7, LogWal, Zenon
<1>8. CASE walClose
    <2>1. UNCHANGED <<emitted, queue, walQueue>> /\ Sighted' = Sighted
        BY <1>8, Zenon DEF walClose, Sighted
    <2>2. Sighted => Files(Flush(disk), b) /\ \A d \in FlushFault : Files(d, b)
        BY <1>2, <1>3, <1>4, FlushFlow, Zenon
    <2>3. (Sighted => Files(disk', b)) /\ wal'.buf = <<>>
        BY <1>4, <1>8, <2>2, Zenon DEF walClose, Failed, Writers
    <2>4. LogFlow(b, b, c)'
        BY <1>2, <1>3, <2>1, <2>3, BetweenEmpty DEF LogFlow, Files
    <2> QED
        BY <1>4, <2>1, <2>4, Zenon DEF LogInd
<1>9. CASE Exit \/ Crash
    BY <1>2, <1>9, LogDeath DEF Exit, Crash
<1>10. CASE Restart
    <2>1. UNCHANGED <<emitted, queue, walQueue>>
        BY <1>10, Zenon DEF Restart
    <2>2. ASSUME Reopened(NextSeq(disk)), UNCHANGED mishap PROVE LogFlow(a, b, c)'
        <3> DEFINE n == NextSeq(disk)
        <3>0. PICK k \in Nat : DOMAIN disk \subseteq 1..k
            BY <1>4, Zenon DEF Typed
        <3>1. n \in Nat \ {0} /\ \A m \in DOMAIN disk : m < n
            BY <3>0, NextIsNew, Zenon
        <3>2. DOMAIN disk \subseteq 1..(n - 1)
            BY <3>0, <3>1
        <3>3. wal' = openLocked(disk, n) /\ disk' = WithFile(disk, n) /\ Sighted' = Sighted
            BY <2>2, Zenon DEF Reopened, Sighted
        <3> HIDE DEF n
        <3>4. Sighted' => Files(disk', a)
            BY <1>2, <1>3, <3>1, <3>2, <3>3, FilesOpened, Zenon
        <3>5. wal'.buf = <<>>
            BY <1>4, <3>1, <3>3, OpenFile, Zenon
        <3> QED
            BY <1>2, <1>3, <2>1, <3>4, <3>5, BetweenEmpty, Zenon DEF LogFlow, Files
    <2>3. ASSUME mishap' = mishap \cup {"blind"} PROVE LogFlow(a, b, c)'
        <3>1. ~Sighted'
            BY <2>3, Zenon DEF Sighted
        <3> QED
            BY <1>2, <1>3, <2>1, <3>1, Zenon DEF LogFlow
    <2>4. LogFlow(a, b, c)'
        BY <1>10, <2>2, <2>3, Zenon DEF Restart
    <2> QED
        BY <1>4, <2>1, <2>4, Zenon DEF LogInd
<1>11. CASE Connect \/ Deliver \/ unsubscribe \/ Recent \/ RecentReturns \/ CloseStep
    BY <1>11, LogSame, Zenon DEF Connect, Deliver, unsubscribe, Recent, RecentReturns, CloseStep, walVars
<1>12. CASE Gather \/ Tick \/ SendReturns \/ ForwarderStops \/ SetTarget \/ Ingest \/ IngestLost \/ Prune
    <2>1. UNCHANGED exporterKept
        BY <1>12, Zenon DEF Gather, Tick, SendReturns, ForwarderStops, SetTarget, Ingest, IngestLost, Prune
    <2> QED
        BY <2>1, LogSame, Zenon DEF exporterKept, exportVars, walVars
<1>13. CASE UNCHANGED tvars
    BY <1>13, LogSame, Zenon DEF tvars, exportVars, walVars
<1> QED
    BY <1>5, <1>6, <1>7, <1>8, <1>9, <1>10, <1>11, <1>12, <1>13, Zenon DEF TNext

(* The invariants of the way to the log.                                   *)
THEOREM LogIndAlways == TSpec => [](TInd /\ LogInd)
<1>1. TInit => TInd /\ LogInd
    BY TIndInit, LogInit, Zenon
<1>2. TInd /\ LogInd /\ [TNext]_tvars => (TInd /\ LogInd)'
    BY TIndNext, LogStep, Zenon
<1> QED
    BY <1>1, <1>2, PTL DEF TSpec

-----------------------------------------------------------------------------
(* The bounds.                                                             *)
Kinds == {"restarts", "faults", "connects", "targets", "prunes"}

BudgetInd ==
    /\ DOMAIN budget = Kinds /\ (\A k \in Kinds : budget[k] \in Nat) /\ budget["faults"] <= MaxFaults
    /\ budget["faults"] = MaxFaults => mishap = {}

(* A bound is spent.                                                       *)
LEMMA Spent ==
    ASSUME BudgetInd, NEW k \in Kinds, Spend(k), k = "faults" \/ mishap' = mishap
    PROVE  /\ BudgetInd'
           /\ k # "faults" => budget'["faults"] = budget["faults"]
           /\ k = "faults" => budget'["faults"] # MaxFaults
<1>1. budget[k] \in Nat /\ budget[k] > 0 /\ DOMAIN budget = Kinds /\ "faults" \in Kinds /\ MaxFaults \in Nat
    BY TelemetryAssumption, Zenon DEF BudgetInd, Spend, Kinds
<1>2. PICK n : n = budget[k] - 1
    BY Zenon
<1>3. n \in Nat /\ n < budget[k]
    BY <1>1, <1>2
<1>4. budget' = [budget EXCEPT ![k] = n]
    BY <1>2, Zenon DEF Spend
<1>5. DOMAIN budget' = Kinds /\ budget'[k] = n /\ \A j \in Kinds : j # k => budget'[j] = budget[j]
    BY <1>1, <1>4, Zenon
<1>6. \A j \in Kinds : budget'[j] \in Nat
    BY <1>3, <1>5, Zenon DEF BudgetInd
<1>7. budget["faults"] \in Nat /\ budget["faults"] <= MaxFaults
    BY <1>1, Zenon DEF BudgetInd
<1>8. CASE k = "faults"
    <2>1. budget'["faults"] = n /\ n < MaxFaults
        BY <1>1, <1>3, <1>5, <1>7, <1>8
    <2> QED
        BY <1>1, <1>3, <1>5, <1>6, <1>8, <2>1 DEF BudgetInd
<1>9. CASE k # "faults"
    BY <1>1, <1>5, <1>6, <1>7, <1>9, Zenon DEF BudgetInd
<1> QED
    BY <1>8, <1>9, Zenon

(* The bounds over every step.                                             *)
LEMMA BudgetStep ==
    ASSUME BudgetInd, [TNext]_tvars
    PROVE  BudgetInd' /\ (budget'["faults"] = MaxFaults => budget["faults"] = MaxFaults)
<1>1. \/ budget' = budget /\ mishap' = mishap
      \/ \E k \in Kinds : Spend(k) /\ (k = "faults" \/ mishap' = mishap)
    <2>1. "faults" \in Kinds /\ "connects" \in Kinds /\ "restarts" \in Kinds /\ "targets" \in Kinds /\ "prunes" \in Kinds
        BY Zenon DEF Kinds
    <2>2. CASE walLoop
        BY <2>1, <2>2, Zenon DEF walLoop, AppendLine, RotateAndAppend, Fault
    <2>3. CASE walClose
        BY <2>1, <2>3, Zenon DEF walClose, Fault
    <2>4. CASE Connect \/ Restart \/ SetTarget \/ Prune
        BY <2>1, <2>4, Zenon DEF Connect, Restart, Fault, SetTarget, Prune, exporterKept, walVars
    <2>5. CASE enqueue \/ fanout \/ Deliver \/ unsubscribe \/ Recent \/ RecentReturns \/ CloseStep \/ Exit \/ Crash
        BY <2>5, Zenon DEF enqueue, fanout, Deliver, unsubscribe, Recent, RecentReturns, CloseStep, Exit, Crash, Died, walVars
    <2>6. CASE Gather \/ Tick \/ SendReturns \/ ForwarderStops \/ Ingest \/ IngestLost
        BY <2>6, Zenon DEF Gather, Tick, SendReturns, ForwarderStops, Ingest, IngestLost, exporterKept, walVars
    <2>7. CASE UNCHANGED tvars
        BY <2>7, Zenon DEF tvars, walVars
    <2> QED
        BY <2>2, <2>3, <2>4, <2>5, <2>6, <2>7, Zenon DEF TNext
<1>2. CASE budget' = budget /\ mishap' = mishap
    BY <1>2, Zenon DEF BudgetInd
<1>3. ASSUME NEW k \in Kinds, Spend(k), k = "faults" \/ mishap' = mishap
      PROVE  BudgetInd' /\ (budget'["faults"] = MaxFaults => budget["faults"] = MaxFaults)
    BY <1>3, Spent, Zenon
<1> QED
    BY <1>1, <1>2, <1>3, Zenon

(* BudgetInd holds in every reachable state.                               *)
THEOREM BudgetAlways == TSpec => []BudgetInd
<1>1. TInit => BudgetInd
    <2> SUFFICES ASSUME TInit PROVE BudgetInd
        BY Zenon
    <2>1. \A n \in {MaxRestarts, MaxFaults, MaxConnects, MaxTargets, MaxPrunes} : n \in Nat
        BY TelemetryAssumption, Zenon
    <2>2. budget = [restarts |-> MaxRestarts, faults |-> MaxFaults, connects |-> MaxConnects,
                    targets |-> MaxTargets, prunes |-> MaxPrunes]
        BY Zenon DEF TInit
    <2>3. DOMAIN budget = Kinds
        BY <2>2, Zenon DEF Kinds
    <2>4. /\ budget["restarts"] = MaxRestarts /\ budget["faults"] = MaxFaults
          /\ budget["connects"] = MaxConnects /\ budget["targets"] = MaxTargets
          /\ budget["prunes"] = MaxPrunes
        BY <2>2, Zenon
    <2>5. \A k \in Kinds : budget[k] \in Nat
        BY <2>1, <2>4, Zenon DEF Kinds
    <2>6. budget["faults"] <= MaxFaults /\ mishap = {}
        BY <2>1, <2>4 DEF TInit
    <2> QED
        BY <2>3, <2>5, <2>6, Zenon DEF BudgetInd
<1>2. BudgetInd /\ [TNext]_tvars => BudgetInd'
    BY BudgetStep, Zenon
<1> QED
    BY <1>1, <1>2, PTL DEF TSpec

(* What has gone amiss stays on record.                                    *)
LEMMA OnRecord ==
    ASSUME [TNext]_tvars
    PROVE  mishap \subseteq mishap' /\ mishap' \subseteq mishap \cup {"blind", "stray"}
<1>1. CASE walLoop \/ walClose \/ Restart
    BY <1>1, Zenon DEF walLoop, AppendLine, RotateAndAppend, walClose, Restart
<1>2. CASE enqueue \/ fanout \/ Connect \/ Deliver \/ unsubscribe \/ Recent \/ RecentReturns \/ CloseStep \/ Exit \/ Crash
    BY <1>2, Zenon DEF enqueue, fanout, Connect, Deliver, unsubscribe, Recent, RecentReturns, CloseStep, Exit, Crash, Died, walVars
<1>3. CASE Gather \/ Tick \/ SendReturns \/ ForwarderStops \/ SetTarget \/ Ingest \/ IngestLost \/ Prune
    BY <1>3, Zenon DEF Gather, Tick, SendReturns, ForwarderStops, SetTarget, Ingest, IngestLost, Prune, exporterKept, walVars
<1>4. CASE UNCHANGED tvars
    BY <1>4, Zenon DEF tvars, walVars
<1> QED
    BY <1>1, <1>2, <1>3, <1>4, Zenon DEF TNext
===============================================================================
