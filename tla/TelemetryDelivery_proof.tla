----------------------- MODULE TelemetryDelivery_proof -----------------------
(***************************************************************************)
(* Where the events go besides the write-ahead log: the forwarder and the  *)
(* aggregator's store, the replay ring and the streams, and with them type *)
(* correctness.                                                            *)
(***************************************************************************)
EXTENDS Telemetry_proof
-----------------------------------------------------------------------------
(* The way to the aggregator.  What the loop has gathered but is not yet   *)
(* sending.                                                                *)
Flags == BOOLEAN
Forwarders == [client : Flags, queue : Buffers, batch : Buffers, sending : Flags, done : Flags]

Pending == IF fwd.sending THEN <<>> ELSE fwd.batch

ForwardTypes ==
    /\ fwd \in Forwarders /\ late \subseteq Buffers
    /\ store.events \subseteq Nat \X Nat
    /\ store.seq \in Nat /\ store.count \in Nat /\ store.last \in Nat

ForwardRoom ==
    /\ Len(fwd.queue) <= ForwardCap /\ Len(fwd.batch) <= BatchMax
    /\ ~fwd.sending => Len(fwd.batch) < BatchMax

(* What the aggregator has or may still get precedes what is gathered,     *)
(* that what is on the forwarder's queue, and that what is on the          *)
(* exporter's.                                                             *)
ForwardFlow(f, g, c) ==
    /\ f \in Nat /\ g \in Nat /\ c \in Nat /\ f <= g /\ g <= c /\ c <= emitted
    /\ \A r \in store.events : r[1] <= f
    /\ \A b \in late : Between(b, 0, f)
    /\ Between(Pending, f, g) /\ Between(fwd.queue, g, c) /\ Between(queue, c, emitted)

(* No event is in two batches, or in a batch and in the store.             *)
Apart ==
    /\ \A b \in late : \A i \in DOMAIN b : \A r \in store.events : r[1] # b[i]
    /\ \A b1, b2 \in late : b1 # b2 => \A i \in DOMAIN b1, j \in DOMAIN b2 : b1[i] # b2[j]

ForwardInd ==
    /\ ForwardTypes /\ ForwardRoom /\ Apart
    /\ \E f, g, c : ForwardFlow(f, g, c)

(* Nothing has been forwarded at the start.                                *)
LEMMA ForwardInit == TInit => ForwardInd
<1> SUFFICES ASSUME TInit PROVE ForwardInd
    BY Zenon
<1> DEFINE cl == May("forward")
<1>1. /\ fwd = [client |-> cl, queue |-> <<>>, batch |-> <<>>, sending |-> FALSE, done |-> FALSE]
      /\ late = {} /\ store = [events |-> {}, seq |-> 0, count |-> 0, last |-> 0]
      /\ queue = <<>> /\ emitted = 0
    BY Zenon DEF TInit
<1>2. cl \in Flags /\ FALSE \in Flags /\ <<>> \in Buffers
    BY DEF May, Flags, Buffers
<1> HIDE DEF cl
<1>3. /\ fwd \in Forwarders /\ fwd.queue = <<>> /\ fwd.batch = <<>> /\ fwd.sending = FALSE
    BY <1>1, <1>2, Zenon DEF Forwarders
<1>4. store.events = {} /\ store.seq = 0 /\ store.count = 0 /\ store.last = 0
    BY <1>1, Zenon
<1>5. ForwardTypes
    BY <1>1, <1>3, <1>4, Zenon DEF ForwardTypes
<1>6. ForwardRoom
    <2>1. Len(<<>>) = 0 /\ ForwardCap \in Nat \ {0} /\ BatchMax \in Nat \ {0}
        BY TelemetryAssumption, Zenon
    <2> QED
        BY <1>3, <2>1 DEF ForwardRoom
<1>7. Apart
    BY <1>1, Zenon DEF Apart
<1>8. ForwardFlow(0, 0, 0)
    <2>1. Pending = <<>>
        BY <1>3, Zenon DEF Pending
    <2> QED
        BY <1>1, <1>3, <1>4, <2>1, BetweenEmpty DEF ForwardFlow
<1> QED
    BY <1>5, <1>6, <1>7, <1>8, Zenon DEF ForwardInd

(* Steps that touch neither the forwarder nor the exporter's queue.        *)
LEMMA ForwardSame ==
    ASSUME ForwardInd, UNCHANGED <<emitted, queue, fwd, late, store>>
    PROVE  ForwardInd'
<1>1. PICK f, g, c : ForwardFlow(f, g, c)
    BY Zenon DEF ForwardInd
<1>2. ForwardFlow(f, g, c)'
    BY <1>1, Zenon DEF ForwardFlow, Pending
<1>3. ForwardTypes' /\ ForwardRoom' /\ Apart'
    BY Zenon DEF ForwardInd, ForwardTypes, ForwardRoom, Apart
<1> QED
    BY <1>2, <1>3, Zenon DEF ForwardInd

(* flush, of a batch that follows what the aggregator may have, with the   *)
(* queue q that is left.                                                   *)
LEMMA ForwardFlush ==
    ASSUME ForwardTypes, Apart, emitted \in Nat,
           NEW f \in Nat, NEW g \in Nat, NEW c \in Nat, f <= g, g <= c, c <= emitted,
           \A r \in store.events : r[1] <= f, \A b \in late : Between(b, 0, f),
           NEW q \in Buffers, NEW batch \in Buffers,
           Between(batch, f, g), Between(q, g, c), Between(queue, c, emitted),
           Len(q) <= ForwardCap, Len(batch) <= BatchMax,
           flush(q, batch), UNCHANGED <<emitted, queue, store>>
    PROVE  ForwardInd'
<1> DEFINE s == Sends(batch)
           b2 == IF s THEN batch ELSE <<>>
<1>1. s \in Flags /\ b2 \in Buffers
    <2>1. <<>> \in Buffers
        BY DEF Buffers
    <2> QED
        BY <2>1, Zenon DEF Sends, Flags
<1>2. /\ fwd' = [fwd EXCEPT !.queue = q, !.sending = s, !.batch = b2]
      /\ late' = IF s THEN late \cup {batch} ELSE late
    BY Zenon DEF flush
<1>3. fwd \in Forwarders /\ late \subseteq Buffers
    BY Zenon DEF ForwardTypes
<1>4. batch \in Seq(Nat) /\ late \subseteq Seq(Nat) /\ store.events \subseteq Nat \X Nat
    BY Zenon DEF Buffers, ForwardTypes
<1>5. (s => b2 = batch) /\ (~s => b2 = <<>>)
    BY Zenon
<1> HIDE DEF s, b2
<1>6. fwd' \in Forwarders /\ fwd'.queue = q /\ fwd'.sending = s /\ fwd'.batch = b2
    BY <1>1, <1>2, <1>3, Zenon DEF Forwarders
<1>7. ForwardTypes'
    BY <1>2, <1>3, <1>6, Zenon DEF ForwardTypes
<1>8. ForwardRoom'
    <2>1. Len(<<>>) = 0 /\ ForwardCap \in Nat \ {0} /\ BatchMax \in Nat \ {0}
        BY TelemetryAssumption, Zenon
    <2> QED
        BY <1>5, <1>6, <2>1 DEF ForwardRoom
<1>9. Pending' = <<>>
    BY <1>5, <1>6, Zenon DEF Pending
<1>10. CASE s
    <2>1. late' = late \cup {batch}
        BY <1>2, <1>10, Zenon
    <2>2. Between(batch, 0, g) /\ \A b \in late : Between(b, 0, g)
        <3>1. 0 \in Nat /\ 0 <= f /\ 0 <= 0 /\ g <= g
            OBVIOUS
        <3> QED
            BY <1>4, <3>1, BetweenWiden, Zenon
    <2>3. \A r \in store.events : r[1] <= g
        BY <1>4
    <2>4. ForwardFlow(g, g, c)'
        BY <1>6, <1>9, <2>1, <2>2, <2>3, BetweenEmpty DEF ForwardFlow
    <2>5. \A i \in DOMAIN batch : batch[i] \in Nat /\ f < batch[i]
        BY <1>4 DEF Between
    <2>6. \A b \in late : \A i \in DOMAIN b : b[i] \in Nat /\ b[i] <= f
        BY <1>4 DEF Between
    <2>7. \A i \in DOMAIN batch : \A r \in store.events : r[1] # batch[i]
        BY <1>4, <2>5
    <2>8. \A b \in late : \A i \in DOMAIN b, j \in DOMAIN batch : b[i] # batch[j]
        BY <2>5, <2>6
    <2>9. Apart'
        BY <2>1, <2>7, <2>8 DEF Apart
    <2> QED
        BY <1>7, <1>8, <2>4, <2>9, Zenon DEF ForwardInd
<1>11. CASE ~s
    <2>1. late' = late
        BY <1>2, <1>11, Zenon
    <2>2. ForwardFlow(f, g, c)'
        BY <1>6, <1>9, <2>1, BetweenEmpty, Zenon DEF ForwardFlow
    <2>3. Apart'
        BY <2>1, Zenon DEF Apart
    <2> QED
        BY <1>7, <1>8, <2>2, <2>3, Zenon DEF ForwardInd
<1> QED
    BY <1>10, <1>11, Zenon

(* A process death: what the aggregator has or may still get is left.      *)
LEMMA ForwardDeath ==
    ASSUME ForwardInd, Died, emitted \in Nat, emitted' \in Nat, emitted <= emitted'
    PROVE  ForwardInd'
<1>1. PICK f, g, c : ForwardFlow(f, g, c)
    BY Zenon DEF ForwardInd
<1>2. /\ fwd' = [fwd EXCEPT !.queue = <<>>, !.batch = <<>>, !.sending = FALSE]
      /\ late' = late /\ store' = store /\ queue' = <<>>
    BY Zenon DEF Died
<1>3. fwd' \in Forwarders /\ fwd'.queue = <<>> /\ fwd'.batch = <<>> /\ fwd'.sending = FALSE
    <2>1. <<>> \in Buffers /\ FALSE \in Flags /\ fwd \in Forwarders
        BY DEF Buffers, Flags, ForwardInd, ForwardTypes
    <2> QED
        BY <1>2, <2>1, Zenon DEF Forwarders
<1>4. ForwardTypes' /\ Apart'
    BY <1>2, <1>3, Zenon DEF ForwardInd, ForwardTypes, Apart
<1>5. ForwardRoom'
    <2>1. Len(<<>>) = 0 /\ ForwardCap \in Nat \ {0} /\ BatchMax \in Nat \ {0}
        BY TelemetryAssumption, Zenon
    <2> QED
        BY <1>3, <2>1 DEF ForwardRoom
<1>6. Pending' = <<>>
    BY <1>3, Zenon DEF Pending
<1>7. ForwardFlow(f, f, f)'
    BY <1>1, <1>2, <1>3, <1>6, BetweenEmpty DEF ForwardFlow
<1> QED
    BY <1>4, <1>5, <1>7, Zenon DEF ForwardInd

(* The forwarder's loop.                                                   *)
LEMMA ForwardLoop ==
    ASSUME ForwardInd, emitted \in Nat, queue \in Buffers, Gather \/ Tick \/ SendReturns \/ ForwarderStops \/ SetTarget
    PROVE  ForwardInd'
<1>1. PICK f, g, c : ForwardFlow(f, g, c)
    BY Zenon DEF ForwardInd
<1>2. f \in Nat /\ g \in Nat /\ c \in Nat /\ f <= g /\ g <= c /\ c <= emitted
    BY <1>1, Zenon DEF ForwardFlow
<1>3. /\ \A r \in store.events : r[1] <= f
      /\ \A b \in late : Between(b, 0, f)
      /\ Between(Pending, f, g) /\ Between(fwd.queue, g, c) /\ Between(queue, c, emitted)
    BY <1>1, Zenon DEF ForwardFlow
<1>4. /\ ForwardTypes /\ ForwardRoom /\ Apart /\ fwd \in Forwarders
      /\ fwd.queue \in Buffers /\ fwd.batch \in Buffers /\ fwd.sending \in Flags
      /\ fwd.queue \in Seq(Nat) /\ fwd.batch \in Seq(Nat) /\ <<>> \in Buffers
    BY DEF ForwardInd, ForwardTypes, Forwarders, Buffers
<1>5. ForwardCap \in Nat \ {0} /\ BatchMax \in Nat \ {0} /\ Len(<<>>) = 0
    BY TelemetryAssumption, Zenon
<1>6. ~fwd.sending => Pending = fwd.batch
    BY Zenon DEF Pending
<1>7. CASE Gather
    <2> DEFINE q == Tail(fwd.queue)
    <2>1. /\ ~fwd.sending /\ fwd.queue # <<>> /\ UNCHANGED <<emitted, queue, store>>
        BY <1>7, Zenon DEF Gather, exporterKept, exportVars
    <2>2. PICK x : x = Head(fwd.queue)
        BY Zenon
    <2>3. x \in Nat /\ g < x /\ x <= c /\ q \in Seq(Nat) /\ Between(q, x, c) /\ Len(q) = Len(fwd.queue) - 1
        BY <1>2, <1>3, <1>4, <2>1, <2>2, BetweenTail, Zenon
    <2>4. PICK batch : batch = Append(fwd.batch, x)
        BY Zenon
    <2>5. Between(fwd.batch, f, g)
        BY <1>3, <1>6, <2>1, Zenon
    <2>6. batch \in Seq(Nat) /\ Between(batch, f, x) /\ Len(batch) = Len(fwd.batch) + 1
        BY <1>2, <1>4, <2>3, <2>4, <2>5, BetweenAppend
    <2>7. Len(fwd.batch) \in Nat /\ Len(fwd.queue) \in Nat /\ Len(fwd.queue) <= ForwardCap /\ Len(fwd.batch) < BatchMax
        BY <1>4, <2>1 DEF ForwardRoom
    <2>8. Len(batch) <= BatchMax /\ Len(q) <= ForwardCap /\ Len(batch) \in Nat
        BY <1>5, <2>3, <2>6, <2>7
    <2>9. \/ flush(q, batch)
          \/ Len(batch) < BatchMax /\ fwd' = [fwd EXCEPT !.queue = q, !.batch = batch] /\ late' = late
        BY <1>4, <1>5, <1>7, <2>2, <2>4, <2>8 DEF Gather, Forwarders
    <2>10. q \in Buffers /\ batch \in Buffers /\ f <= x
        BY <1>2, <2>3, <2>6 DEF Buffers
    <2> HIDE DEF q
    <2>11. CASE flush(q, batch)
        BY Zenon, <1>2, <1>3, <1>4, <2>1, <2>3, <2>6, <2>8, <2>10, <2>11, ForwardFlush
    <2>12. CASE Len(batch) < BatchMax /\ fwd' = [fwd EXCEPT !.queue = q, !.batch = batch] /\ late' = late
        <3>1. fwd' \in Forwarders /\ fwd'.queue = q /\ fwd'.batch = batch /\ fwd'.sending = fwd.sending
            BY <1>4, <2>10, <2>12, Zenon DEF Forwarders
        <3>2. Pending' = batch
            BY <2>1, <3>1, Zenon DEF Pending
        <3>3. ForwardFlow(f, x, c)'
            BY <1>2, <1>3, <2>1, <2>3, <2>6, <2>10, <2>12, <3>1, <3>2, Zenon DEF ForwardFlow
        <3>4. ForwardTypes' /\ Apart'
            BY <1>4, <2>1, <2>12, <3>1, Zenon DEF ForwardTypes, Apart
        <3>5. ForwardRoom'
            BY <2>8, <2>12, <3>1, Zenon DEF ForwardRoom
        <3> QED
            BY <3>3, <3>4, <3>5, Zenon DEF ForwardInd
    <2> QED
        BY <2>9, <2>11, <2>12, Zenon
<1>8. CASE Tick
    <2>1. ~fwd.sending /\ flush(fwd.queue, fwd.batch) /\ UNCHANGED <<emitted, queue, store>>
        BY <1>8, Zenon DEF Tick, exporterKept, exportVars
    <2>2. PICK q, batch : q = fwd.queue /\ batch = fwd.batch
        BY Zenon
    <2>3. /\ q \in Buffers /\ batch \in Buffers /\ Between(batch, f, g) /\ Between(q, g, c)
          /\ Len(q) <= ForwardCap /\ Len(batch) <= BatchMax /\ flush(q, batch)
        BY <1>3, <1>4, <1>6, <2>1, <2>2, Zenon DEF ForwardRoom
    <2> QED
        BY Zenon, <1>2, <1>3, <1>4, <2>1, <2>3, ForwardFlush
<1>9. CASE SendReturns \/ ForwarderStops \/ SetTarget
    <2>1. /\ UNCHANGED <<emitted, queue, late, store>>
          /\ fwd' \in Forwarders /\ fwd'.queue = fwd.queue
          /\ \/ fwd'.batch = <<>> /\ fwd'.sending = FALSE
             \/ fwd'.batch = fwd.batch /\ fwd'.sending = fwd.sending
        <3>1. CASE SendReturns
            <4>1. fwd' = [fwd EXCEPT !.sending = FALSE, !.batch = <<>>] /\ UNCHANGED <<emitted, queue, late, store>>
                BY <3>1, Zenon DEF SendReturns, SendOver, exporterKept, exportVars
            <4>2. FALSE \in Flags
                BY Zenon DEF Flags
            <4> QED
                BY <1>4, <4>1, <4>2, Zenon DEF Forwarders
        <3>2. CASE ForwarderStops
            <4>1. /\ fwd' = [fwd EXCEPT !.batch = <<>>, !.client = FALSE, !.done = TRUE]
                  /\ ~fwd.sending /\ UNCHANGED <<emitted, queue, late, store>>
                BY <3>2, Zenon DEF ForwarderStops, exporterKept, exportVars
            <4>2. FALSE \in Flags /\ TRUE \in Flags /\ fwd.sending = FALSE
                BY <1>4, <4>1, Zenon DEF Flags
            <4> QED
                BY <1>4, <4>1, <4>2, Zenon DEF Forwarders
        <3>3. CASE SetTarget
            <4> DEFINE cl == ~fwd.client
            <4>1. fwd' = [fwd EXCEPT !.client = cl] /\ UNCHANGED <<emitted, queue, late, store>>
                BY <3>3, Zenon DEF SetTarget, exporterKept, exportVars
            <4>2. cl \in Flags
                BY Zenon DEF Flags
            <4> HIDE DEF cl
            <4> QED
                BY <1>4, <4>1, <4>2, Zenon DEF Forwarders
        <3> QED
            BY Zenon, <1>9, <3>1, <3>2, <3>3
    <2>2. Pending' = <<>> \/ Pending' = Pending
        BY <2>1, Zenon DEF Pending
    <2>3. ForwardFlow(f, g, c)'
        BY <1>2, <1>3, <2>1, <2>2, BetweenEmpty, Zenon DEF ForwardFlow
    <2>4. ForwardTypes' /\ Apart'
        BY <1>4, <2>1, Zenon DEF ForwardTypes, Apart
    <2>5. ForwardRoom'
        BY <1>4, <1>5, <2>1 DEF ForwardRoom
    <2> QED
        BY <2>3, <2>4, <2>5, Zenon DEF ForwardInd
<1> QED
    BY <1>7, <1>8, <1>9, Zenon
-----------------------------------------------------------------------------
(* The source's entry and the records it counts.                           *)
StoreInd ==
    /\ IsFiniteSet(store.events) /\ AtMostOnce
    /\ store.count = Cardinality(store.events)
    /\ store.last \in {0} \cup Times(store.events)
    /\ \A r \in store.events : r[1] <= store.last

(* Max of a bounded set of numbers.                                        *)
LEMMA MaxIs ==
    ASSUME NEW S \in SUBSET Nat, NEW b \in Nat, \A s \in S : s <= b, S # {}
    PROVE  Max(S) \in S /\ \A s \in S : s <= Max(S)
<1>1. \E n \in S : \A m \in S : n >= m
    <2>1. PICK n \in S : \A m \in S : m <= n
        BY Zenon, LastExists
    <2>2. \A m \in S : n >= m
        BY <2>1, Zenon
    <2> QED
        BY <2>2, Zenon
<1>2. Max(S) \in S /\ \A m \in S : Max(S) >= m
    BY <1>1, Zenon DEF Max
<1> QED
    BY <1>2, Zenon

(* The largest number of a set is its Max.                                 *)
LEMMA MaxUnique ==
    ASSUME NEW S \in SUBSET Nat, NEW x \in S, \A s \in S : s <= x
    PROVE  x = Max(S)
<1>1. x \in Nat /\ S # {}
    BY Zenon
<1>2. PICK m : m = Max(S)
    BY Zenon
<1>3. m \in S /\ \A s \in S : s <= m
    BY <1>1, <1>2, MaxIs, Zenon
<1>4. m \in Nat /\ x <= m /\ m <= x
    BY <1>3, Zenon
<1> QED
    BY <1>1, <1>2, <1>4

(* The records of a batch: one for each of its events.                     *)
Records(b, k) == {<<b[i], k + i>> : i \in DOMAIN b}

OnePerEvent(R, b) ==
    /\ R \subseteq Nat \X Nat /\ IsFiniteSet(R) /\ Cardinality(R) = Len(b)
    /\ \A r \in R : \E i \in DOMAIN b : r[1] = b[i]
    /\ \A i \in DOMAIN b : \E r \in R : r[1] = b[i]
    /\ \A r, s \in R : r[1] = s[1] => r = s

\* A batch in order gives one record for each of its events.
LEMMA RecordsOf ==
    ASSUME NEW b \in Seq(Nat), NEW f \in Nat, Between(b, 0, f), NEW k \in Nat
    PROVE  OnePerEvent(Records(b, k), b)
<1>0. PICK R : R = Records(b, k)
    BY Zenon
<1> DEFINE D == 1..Len(b)
           Rec(i) == <<b[i], k + i>>
           h == [i \in D |-> Rec(i)]
<1>1. DOMAIN b = D /\ Len(b) \in Nat /\ \A i \in D : b[i] \in Nat /\ b[i] <= f
    BY DEF Between
<1>2. \A i, j \in D : b[i] = b[j] => i = j
    <2> SUFFICES ASSUME NEW i \in D, NEW j \in D, i # j PROVE b[i] # b[j]
        BY Zenon
    <2>1. i \in Nat /\ j \in Nat
        BY <1>1
    <2>2. i < j \/ j < i
        BY <2>1
    <2>3. \A x, y \in DOMAIN b : x < y => b[x] < b[y]
        BY Zenon DEF Between
    <2>4. i \in DOMAIN b /\ j \in DOMAIN b /\ b[i] \in Nat /\ b[j] \in Nat
        BY <1>1, Zenon
    <2>5. b[i] < b[j] \/ b[j] < b[i]
        BY <2>2, <2>3, <2>4, Zenon
    <2> QED
        BY <2>4, <2>5
<1>3. \A r \in R : \E i \in D : r = Rec(i)
    BY <1>0, <1>1, Zenon DEF Records
<1>4. ASSUME NEW i \in D PROVE Rec(i) \in R /\ Rec(i)[1] = b[i] /\ Rec(i) \in Nat \X Nat
    <2>1. i \in DOMAIN b /\ i \in Nat /\ b[i] \in Nat
        BY <1>1
    <2>2. Rec(i) \in R
        BY <1>0, <2>1, Zenon DEF Records
    <2>3. k + i \in Nat
        BY <2>1
    <2> QED
        BY <2>1, <2>2, <2>3, Zenon
<1> HIDE DEF D
<1>6. h \in Bijection(D, R)
    <2>1. h \in [D -> R]
        BY <1>4, Zenon
    <2>2. \A i, j \in D : h[i] = h[j] => i = j
        BY <1>2, <1>4, Zenon
    <2>3. \A r \in R : \E i \in D : h[i] = r
        BY <1>3, Zenon
    <2> QED
        BY <2>1, <2>2, <2>3, Zenon DEF Bijection, Injection, Surjection, IsInjective
<1>7. IsFiniteSet(D) /\ Cardinality(D) = Len(b)
    <2> DEFINE n == Len(b)
    <2>1. n \in Nat /\ D = 1..n
        BY <1>1, Zenon DEF D
    <2> HIDE DEF n
    <2>2. IsFiniteSet(1..n) /\ Cardinality(1..n) = IF 1 > n THEN 0 ELSE n - 1 + 1
        BY <2>1, FS_Interval
    <2> QED
        BY <2>1, <2>2 DEF n
<1>8. IsFiniteSet(R) /\ Cardinality(R) = Len(b)
    <2>1. ExistsBijection(D, R)
        BY <1>6, Zenon DEF ExistsBijection
    <2> QED
        BY <1>7, <2>1, FS_Bijection, Zenon
<1> HIDE DEF Rec
<1>9. R \subseteq Nat \X Nat
    BY <1>3, <1>4, Zenon
<1>10. \A r \in R : \E i \in DOMAIN b : r[1] = b[i]
    BY <1>1, <1>3, <1>4, Zenon
<1>11. \A i \in DOMAIN b : \E r \in R : r[1] = b[i]
    BY <1>1, <1>4, Zenon
<1>12. \A r, s \in R : r[1] = s[1] => r = s
    BY <1>2, <1>3, <1>4
<1> QED
    BY <1>0, <1>8, <1>9, <1>10, <1>11, <1>12, Zenon DEF OnePerEvent

(* A late or timely batch is stored.                                       *)
LEMMA IngestKeeps ==
    ASSUME ForwardInd, StoreInd, emitted \in Nat, Ingest
    PROVE  ForwardInd' /\ StoreInd'
<1>1. PICK f, g, c : ForwardFlow(f, g, c)
    BY Zenon DEF ForwardInd
<1>2. f \in Nat /\ g \in Nat /\ c \in Nat /\ f <= g /\ g <= c /\ c <= emitted
    BY <1>1, Zenon DEF ForwardFlow
<1>3. PICK batch \in late :
        /\ late' = late \ {batch}
        /\ store' = [events |-> store.events \cup {<<batch[i], store.seq + i>> : i \in DOMAIN batch},
                     seq |-> store.seq + Len(batch),
                     count |-> store.count + Len(batch),
                     last |-> LastSeen(store.last, batch)]
        /\ UNCHANGED <<emitted, queue, fwd>>
    BY Zenon DEF Ingest, exporterKept, exportVars
<1> DEFINE E == store.events
           R == {<<batch[i], store.seq + i>> : i \in DOMAIN batch}
           l == LastSeen(store.last, batch)
<1>4. /\ ForwardTypes /\ ForwardRoom /\ Apart /\ batch \in Seq(Nat) /\ Between(batch, 0, f)
      /\ E \subseteq Nat \X Nat /\ (\A r \in E : r[1] <= f)
      /\ store.seq \in Nat /\ store.count \in Nat /\ store.last \in Nat
    BY <1>1, <1>3, Zenon DEF ForwardInd, ForwardTypes, ForwardFlow, Buffers
<1>5. /\ R \subseteq Nat \X Nat /\ IsFiniteSet(R) /\ Cardinality(R) = Len(batch)
      /\ \A r \in R : \E i \in DOMAIN batch : r[1] = batch[i]
      /\ \A i \in DOMAIN batch : \E r \in R : r[1] = batch[i]
      /\ \A r, s \in R : r[1] = s[1] => r = s
    <2>1. PICK k : k = store.seq
        BY Zenon
    <2>2. OnePerEvent(Records(batch, k), batch)
        BY <1>2, <1>4, <2>1, RecordsOf, Zenon
    <2>3. R = Records(batch, k)
        BY <2>1, Zenon DEF Records
    <2> HIDE DEF R
    <2> QED
        BY <2>2, <2>3, Zenon DEF OnePerEvent
<1>6. \A i \in DOMAIN batch : batch[i] \in Nat /\ batch[i] <= f
    BY <1>4 DEF Between
<1>7. /\ store'.events = E \cup R /\ store'.seq = store.seq + Len(batch)
      /\ store'.count = store.count + Len(batch) /\ store'.last = l
    BY <1>3, Zenon
<1>8. l \in {store.last} \cup Range(batch) /\ store.last <= l /\ \A i \in DOMAIN batch : batch[i] <= l
    <2> DEFINE S == {store.last} \cup Range(batch)
    <2>1. l = Max(S)
        BY Zenon DEF LastSeen
    <2>2. Range(batch) \subseteq 0..f /\ \A i \in DOMAIN batch : batch[i] \in Range(batch)
        BY <1>2, <1>6 DEF Range
    <2> DEFINE n == store.last + f
    <2>3. n \in Nat /\ S \in SUBSET Nat /\ (\A s \in S : s <= n) /\ S # {}
        BY <1>2, <1>4, <2>2
    <2>4. store.last \in S /\ \A i \in DOMAIN batch : batch[i] \in S
        BY <2>2, Zenon
    <2> HIDE DEF S, n, l
    <2>5. Max(S) \in S /\ \A s \in S : s <= Max(S)
        BY <2>3, MaxIs, Zenon
    <2> QED
        BY <2>1, <2>4, <2>5, Zenon DEF S
<1>9. l \in Nat
    BY <1>4, <1>6, <1>8, Zenon DEF Range
<1>10. Len(batch) \in Nat
    BY <1>4
<1> HIDE DEF R, l, E
<1>11. ASSUME NEW r \in E, NEW s \in R PROVE r[1] # s[1]
    <2>1. PICK i \in DOMAIN batch : s[1] = batch[i]
        BY <1>5, <1>11, Zenon
    <2>2. r[1] # batch[i]
        BY <1>3, <1>4, <1>11, Zenon DEF Apart, E
    <2> QED
        BY <2>1, <2>2, Zenon
<1>12. ForwardTypes'
    BY <1>3, <1>4, <1>5, <1>7, <1>9, <1>10 DEF ForwardTypes
<1>13. ForwardRoom' /\ Pending' = Pending
    BY <1>3, <1>4, Zenon DEF ForwardRoom, Pending
<1>14. Apart'
    <2>1. ASSUME NEW b \in late', NEW i \in DOMAIN b, NEW r \in E \cup R PROVE r[1] # b[i]
        BY <1>3, <1>4, <1>5, <2>1 DEF Apart, E
    <2>2. \A b1, b2 \in late' : b1 # b2 => \A i \in DOMAIN b1, j \in DOMAIN b2 : b1[i] # b2[j]
        BY <1>3, <1>4, Zenon DEF Apart
    <2> QED
        BY <1>7, <2>1, <2>2, Zenon DEF Apart
<1>15. ForwardFlow(f, g, c)'
    <2>1. \A r \in E \cup R : r[1] <= f
        BY <1>4, <1>5, <1>6, Zenon
    <2>2. \A b \in late' : Between(b, 0, f)
        BY <1>1, <1>3, Zenon DEF ForwardFlow
    <2> QED
        BY <1>1, <1>3, <1>7, <1>13, <2>1, <2>2, Zenon DEF ForwardFlow
<1>16. ForwardInd'
    BY <1>12, <1>13, <1>14, <1>15, Zenon DEF ForwardInd
<1>17. \A r, s \in E \cup R : r[1] = s[1] => r = s
    <2>1. \A r, s \in E : r[1] = s[1] => r = s
        BY Zenon DEF StoreInd, AtMostOnce, E
    <2> QED
        BY <1>5, <1>11, <2>1, Zenon
<1>18. IsFiniteSet(E \cup R) /\ Cardinality(E \cup R) = store.count + Len(batch)
    <2>1. IsFiniteSet(E) /\ store.count = Cardinality(E)
        BY Zenon DEF StoreInd, E
    <2>2. E \cap R = {}
        BY <1>11, Zenon
    <2>3. /\ IsFiniteSet(E \cup R)
          /\ Cardinality(E \cup R) = Cardinality(E) + Cardinality(R) - Cardinality(E \cap R)
        BY <1>5, <2>1, FS_Union, Zenon
    <2>4. Cardinality(E \cap R) = 0
        BY <2>2, FS_EmptySet, Zenon
    <2> QED
        BY <1>4, <1>5, <1>10, <2>1, <2>3, <2>4
<1>19. l \in {0} \cup Times(E \cup R)
    <2>1. CASE l = store.last
        BY <2>1, Zenon DEF StoreInd, Times, E
    <2>2. CASE l \in Range(batch)
        <3>1. PICK i \in DOMAIN batch : l = batch[i]
            BY <2>2, Zenon DEF Range
        <3>2. PICK r \in R : r[1] = l
            BY <1>5, <3>1, Zenon
        <3> QED
            BY <3>2, Zenon DEF Times
    <2> QED
        BY <1>8, <2>1, <2>2, Zenon
<1>20. \A r \in E \cup R : r[1] <= l
    <2>1. ASSUME NEW r \in E PROVE r[1] <= l
        <3>1. r[1] <= store.last /\ r[1] \in Nat
            BY <1>4, <2>1, Zenon DEF StoreInd, E
        <3> QED
            BY <1>4, <1>8, <1>9, <3>1
    <2>2. ASSUME NEW r \in R PROVE r[1] <= l
        BY <1>5, <1>8, <2>2, Zenon
    <2> QED
        BY <2>1, <2>2, Zenon
<1>21. StoreInd'
    BY <1>7, <1>17, <1>18, <1>19, <1>20, Zenon DEF StoreInd, AtMostOnce
<1> QED
    BY <1>16, <1>21, Zenon

(* A batch that is never stored.                                           *)
LEMMA LossKeeps ==
    ASSUME ForwardInd, StoreInd, IngestLost
    PROVE  ForwardInd' /\ StoreInd'
<1>1. PICK f, g, c : ForwardFlow(f, g, c)
    BY Zenon DEF ForwardInd
<1>2. PICK batch \in late : late' = late \ {batch} /\ UNCHANGED <<emitted, queue, fwd, store>>
    BY Zenon DEF IngestLost, exporterKept, exportVars
<1>3. late' \subseteq late
    BY <1>2, Zenon
<1>4. ForwardFlow(f, g, c)'
    BY <1>1, <1>2, <1>3, Zenon DEF ForwardFlow, Pending
<1>5. ForwardTypes' /\ ForwardRoom' /\ Apart'
    BY <1>2, <1>3, Zenon DEF ForwardInd, ForwardTypes, ForwardRoom, Apart
<1>6. StoreInd'
    BY <1>2, Zenon DEF StoreInd, AtMostOnce
<1> QED
    BY <1>4, <1>5, <1>6, Zenon DEF ForwardInd

(* Retention: the entry follows the records that are left.                 *)
LEMMA PruneKeeps ==
    ASSUME ForwardInd, StoreInd, emitted \in Nat, Prune
    PROVE  ForwardInd' /\ StoreInd'
<1>1. PICK f, g, c : ForwardFlow(f, g, c)
    BY Zenon DEF ForwardInd
<1>2. PICK cutoff \in 2..emitted + 1 :
          LET kept == {r \in store.events : r[1] >= cutoff}
              n == Cardinality(store.events \ kept)
              entry == IF n = 0 THEN [count |-> store.count, last |-> store.last]
                                ELSE decrementSources(store, n)
          IN  store' = [events |-> kept, seq |-> store.seq, count |-> entry.count, last |-> entry.last]
    BY Zenon DEF Prune
<1> DEFINE E == store.events
           K == {r \in E : r[1] >= cutoff}
           n == Cardinality(E \ K)
           entry == IF n = 0 THEN [count |-> store.count, last |-> store.last]
                             ELSE decrementSources(store, n)
<1>3. UNCHANGED <<emitted, queue, fwd, late>>
    BY Zenon DEF Prune, exporterKept, exportVars
<1>4. /\ E \subseteq Nat \X Nat /\ store.seq \in Nat /\ store.count \in Nat /\ store.last \in Nat
      /\ IsFiniteSet(E) /\ store.count = Cardinality(E)
    BY Zenon DEF ForwardInd, ForwardTypes, StoreInd
<1>5. /\ store'.events = K /\ store'.seq = store.seq
      /\ store'.count = entry.count /\ store'.last = entry.last
    BY <1>2, Zenon
<1>6. K \subseteq E /\ cutoff \in Nat /\ cutoff > 0 /\ \A r \in E : r \in K <=> r[1] >= cutoff
    BY <1>2
<1> HIDE DEF K, E
<1>7. /\ IsFiniteSet(K) /\ Cardinality(K) \in Nat /\ IsFiniteSet(E \ K) /\ n \in Nat
      /\ n = Cardinality(E) - Cardinality(K)
    <2>1. E \cap K = K
        BY <1>6, Zenon
    <2>2. IsFiniteSet(K) /\ IsFiniteSet(E \ K) /\ n = Cardinality(E) - Cardinality(E \cap K)
        BY Zenon, <1>4, <1>6, FS_Subset, FS_Difference
    <2>3. Cardinality(K) \in Nat /\ n \in Nat
        BY <2>2, FS_CardinalityType, Zenon
    <2> QED
        BY Zenon, <2>1, <2>2, <2>3
<1>8. n = 0 => K = E
    <2>1. n = 0 => E \ K = {}
        BY <1>7, FS_EmptySet, Zenon
    <2> QED
        BY <1>6, <2>1, Zenon
<1>9. Cardinality(K) = 0 <=> K = {}
    BY <1>7, FS_EmptySet, Zenon
<1> HIDE DEF n
<1>10. entry.count = Cardinality(K) /\ (entry.last = store.last \/ (entry.last = 0 /\ K = {})) /\ (K = {} => entry.last = 0)
    <2>1. CASE n = 0
        <3>1. entry.count = store.count /\ entry.last = store.last
            BY <2>1, Zenon
        <3>2. E = {} => store.last = 0
            BY Zenon DEF StoreInd, Times, E
        <3> QED
            BY <1>4, <1>8, <2>1, <3>1, <3>2, Zenon
    <2>2. CASE n # 0 /\ store.count - n <= 0
        <3>1. entry.count = 0 /\ entry.last = 0
            BY <2>2, Zenon DEF decrementSources
        <3>2. Cardinality(K) = 0
            BY <1>4, <1>7, <2>2
        <3> QED
            BY <1>9, <3>1, <3>2, Zenon
    <2>3. CASE n # 0 /\ ~(store.count - n <= 0)
        <3>1. entry.count = store.count - n /\ entry.last = store.last
            BY <2>3, Zenon DEF decrementSources
        <3>2. Cardinality(K) # 0
            BY <1>4, <1>7, <2>3
        <3> QED
            BY <1>4, <1>7, <1>9, <3>1, <3>2
    <2> QED
        BY <2>1, <2>2, <2>3, Zenon
<1> HIDE DEF entry
<1>11. ForwardTypes' /\ ForwardRoom' /\ Apart'
    <2>1. ForwardTypes'
        BY <1>3, <1>4, <1>5, <1>6, <1>7, <1>10 DEF ForwardInd, ForwardTypes
    <2>2. ForwardRoom'
        BY <1>3, Zenon DEF ForwardInd, ForwardRoom
    <2>3. Apart'
        BY <1>3, <1>5, <1>6, Zenon DEF ForwardInd, Apart, E
    <2> QED
        BY <2>1, <2>2, <2>3, Zenon
<1>12. ForwardFlow(f, g, c)'
    BY <1>1, <1>3, <1>5, <1>6, Zenon DEF ForwardFlow, Pending, E
<1>13. AtMostOnce'
    BY <1>5, <1>6, Zenon DEF StoreInd, AtMostOnce, E
<1>14. ASSUME K # {}
       PROVE  store.last \in Times(K) /\ \A r \in K : r[1] <= store.last
    <2>1. PICK r \in K : TRUE
        BY <1>14, Zenon
    <2>2. \A s \in K : s \in E /\ s[1] <= store.last /\ s[1] \in Nat /\ s[1] >= cutoff
        BY <1>4, <1>6, Zenon DEF StoreInd, E
    <2>3. store.last # 0 /\ store.last >= cutoff
        BY <1>4, <1>6, <2>1, <2>2
    <2>4. PICK s \in E : s[1] = store.last
        BY <2>3, Zenon DEF StoreInd, Times, E
    <2>5. s \in K
        BY <1>6, <2>3, <2>4, Zenon
    <2> QED
        BY <2>2, <2>4, <2>5, Zenon DEF Times
<1>15. store'.last \in {0} \cup Times(store'.events) /\ \A r \in store'.events : r[1] <= store'.last
    BY <1>5, <1>10, <1>14, Zenon
<1>16. StoreInd'
    BY <1>5, <1>7, <1>10, <1>13, <1>15, Zenon DEF StoreInd
<1> QED
    BY <1>11, <1>12, <1>16, Zenon DEF ForwardInd

(* Every step of the exporter, the forwarder and the aggregator.           *)
LEMMA ForwardStep == TInd /\ ForwardInd /\ StoreInd /\ [TNext]_tvars => ForwardInd' /\ StoreInd'
<1> SUFFICES ASSUME TInd, ForwardInd, StoreInd, [TNext]_tvars PROVE ForwardInd' /\ StoreInd'
    BY Zenon
<1>0. emitted \in Nat /\ queue \in Buffers /\ queue \in Seq(Nat) /\ ForwardCap \in Nat /\ QueueCap \in Nat
    BY TelemetryAssumption, Zenon DEF TInd, QueueTypes, Buffers
<1>1. ASSUME UNCHANGED <<emitted, queue, fwd, late, store>> PROVE ForwardInd' /\ StoreInd'
    BY <1>1, ForwardSame, Zenon DEF StoreInd, AtMostOnce
<1>2. ASSUME store' = store PROVE StoreInd'
    BY <1>2, Zenon DEF StoreInd, AtMostOnce
<1>3. PICK f, g, c : ForwardFlow(f, g, c)
    BY Zenon DEF ForwardInd
<1>4. /\ f \in Nat /\ g \in Nat /\ c \in Nat /\ f <= g /\ g <= c /\ c <= emitted
      /\ Between(fwd.queue, g, c) /\ Between(queue, c, emitted)
      /\ fwd \in Forwarders /\ fwd.queue \in Seq(Nat) /\ Len(fwd.queue) <= ForwardCap
    BY <1>3, Zenon DEF ForwardFlow, ForwardInd, ForwardTypes, ForwardRoom, Forwarders, Buffers
<1>5. CASE enqueue
    <2>1. emitted' = emitted + 1
        BY <1>5, Zenon DEF enqueue
    <2>2. CASE Died
        <3>1. emitted' \in Nat /\ emitted <= emitted' /\ store' = store
            BY <1>0, <2>1, <2>2 DEF Died
        <3> QED
            BY <1>0, <1>2, <2>2, <3>1, ForwardDeath, Zenon
    <2>3. CASE queue' = Offer(queue, QueueCap, emitted + 1) /\ UNCHANGED forwardVars
        <3> DEFINE e == emitted + 1
        <3>1. e \in Nat /\ emitted < e /\ emitted' = e
            BY <1>0, <2>1
        <3> HIDE DEF e
        <3>2. Between(queue', c, e)
            <4>1. CASE Len(queue) < QueueCap
                <5>1. queue' = Append(queue, e)
                    BY <2>3, <4>1, Zenon DEF Offer, e
                <5> QED
                    BY <1>0, <1>4, <3>1, <5>1, BetweenAppend, Zenon
            <4>2. CASE ~(Len(queue) < QueueCap)
                <5>1. queue' = queue /\ emitted <= e /\ c <= c
                    BY <1>0, <1>4, <2>3, <3>1, <4>2 DEF Offer
                <5> QED
                    BY <1>0, <1>4, <3>1, <5>1, BetweenWiden, Zenon
            <4> QED
                BY <4>1, <4>2, Zenon
        <3>3. ForwardFlow(f, g, c)'
            BY <1>0, <1>3, <1>4, <2>3, <3>1, <3>2 DEF ForwardFlow, Pending, forwardVars
        <3>4. ForwardTypes' /\ ForwardRoom' /\ Apart' /\ store' = store
            BY <2>3, Zenon DEF ForwardInd, ForwardTypes, ForwardRoom, Apart, forwardVars
        <3> QED
            BY <1>2, <3>3, <3>4, Zenon DEF ForwardInd
    <2> QED
        BY <1>5, <2>2, <2>3, Zenon DEF enqueue
<1>6. CASE fanout
    <2> DEFINE rest == Tail(queue)
    <2>0. PICK e : e = Head(queue)
        BY Zenon
    <2>1. queue # <<>> /\ queue' = rest /\ fwd' = Send(fwd, e) /\ UNCHANGED <<emitted, late, store>>
        BY <1>6, <2>0, Zenon DEF fanout
    <2>2. e \in Nat /\ c < e /\ e <= emitted /\ Between(rest, e, emitted)
        BY <1>0, <1>4, <2>0, <2>1, BetweenTail, Zenon
    <2> HIDE DEF rest
    <2> DEFINE q == Offer(fwd.queue, ForwardCap, e)
    <2>3. q \in Buffers /\ Between(q, g, e) /\ Len(q) <= ForwardCap
        BY <1>0, <1>4, <2>2, BetweenOffer, Zenon DEF Buffers
    <2>4. Between(fwd.queue, g, e)
        <3>1. g <= g /\ c <= e
            BY <1>4, <2>2
        <3> QED
            BY <1>4, <2>2, <3>1, BetweenWiden, Zenon
    <2>5. fwd' = [fwd EXCEPT !.queue = q] \/ fwd' = fwd
        BY <1>4, <2>1, Zenon DEF Send, Forwarders
    <2> HIDE DEF q
    <2>6. /\ fwd' \in Forwarders /\ fwd'.batch = fwd.batch /\ fwd'.sending = fwd.sending
          /\ fwd'.queue = q \/ fwd'.queue = fwd.queue
        BY <1>4, <2>3, <2>5, Zenon DEF Forwarders
    <2>7. Between(fwd'.queue, g, e) /\ Len(fwd'.queue) <= ForwardCap
        BY <1>4, <2>3, <2>4, <2>6, Zenon
    <2>8. Pending' = Pending
        BY <2>6, Zenon DEF Pending
    <2>9. ForwardFlow(f, g, e)'
        BY <1>0, <1>3, <1>4, <2>1, <2>2, <2>7, <2>8 DEF ForwardFlow
    <2>10. ForwardTypes' /\ ForwardRoom' /\ Apart'
        BY <2>1, <2>6, <2>7, Zenon DEF ForwardInd, ForwardTypes, ForwardRoom, Apart
    <2> QED
        BY <1>2, <2>1, <2>9, <2>10, Zenon DEF ForwardInd
<1>7. CASE walLoop \/ Connect \/ Deliver \/ unsubscribe \/ Recent \/ RecentReturns \/ CloseStep \/ walClose
    <2>1. UNCHANGED <<emitted, queue, fwd, late, store>>
        BY <1>7, Zenon DEF walLoop, Connect, Deliver, unsubscribe, Recent, RecentReturns, CloseStep, walClose, forwardVars
    <2> QED
        BY <1>1, <2>1, Zenon
<1>8. CASE Exit \/ Crash
    <2>1. Died /\ emitted' = emitted /\ store' = store
        BY <1>8, Zenon DEF Exit, Crash, Died
    <2> QED
        BY <1>0, <1>2, <2>1, ForwardDeath
<1>9. CASE Restart
    <2> DEFINE cl == May("forward")
    <2>1. fwd' = [fwd EXCEPT !.client = cl, !.done = FALSE] /\ UNCHANGED <<emitted, queue, late, store>>
        BY <1>9, Zenon DEF Restart
    <2>2. cl \in Flags /\ FALSE \in Flags
        BY DEF May, Flags
    <2> HIDE DEF cl
    <2>3. fwd' \in Forwarders /\ fwd'.queue = fwd.queue /\ fwd'.batch = fwd.batch /\ fwd'.sending = fwd.sending
        BY <1>4, <2>1, <2>2, Zenon DEF Forwarders
    <2>4. Pending' = Pending
        BY <2>3, Zenon DEF Pending
    <2>5. ForwardFlow(f, g, c)'
        BY <1>3, <2>1, <2>3, <2>4, Zenon DEF ForwardFlow
    <2>6. ForwardTypes' /\ ForwardRoom' /\ Apart'
        BY <2>1, <2>3, Zenon DEF ForwardInd, ForwardTypes, ForwardRoom, Apart
    <2> QED
        BY <1>2, <2>1, <2>5, <2>6, Zenon DEF ForwardInd
<1>10. CASE Gather \/ Tick \/ SendReturns \/ ForwarderStops \/ SetTarget
    <2>1. store' = store
        BY <1>10, Zenon DEF Gather, Tick, SendReturns, ForwarderStops, SetTarget
    <2> QED
        BY <1>0, <1>2, <1>10, <2>1, ForwardLoop, Zenon
<1>11. CASE Ingest \/ IngestLost \/ Prune
    BY <1>0, <1>11, IngestKeeps, LossKeeps, PruneKeeps, Zenon
<1>12. CASE UNCHANGED tvars
    BY <1>1, <1>12, Zenon DEF tvars, exportVars, forwardVars
<1> QED
    BY <1>5, <1>6, <1>7, <1>8, <1>9, <1>10, <1>11, <1>12, Zenon DEF TNext

(* Nothing is stored at the start.                                         *)
LEMMA StoreInit == TInit => StoreInd
<1> SUFFICES ASSUME TInit PROVE StoreInd
    BY Zenon
<1>1. store.events = {} /\ store.count = 0 /\ store.last = 0
    BY Zenon DEF TInit
<1> QED
    BY <1>1, FS_EmptySet, Zenon DEF StoreInd, AtMostOnce

(* The invariants of the way to the aggregator.                            *)
THEOREM ForwardIndAlways == TSpec => [](TInd /\ ForwardInd /\ StoreInd)
<1>1. TInit => TInd /\ ForwardInd /\ StoreInd
    BY TIndInit, ForwardInit, StoreInit, Zenon
<1>2. (TInd /\ ForwardInd /\ StoreInd) /\ [TNext]_tvars => (TInd /\ ForwardInd /\ StoreInd)'
    BY TIndNext, ForwardStep, Zenon
<1> QED
    BY <1>1, <1>2, PTL DEF TSpec

(* No event is stored twice, however many batches are late, whatever       *)
(* times out, and over any crashes and restarts: a batch leaves the loop   *)
(* when its call begins and is never kept for another                      *)
(* (internal/forward/forwarder.go, internal/aggregator/bolt.go).     *)
THEOREM AtMostOnceAlways == TSpec => []AtMostOnce
<1>1. StoreInd => AtMostOnce
    BY Zenon DEF StoreInd
<1> QED
    BY <1>1, ForwardIndAlways, PTL

(* After every Put and every Prune the source's count is the number of its *)
(* records and its last-seen time that of the newest one, or zero: the two *)
(* are kept apart from the records, in the same transactions               *)
(* (internal/aggregator/bolt.go).                                    *)
THEOREM SourcesAgreeAlways == TSpec => []SourcesAgree
<1>1. ForwardInd /\ StoreInd => SourcesAgree
    <2> SUFFICES ASSUME ForwardInd, StoreInd PROVE store.last = Max({0} \cup Times(store.events))
        BY Zenon DEF StoreInd, SourcesAgree
    <2> DEFINE S == {0} \cup Times(store.events)
    <2>1. \A s \in S : s \in Nat /\ s <= store.last
        BY DEF ForwardInd, ForwardTypes, StoreInd, Times
    <2>2. S \in SUBSET Nat /\ store.last \in S
        BY <2>1, Zenon DEF StoreInd
    <2> HIDE DEF S
    <2>3. store.last = Max(S)
        BY Zenon, <2>1, <2>2, MaxUnique
    <2> QED
        BY <2>3, Zenon DEF S
<1> QED
    BY <1>1, ForwardIndAlways, PTL
-----------------------------------------------------------------------------
(* The replay ring: the k-th newest event is k places before the next one. *)
Back(next, k) == IF k <= next THEN next - k ELSE next - k + RingCap

RingInd ==
    /\ fanned \in Seq(Nat)
    /\ ring.next \in 0..(RingCap - 1) /\ DOMAIN ring.buf = 0..(RingCap - 1)
    /\ ring.count = IF Len(fanned) < RingCap THEN Len(fanned) ELSE RingCap
    /\ \A k \in 1..ring.count : ring.buf[Back(ring.next, k)] = fanned[Len(fanned) - k + 1]

(* Remainders of what the ring computes with.                              *)
LEMMA Remainder ==
    ASSUME NEW r \in Nat \ {0}, NEW a \in 0..(r - 1)
    PROVE  a % r = a /\ (a + r) % r = a /\ (a + r + r) % r = a
<1>1. a % r = a
    OBVIOUS
<1>2. (a + r) % r = a
    OBVIOUS
<1>3. (a + r + r) % r = a
    OBVIOUS
<1> QED
    BY <1>1, <1>2, <1>3, Zenon

PlacesMove(r, t) ==
    /\ t \in 0..(RingCap - 1) /\ Back(t, 1) = r
    /\ \A k \in 1..(RingCap - 1) : Back(t, k + 1) = Back(r, k) /\ Back(r, k) # r
    /\ \A k \in 1..RingCap : Back(r, k) \in 0..(RingCap - 1)

(* Places of the ring before and after a push.                             *)
LEMMA BackMoves ==
    ASSUME NEW r \in 0..(RingCap - 1), NEW t, t = (r + 1) % RingCap
    PROVE  PlacesMove(r, t)
<1>1. RingCap \in Nat \ {0}
    BY TelemetryAssumption, Zenon
<1>2. t = IF r + 1 < RingCap THEN r + 1 ELSE 0
    <2>1. CASE r + 1 < RingCap
        BY <1>1, <2>1, Remainder
    <2>2. CASE ~(r + 1 < RingCap)
        <3>1. r + 1 = 0 + RingCap /\ 0 \in 0..(RingCap - 1)
            BY <1>1, <2>2
        <3>2. (0 + RingCap) % RingCap = 0
            BY <1>1, <3>1, Remainder, Zenon
        <3> QED
            BY <2>2, <3>1, <3>2, Zenon
    <2> QED
        BY <2>1, <2>2, Zenon
<1>3. t \in 0..(RingCap - 1) /\ Back(t, 1) = r
    BY <1>1, <1>2 DEF Back
<1>4. \A k \in 1..(RingCap - 1) : Back(t, k + 1) = Back(r, k) /\ Back(r, k) # r
    BY <1>1, <1>2 DEF Back
<1>5. \A k \in 1..RingCap : Back(r, k) \in 0..(RingCap - 1)
    BY <1>1 DEF Back
<1> QED
    BY <1>3, <1>4, <1>5, Zenon DEF PlacesMove

(* Where snapshot looks for the i-th of the newest n of c events.          *)
Looks(r, c, n, i) ==
    LET o == (r - c + RingCap) % RingCap
        s == (o + (c - n) + RingCap) % RingCap
    IN  (s + i - 1) % RingCap = Back(r, n - i + 1) /\ n - i + 1 \in 1..n

\* The index arithmetic of snapshot, for every size of ring.
LEMMA SnapshotPlace ==
    ASSUME NEW r \in 0..(RingCap - 1), NEW c \in 0..RingCap, NEW n \in 0..c, NEW i \in 1..n
    PROVE  Looks(r, c, n, i)
<1>0. PICK o, s : o = (r - c + RingCap) % RingCap /\ s = (o + (c - n) + RingCap) % RingCap
    BY Zenon
<1> DEFINE R == RingCap
<1>1. R \in Nat \ {0}
    BY TelemetryAssumption, Zenon
<1>2. \A a \in 0..(R - 1) : a % R = a /\ (a + R) % R = a /\ (a + R + R) % R = a
    BY <1>1, Remainder, Zenon
<1> HIDE DEF R
<1>3. o = IF c <= r THEN r - c ELSE r - c + R
    <2>1. CASE c <= r
        <3>1. r - c \in 0..(R - 1) /\ r - c + R = (r - c) + R
            BY <1>1, <2>1 DEF R
        <3> QED
            BY <1>0, <1>2, <2>1, <3>1, Zenon DEF R
    <2>2. CASE ~(c <= r)
        <3>1. r - c + R \in 0..(R - 1)
            BY <1>1, <2>2 DEF R
        <3> QED
            BY <1>0, <1>2, <2>2, <3>1, Zenon DEF R
    <2> QED
        BY <2>1, <2>2, Zenon
<1>4. s = IF n <= r THEN r - n ELSE r - n + R
    <2> DEFINE a == IF n <= r THEN r - n ELSE r - n + R
    <2>1. a \in 0..(R - 1)
        BY <1>1 DEF R
    <2>2. o + (c - n) + R = a \/ o + (c - n) + R = a + R \/ o + (c - n) + R = a + R + R
        <3>2. c <= r => n <= r
            OBVIOUS
        <3>3. \/ o = r - c + R /\ a = r - n + R
              \/ o = r - c + R /\ a = r - n
              \/ o = r - c /\ a = r - n
            BY <1>3, <3>2, Zenon
        <3>4. r \in Int /\ c \in Int /\ n \in Int /\ R \in Int
            BY <1>1
        <3> HIDE DEF a
        <3> QED
            BY <3>3, <3>4
    <2> HIDE DEF a
    <2>3. s = (o + (c - n) + R) % R
        BY <1>0, Zenon DEF R
    <2>4. s = a
        BY <1>2, <2>1, <2>2, <2>3, Zenon
    <2> QED
        BY <2>4, Zenon DEF a
<1>5. (s + i - 1) % R = Back(r, n - i + 1)
    <2> DEFINE a == Back(r, n - i + 1)
    <2>1. a \in 0..(R - 1)
        BY <1>1 DEF R, Back
    <2>2. s + i - 1 \in {a, a + R}
        BY <1>1, <1>4 DEF R, Back
    <2> HIDE DEF a
    <2>3. (s + i - 1) % R = a
        BY <1>2, <2>1, <2>2, Zenon
    <2> QED
        BY <2>3, Zenon DEF a
<1> QED
    BY <1>0, <1>5 DEF R, Looks

(* The ring starts empty, and a process death empties it.                  *)
LEMMA RingEmpty ==
    ASSUME NEW b, NEW h, b = newRing, h = <<>>
    PROVE  /\ h \in Seq(Nat)
           /\ b.next \in 0..(RingCap - 1) /\ DOMAIN b.buf = 0..(RingCap - 1)
           /\ b.count = IF Len(h) < RingCap THEN Len(h) ELSE RingCap
           /\ b.count = 0
<1>1. RingCap \in Nat \ {0} /\ Len(<<>>) = 0
    BY TelemetryAssumption, Zenon
<1>2. b.next = 0 /\ b.count = 0 /\ DOMAIN b.buf = 0..(RingCap - 1)
    BY Zenon DEF newRing
<1> QED
    BY <1>1, <1>2

(* A push.                                                                 *)
LEMMA RingPush ==
    ASSUME RingInd, NEW e \in Nat, ring' = push(ring, e), fanned' = Append(fanned, e)
    PROVE  RingInd'
<1> DEFINE R == RingCap
           m == Len(fanned)
<1>1. R \in Nat \ {0} /\ fanned \in Seq(Nat) /\ m \in Nat
    BY TelemetryAssumption DEF RingInd
<1>2. /\ ring.next \in 0..(R - 1) /\ DOMAIN ring.buf = 0..(R - 1)
      /\ ring.count = IF m < R THEN m ELSE R
      /\ \A k \in 1..ring.count : ring.buf[Back(ring.next, k)] = fanned[m - k + 1]
    BY Zenon DEF RingInd
<1>3. PICK r, t, b : r = ring.next /\ t = (r + 1) % RingCap /\ b = [ring.buf EXCEPT ![r] = e]
    BY Zenon
<1>4. ring'.next = t /\ ring'.buf = b /\ ring'.count = IF ring.count < R THEN ring.count + 1 ELSE ring.count
    BY <1>3, Zenon DEF push
<1>5. fanned' \in Seq(Nat) /\ Len(fanned') = m + 1 /\ fanned'[m + 1] = e /\ \A j \in 1..m : fanned'[j] = fanned[j]
    BY <1>1
<1>6. DOMAIN b = 0..(R - 1) /\ b[r] = e /\ \A p \in 0..(R - 1) : p # r => b[p] = ring.buf[p]
    BY Zenon, <1>2, <1>3
<1>7. r \in 0..(RingCap - 1)
    BY <1>2, <1>3, Zenon
<1>8. /\ t \in 0..(R - 1) /\ Back(t, 1) = r
      /\ \A k \in 1..(R - 1) : Back(t, k + 1) = Back(r, k) /\ Back(r, k) # r
      /\ \A k \in 1..R : Back(r, k) \in 0..(R - 1)
    <2>1. PlacesMove(r, t)
        BY <1>3, <1>7, BackMoves, Zenon
    <2> QED
        BY <2>1, Zenon DEF PlacesMove
<1>9. PICK c, h : c = ring.count /\ h = fanned'
    BY Zenon
<1> HIDE DEF R, m
<1>10. ring'.count = IF m + 1 < R THEN m + 1 ELSE R
    BY <1>1, <1>2, <1>4
<1>11. ASSUME NEW k \in 1..ring'.count PROVE b[Back(t, k)] = h[(m + 1) - k + 1]
    <2>1. CASE k = 1
        <3>1. (m + 1) - k + 1 = m + 1
            BY <1>1, <2>1
        <3> QED
            BY <1>5, <1>6, <1>8, <1>9, <2>1, <3>1, Zenon
    <2>2. CASE k # 1
        <3>1. PICK j : j = k - 1
            BY Zenon
        <3>2. j \in 1..(R - 1) /\ j \in 1..R /\ j \in 1..c /\ k = j + 1 /\ (m + 1) - k + 1 = m - j + 1 /\ m - j + 1 \in 1..m
            BY <1>1, <1>2, <1>9, <1>10, <1>11, <2>2, <3>1
        <3>3. b[Back(t, k)] = ring.buf[Back(r, j)]
            BY <1>6, <1>8, <3>2, Zenon
        <3>4. ring.buf[Back(r, j)] = fanned[m - j + 1]
            BY <1>2, <1>3, <1>9, <3>2, Zenon
        <3>5. h[m - j + 1] = fanned[m - j + 1]
            BY <1>5, <1>9, <3>2, Zenon
        <3> QED
            BY <3>2, <3>3, <3>4, <3>5, Zenon
    <2> QED
        BY <2>1, <2>2, Zenon
<1>12. DOMAIN ring'.buf = 0..(R - 1) /\ ring'.next \in 0..(R - 1)
    BY <1>4, <1>6, <1>8, Zenon
<1> QED
    BY <1>4, <1>5, <1>9, <1>10, <1>11, <1>12, Zenon DEF RingInd, R

(* Every step of the exporter, the forwarder and the aggregator.           *)
LEMMA RingStep == TInd /\ RingInd /\ [TNext]_tvars => RingInd'
<1> SUFFICES ASSUME TInd, RingInd, [TNext]_tvars PROVE RingInd'
    BY Zenon
<1>1. ASSUME UNCHANGED <<ring, fanned>> PROVE RingInd'
    BY <1>1, Zenon DEF RingInd
<1>2. ASSUME Died PROVE RingInd'
    <2>1. ring' = newRing /\ fanned' = <<>>
        BY <1>2, Zenon DEF Died
    <2> QED
        BY <2>1, RingEmpty DEF RingInd
<1>3. CASE enqueue
    BY <1>1, <1>2, <1>3, Zenon DEF enqueue
<1>4. CASE fanout
    <2>1. PICK e : e = Head(queue)
        BY Zenon
    <2>2. e \in Nat
        BY <1>4, <2>1 DEF fanout, TInd, QueueTypes, Buffers
    <2>3. ring' = push(ring, e) /\ fanned' = Append(fanned, e)
        BY <1>4, <2>1, Zenon DEF fanout
    <2> QED
        BY <2>2, <2>3, RingPush, Zenon
<1>5. CASE walLoop \/ Connect \/ Deliver \/ unsubscribe \/ Recent \/ RecentReturns \/ CloseStep \/ walClose \/ Restart
    BY <1>1, <1>5, Zenon DEF walLoop, Connect, Deliver, unsubscribe, Recent, RecentReturns, CloseStep, walClose, Restart
<1>6. CASE Exit \/ Crash
    BY <1>2, <1>6, Zenon DEF Exit, Crash
<1>7. CASE Gather \/ Tick \/ SendReturns \/ ForwarderStops \/ SetTarget \/ Ingest \/ IngestLost \/ Prune
    <2>1. UNCHANGED exporterKept
        BY <1>7, Zenon DEF Gather, Tick, SendReturns, ForwarderStops, SetTarget, Ingest, IngestLost, Prune
    <2> QED
        BY <1>1, <2>1, Zenon DEF exporterKept, exportVars
<1>8. CASE UNCHANGED tvars
    BY <1>1, <1>8, Zenon DEF tvars, exportVars
<1> QED
    BY <1>3, <1>4, <1>5, <1>6, <1>7, <1>8, Zenon DEF TNext

(* The invariants of the ring.                                             *)
THEOREM RingIndAlways == TSpec => [](TInd /\ RingInd)
<1>1. TInit => TInd /\ RingInd
    <2> SUFFICES ASSUME TInit PROVE RingInd
        BY TIndInit, Zenon
    <2>1. ring = newRing /\ fanned = <<>>
        BY Zenon DEF TInit
    <2>2. PICK b, h : b = ring /\ h = fanned
        BY Zenon
    <2>3. /\ h \in Seq(Nat)
          /\ b.next \in 0..(RingCap - 1) /\ DOMAIN b.buf = 0..(RingCap - 1)
          /\ b.count = IF Len(h) < RingCap THEN Len(h) ELSE RingCap
          /\ b.count = 0
        BY <2>1, <2>2, RingEmpty, Zenon
    <2>4. \A k \in 1..b.count : FALSE
        BY <2>3
    <2> QED
        BY <2>2, <2>3, <2>4, Zenon DEF RingInd
<1>2. (TInd /\ RingInd) /\ [TNext]_tvars => (TInd /\ RingInd)'
    BY TIndNext, RingStep, Zenon
<1> QED
    BY <1>1, <1>2, PTL DEF TSpec

(* A Recent call asks for a positive number of events.                     *)
Calls == [on : Flags, limit : Numbers, raced : Flags]

CallInd == recent \in Calls /\ (recent.on => recent.limit > 0)

(* The call's limit over every step.                                       *)
LEMMA CallStep == CallInd /\ [TNext]_tvars => CallInd'
<1> SUFFICES ASSUME CallInd, [TNext]_tvars PROVE CallInd'
    BY Zenon
<1>0. TRUE \in Flags /\ FALSE \in Flags /\ 0 \in Numbers /\ DefaultLimit \in Numbers /\ DefaultLimit > 0 /\ RingCap \in Nat
    BY TelemetryAssumption DEF Flags, Numbers
<1>1. ASSUME recent' = recent PROVE CallInd'
    BY <1>1, Zenon DEF CallInd
<1>2. ASSUME recent' = NoCall PROVE CallInd'
    BY <1>0, <1>2 DEF CallInd, Calls, NoCall
<1>3. CASE Recent
    <2>1. PICK limit \in 0..RingCap + 1 :
              recent' = [on |-> TRUE, limit |-> IF limit <= 0 THEN DefaultLimit ELSE limit, raced |-> FALSE]
        BY <1>3, Zenon DEF Recent
    <2>2. PICK n : n = IF limit <= 0 THEN DefaultLimit ELSE limit
        BY Zenon
    <2>3. n \in Numbers /\ n > 0
        BY <1>0, <2>2 DEF Numbers
    <2>4. recent' = [on |-> TRUE, limit |-> n, raced |-> FALSE]
        BY <2>1, <2>2, Zenon
    <2> QED
        BY <1>0, <2>3, <2>4, Zenon DEF CallInd, Calls
<1>4. CASE fanout
    <2>1. PICK f : f = recent.on
        BY Zenon
    <2>2. f \in Flags /\ recent' = [recent EXCEPT !.raced = f]
        BY <1>4, <2>1, Zenon DEF fanout, CallInd, Calls
    <2>3. recent' \in Calls /\ recent'.on = recent.on /\ recent'.limit = recent.limit
        BY <2>2, Zenon DEF CallInd, Calls
    <2> QED
        BY <2>3, Zenon DEF CallInd
<1>5. CASE enqueue \/ RecentReturns \/ Exit \/ Crash
    BY <1>1, <1>2, <1>5, Zenon DEF enqueue, RecentReturns, Exit, Crash, Died
<1>6. CASE walLoop \/ Connect \/ Deliver \/ unsubscribe \/ CloseStep \/ walClose \/ Restart
    BY <1>1, <1>6, Zenon DEF walLoop, Connect, Deliver, unsubscribe, CloseStep, walClose, Restart
<1>7. CASE Gather \/ Tick \/ SendReturns \/ ForwarderStops \/ SetTarget \/ Ingest \/ IngestLost \/ Prune
    <2>1. UNCHANGED exporterKept
        BY <1>7, Zenon DEF Gather, Tick, SendReturns, ForwarderStops, SetTarget, Ingest, IngestLost, Prune
    <2> QED
        BY <1>1, <2>1, Zenon DEF exporterKept, exportVars
<1>8. CASE UNCHANGED tvars
    BY <1>1, <1>8, Zenon DEF tvars, exportVars
<1> QED
    BY <1>3, <1>4, <1>5, <1>6, <1>7, <1>8, Zenon DEF TNext

(* A Recent's limit is positive in every state.                            *)
LEMMA CallIndAlways == TSpec => []CallInd
<1>1. TInit => CallInd
    BY DEF TInit, CallInd, Calls, NoCall, Flags, Numbers
<1> QED
    BY <1>1, CallStep, PTL DEF TSpec

(* For every capacity, limit and number of events, the answer of a Recent  *)
(* into which no push falls is the newest events fanned out in this run,   *)
(* oldest first, as many as were asked for, or defaultRecentLimit, and are *)
(* kept (internal/export/ring.go, internal/export/export.go:216-226,       *)
(* internal/export/grpc.go:63-76).                                         *)
THEOREM RingNewestAlways == TSpec => []RingNewest
<1>1. RingInd /\ CallInd => RingNewest
    <2> SUFFICES ASSUME RingInd, CallInd, recent.on PROVE RingNewest
        BY Zenon DEF RingNewest
    <2>12. PICK kept : kept = IF Len(fanned) < RingCap THEN Len(fanned) ELSE RingCap
        BY Zenon
    <2>13. PICK n : n = IF recent.limit < kept THEN recent.limit ELSE kept
        BY Zenon
    <2>0. PICK limit \in Nat : limit = recent.limit /\ limit > 0
        BY Zenon DEF CallInd, Calls, Numbers
    <2>1. PICK r, c, m, b : r = ring.next /\ c = ring.count /\ m = Len(fanned) /\ b = ring.buf
        BY Zenon
    <2>2. RingCap \in Nat \ {0} /\ m \in Nat /\ r \in 0..(RingCap - 1) /\ c \in 0..RingCap /\ c <= m
        <3>1. RingCap \in Nat \ {0} /\ fanned \in Seq(Nat) /\ r \in 0..(RingCap - 1)
            BY <2>1, TelemetryAssumption, Zenon DEF RingInd
        <3>2. m \in Nat
            BY <2>1, <3>1
        <3>3. c = IF m < RingCap THEN m ELSE RingCap
            BY <2>1, Zenon DEF RingInd
        <3> QED
            BY <3>1, <3>2, <3>3
    <2>11. c = kept
        BY <2>1, <2>12, Zenon DEF RingInd
    <2>3. n \in 0..c /\ n <= m
        BY <2>0, <2>2, <2>11, <2>13
    <2>14. n = IF limit > 0 /\ limit < c THEN limit ELSE c
        BY <2>0, <2>11, <2>13, Zenon
    <2>4. PICK o, s : o = (r - c + RingCap) % RingCap /\ s = (o + (c - n) + RingCap) % RingCap
        BY Zenon
    <2>5. snapshot(ring, limit) = [i \in 1..n |-> b[(s + i - 1) % RingCap]]
        BY <2>1, <2>4, <2>14, Zenon DEF snapshot
    <2>6. PICK new : new = Newest(fanned, n)
        BY Zenon
    <2>7. fanned \in Seq(Nat) /\ new = SubSeq(fanned, m - n + 1, m)
        BY <2>1, <2>6, Zenon DEF RingInd, Newest
    <2>8. new = [i \in 1..n |-> fanned[m - n + i]]
        <3>1. PICK a : a = m - n + 1
            BY Zenon
        <3>2. a \in 1..(m + 1) /\ m - a + 1 = n /\ \A i \in 1..n : a + i - 1 = m - n + i
            BY <2>2, <2>3, <3>1
        <3>3. /\ SubSeq(fanned, a, m) \in Seq(Nat) /\ Len(SubSeq(fanned, a, m)) = n
              /\ \A i \in 1..n : SubSeq(fanned, a, m)[i] = fanned[a + i - 1]
            <4>1. a \in Int /\ m \in Int /\ \A i \in a..m : fanned[i] \in Nat
                <5>1. \A i \in 1..Len(fanned) : fanned[i] \in Nat
                    BY <2>7
                <5>2. \A i \in a..m : i \in 1..m
                    BY <2>2, <3>2
                <5> QED
                    BY <2>1, <2>2, <3>2, <5>1, <5>2
            <4>2. /\ SubSeq(fanned, a, m) \in Seq(Nat)
                  /\ Len(SubSeq(fanned, a, m)) = IF a <= m THEN m - a + 1 ELSE 0
                  /\ \A i \in 1..(m - a + 1) : SubSeq(fanned, a, m)[i] = fanned[a + i - 1]
                BY <2>1, <2>2, <2>7, <3>2, <4>1
            <4>3. (IF a <= m THEN m - a + 1 ELSE 0) = n
                BY <2>2, <2>3, <3>2
            <4> QED
                BY <3>2, <4>2, <4>3, Zenon
        <3>4. new \in Seq(Nat) /\ Len(new) = n /\ \A i \in 1..n : new[i] = fanned[m - n + i]
            BY Zenon, <2>7, <3>1, <3>2, <3>3
        <3> QED
            BY <3>4
    <2>9. ASSUME NEW i \in 1..n PROVE b[(s + i - 1) % RingCap] = fanned[m - n + i]
        <3>1. (s + i - 1) % RingCap = Back(r, n - i + 1) /\ n - i + 1 \in 1..n
            <4>1. Looks(r, c, n, i)
                BY <2>2, <2>3, SnapshotPlace, Zenon
            <4> QED
                BY <2>4, <4>1, Zenon DEF Looks
        <3>2. PICK k : k = n - i + 1
            BY Zenon
        <3>3. k \in 1..c /\ m - k + 1 = m - n + i
            BY <2>2, <2>3, <3>1, <3>2
        <3>4. b[Back(r, k)] = fanned[m - k + 1]
            BY <2>1, <3>3, Zenon DEF RingInd
        <3> QED
            BY <3>1, <3>2, <3>3, <3>4, Zenon
    <2>10. [i \in 1..n |-> b[(s + i - 1) % RingCap]] = [i \in 1..n |-> fanned[m - n + i]]
        BY <2>9, Zenon
    <2> QED
        <3>1. snapshot(ring, recent.limit) = Newest(fanned, n)
            BY <2>0, <2>5, <2>6, <2>8, <2>10, Zenon
        <3> QED
            BY <2>12, <2>13, <3>1, Zenon DEF RingNewest
<1> QED
    BY <1>1, RingIndAlways, CallIndAlways, PTL
-----------------------------------------------------------------------------
(* What is left of the type invariant.                                     *)
Streams == [on : Flags, ch : Buffers]
Stages == {"down", "run", "stopping", "graceful", "draining", "flushing", "closed"}

TypeInd ==
    /\ setup \in Setups /\ emitted \in 0..EmitBound /\ stage \in Stages
    /\ sub \in Streams /\ Len(sub.ch) <= SubCap /\ (sub.ch # <<>> => sub.on)
    /\ mishap \subseteq {"blind", "stray"} /\ (Sighted => wal.written \in 0..RotateLines)

(* A write counts at most one line.                                        *)
LEMMA WriteCounts ==
    ASSUME NEW d, NEW w \in Writers, NEW e, Write(d, w, e) \/ WriteFault(d, w)
    PROVE  wal'.written = w.written \/ wal'.written = w.written + 1
<1>1. \A b : Took(w, b).written = w.written + 1
    BY Zenon DEF Took, Writers
<1>2. Failed(w).written = w.written
    BY Zenon DEF Failed, Writers
<1> QED
    BY <1>1, <1>2, Zenon DEF Write, WriteFault

(* A segment is rotated when it has RotateLines lines: a new one has none. *)
LEMMA WrittenStep ==
    ASSUME TInd, Sighted => wal.written \in 0..RotateLines, [TNext]_tvars
    PROVE  Sighted' => wal'.written \in 0..RotateLines
<1> SUFFICES ASSUME Sighted' PROVE wal'.written \in 0..RotateLines
    BY Zenon
<1>0. Sighted /\ wal.written \in 0..RotateLines /\ Behind(disk, wal)
    BY OnRecord, Zenon DEF Sighted, TInd
<1>1. RotateLines \in Nat \ {0} /\ wal \in Writers /\ wal.seq \in Nat
    BY TelemetryAssumption, Zenon DEF TInd, Writers, Numbers
<1>2. \A n : WriterAt(n).written = 0
    BY Zenon DEF WriterAt
<1>11. ASSUME NEW d, DOMAIN d = DOMAIN disk, NEW n \in Nat, wal.seq < n
       PROVE  openLocked(d, n) \in Writers /\ openLocked(d, n).written = 0
    <2>1. n \notin DOMAIN d
        BY <1>0, <1>1, <1>11 DEF Behind
    <2>2. openLocked(d, n) = [WriterAt(n) EXCEPT !.written = 0]
        BY <2>1, Zenon DEF openLocked
    <2>3. WriterAt(n) \in Writers /\ 0 \in Numbers
        BY DEF WriterAt, Writers, Buffers, Numbers
    <2> QED
        BY <2>2, <2>3, Zenon DEF Writers
<1>3. ASSUME Died PROVE wal'.written \in 0..RotateLines
    BY <1>1, <1>2, <1>3 DEF Died
<1>4. CASE walLoop
    <2>1. PICK e : AppendLine(e) \/ RotateAndAppend(e)
        BY <1>4, Zenon DEF walLoop
    <2>2. CASE AppendLine(e)
        <3>1. wal.written < RotateLines /\ (Write(disk, wal, e) \/ WriteFault(disk, wal))
            BY <2>2, Zenon DEF AppendLine
        <3>2. wal'.written = wal.written \/ wal'.written = wal.written + 1
            BY <1>1, <3>1, WriteCounts, Zenon
        <3> QED
            BY <1>0, <1>1, <3>1, <3>2
    <2>3. CASE RotateAndAppend(e)
        <3>1. DOMAIN Flush(disk) = DOMAIN disk /\ \A d \in FlushFault : DOMAIN d = DOMAIN disk
            BY <1>1, FlushSound, Zenon DEF TInd
        <3>2. ASSUME NEW d, d = Flush(disk) \/ d \in FlushFault
              PROVE  openLocked(d, wal.seq + 1) \in Writers /\ openLocked(d, wal.seq + 1).written = 0
            <4>1. wal.seq + 1 \in Nat /\ wal.seq < wal.seq + 1
                BY <1>1
            <4> QED
                BY <1>11, <3>1, <3>2, <4>1, Zenon
        <3>3. \/ \E g, d : /\ d = Flush(disk) \/ d \in FlushFault
                           /\ \/ Write(g, openLocked(d, wal.seq + 1), e)
                              \/ WriteFault(g, openLocked(d, wal.seq + 1))
              \/ wal' = [wal EXCEPT !.seq = @ + 1, !.buf = <<>>]
            BY <2>3, Zenon DEF RotateAndAppend
        <3>4. CASE wal' = [wal EXCEPT !.seq = @ + 1, !.buf = <<>>]
            BY <1>0, <1>1, <3>4, Zenon DEF Writers
        <3>5. ASSUME NEW g, NEW d, d = Flush(disk) \/ d \in FlushFault,
                     \/ Write(g, openLocked(d, wal.seq + 1), e)
                     \/ WriteFault(g, openLocked(d, wal.seq + 1))
              PROVE  wal'.written \in 0..RotateLines
            <4>1. PICK w : w = openLocked(d, wal.seq + 1)
                BY Zenon
            <4>2. w \in Writers /\ w.written = 0
                BY <3>2, <3>5, <4>1, Zenon
            <4>3. wal'.written = w.written \/ wal'.written = w.written + 1
                BY <3>5, <4>1, <4>2, WriteCounts, Zenon
            <4> QED
                BY <1>1, <4>2, <4>3
        <3> QED
            BY <3>3, <3>4, <3>5, Zenon
    <2> QED
        BY <2>1, <2>2, <2>3, Zenon
<1>5. CASE walClose
    BY <1>0, <1>1, <1>5, Zenon DEF walClose, Failed, Writers
<1>6. CASE Restart
    <2>1. PICK n : n = NextSeq(disk)
        BY Zenon
    <2>2. n \in Nat /\ n \notin DOMAIN disk
        <3>1. DOMAIN disk \subseteq 1..wal.seq
            BY <1>0, Zenon DEF Behind
        <3>2. n \in Nat \ {0} /\ \A m \in DOMAIN disk : m < n
            BY <1>1, <2>1, <3>1, NextIsNew, Zenon
        <3> QED
            BY <3>2
    <2>3. wal' = openLocked(disk, n)
        <3>1. "blind" \notin mishap'
            BY Zenon DEF Sighted
        <3> QED
            BY <1>6, <2>1, <3>1, Zenon DEF Restart, Reopened
    <2>4. wal'.written = 0
        BY <2>2, <2>3 DEF openLocked, WriterAt
    <2> QED
        BY <1>1, <2>4
<1>7. CASE Exit \/ Crash
    BY <1>3, <1>7, Zenon DEF Exit, Crash
<1>8. CASE enqueue \/ fanout \/ Connect \/ Deliver \/ unsubscribe \/ Recent \/ RecentReturns \/ CloseStep
    BY <1>0, <1>3, <1>8, Zenon DEF enqueue, fanout, Connect, Deliver, unsubscribe, Recent, RecentReturns, CloseStep, walVars
<1>9. CASE Gather \/ Tick \/ SendReturns \/ ForwarderStops \/ SetTarget \/ Ingest \/ IngestLost \/ Prune
    <2>1. UNCHANGED exporterKept
        BY <1>9, Zenon DEF Gather, Tick, SendReturns, ForwarderStops, SetTarget, Ingest, IngestLost, Prune
    <2> QED
        BY <1>0, <2>1, Zenon DEF exporterKept, walVars
<1>10. CASE UNCHANGED tvars
    BY <1>0, <1>10, Zenon DEF tvars, walVars
<1> QED
    BY <1>4, <1>5, <1>6, <1>7, <1>8, <1>9, <1>10, Zenon DEF TNext

(* A stream's channel over every step.                                     *)
LEMMA SubStep ==
    ASSUME TInd, sub \in Streams, Len(sub.ch) <= SubCap, sub.ch # <<>> => sub.on, [TNext]_tvars
    PROVE  sub' \in Streams /\ Len(sub'.ch) <= SubCap /\ (sub'.ch # <<>> => sub'.on)
<1>1. SubCap \in Nat \ {0} /\ Len(<<>>) = 0 /\ <<>> \in Buffers /\ TRUE \in Flags /\ FALSE \in Flags
    BY TelemetryAssumption DEF Buffers, Flags
<1>2. ASSUME NEW f \in Flags, sub' = [on |-> f, ch |-> <<>>]
      PROVE  sub' \in Streams /\ Len(sub'.ch) <= SubCap /\ (sub'.ch # <<>> => sub'.on)
    BY <1>1, <1>2 DEF Streams
<1>3. ASSUME NEW q \in Buffers, sub.on, sub' = [sub EXCEPT !.ch = q], Len(q) <= SubCap
      PROVE  sub' \in Streams /\ Len(sub'.ch) <= SubCap /\ (sub'.ch # <<>> => sub'.on)
    BY <1>3, Zenon DEF Streams
<1>4. ASSUME sub' = sub
      PROVE  sub' \in Streams /\ Len(sub'.ch) <= SubCap /\ (sub'.ch # <<>> => sub'.on)
    BY <1>4, Zenon
<1>5. sub.ch \in Seq(Nat)
    BY Zenon DEF Streams, Buffers
<1>6. CASE enqueue
    BY <1>1, <1>2, <1>4, <1>6, Zenon DEF enqueue, Died
<1>7. CASE fanout
    <2>1. PICK e : e = Head(queue)
        BY Zenon
    <2>2. e \in Nat
        BY <1>7, <2>1 DEF fanout, TInd, QueueTypes, Buffers
    <2>3. PICK q : q = Offer(sub.ch, SubCap, e)
        BY Zenon
    <2>4. q \in Buffers /\ Len(q) <= SubCap
        <3>1. CASE Len(sub.ch) < SubCap
            BY <1>1, <1>5, <2>2, <2>3, <3>1 DEF Offer, Buffers
        <3>2. CASE ~(Len(sub.ch) < SubCap)
            BY <1>5, <2>3, <3>2, Zenon DEF Offer, Buffers
        <3> QED
            BY <3>1, <3>2, Zenon
    <2>5. sub' = IF sub.on THEN [sub EXCEPT !.ch = q] ELSE sub
        BY <1>7, <2>1, <2>3, Zenon DEF fanout, Streams
    <2> QED
        BY <1>3, <1>4, <2>4, <2>5, Zenon
<1>8. CASE Deliver
    <2>1. PICK q : q = Tail(sub.ch)
        BY Zenon
    <2>2. sub.on /\ sub.ch # <<>> /\ sub' = [sub EXCEPT !.ch = q]
        BY <1>8, <2>1, Zenon DEF Deliver, Streams
    <2>3. q \in Buffers /\ Len(q) = Len(sub.ch) - 1 /\ Len(sub.ch) \in Nat
        BY <1>5, <2>1, <2>2 DEF Buffers
    <2>4. Len(q) <= SubCap
        BY <1>1, <2>3
    <2> QED
        BY <1>3, <2>2, <2>3, <2>4, Zenon
<1>9. CASE Connect \/ unsubscribe
    BY <1>1, <1>2, <1>9, Zenon DEF Connect, unsubscribe
<1>10. CASE Exit \/ Crash
    BY <1>1, <1>2, <1>10, Zenon DEF Exit, Crash, Died
<1>11. CASE walLoop \/ Recent \/ RecentReturns \/ CloseStep \/ walClose \/ Restart
    BY <1>4, <1>11, Zenon DEF walLoop, Recent, RecentReturns, CloseStep, walClose, Restart
<1>12. CASE Gather \/ Tick \/ SendReturns \/ ForwarderStops \/ SetTarget \/ Ingest \/ IngestLost \/ Prune
    <2>1. UNCHANGED exporterKept
        BY <1>12, Zenon DEF Gather, Tick, SendReturns, ForwarderStops, SetTarget, Ingest, IngestLost, Prune
    <2> QED
        BY <1>4, <2>1, Zenon DEF exporterKept, exportVars
<1>13. CASE UNCHANGED tvars
    BY <1>4, <1>13, Zenon DEF tvars, exportVars
<1> QED
    BY <1>6, <1>7, <1>8, <1>9, <1>10, <1>11, <1>12, <1>13, Zenon DEF TNext

(* The rest of the type invariant over every step.                         *)
LEMMA TypeStep == TInd /\ TypeInd /\ [TNext]_tvars => TypeInd'
<1> SUFFICES ASSUME TInd, TypeInd, [TNext]_tvars PROVE TypeInd'
    BY Zenon
<1>1. Sighted' => wal'.written \in 0..RotateLines
    BY WrittenStep, Zenon DEF TypeInd
<1>8. mishap' \subseteq {"blind", "stray"}
    BY OnRecord, Zenon DEF TypeInd
<1>2. sub' \in Streams /\ Len(sub'.ch) <= SubCap /\ (sub'.ch # <<>> => sub'.on)
    BY SubStep, Zenon DEF TypeInd
<1>3. setup' = setup
    BY Zenon DEF TNext, enqueue, fanout, walLoop, Connect, Deliver, unsubscribe, Recent, RecentReturns, CloseStep, walClose, Exit, Crash,
           Restart, Gather, Tick, SendReturns, ForwarderStops, SetTarget, Ingest, IngestLost, Prune,
           exporterKept, tvars
<1>4. emitted' = emitted \/ (emitted < EmitBound /\ emitted' = emitted + 1)
    BY Zenon DEF TNext, enqueue, fanout, walLoop, Connect, Deliver, unsubscribe, Recent, RecentReturns, CloseStep, walClose, Exit, Crash,
           Restart, Gather, Tick, SendReturns, ForwarderStops, SetTarget, Ingest, IngestLost, Prune,
           exporterKept, tvars
<1>5. stage' \in Stages
    <2>1. stage \in Stages
        BY Zenon DEF TypeInd
    <2>2. CASE enqueue \/ Exit \/ Crash \/ Restart \/ CloseStep \/ walClose
        BY <2>1, <2>2, Zenon DEF enqueue, Exit, Crash, Died, Restart, CloseStep, CloseMoves, walClose, Stages
    <2>3. CASE fanout \/ walLoop \/ Connect \/ Deliver \/ unsubscribe \/ Recent \/ RecentReturns
        BY <2>1, <2>3, Zenon DEF fanout, walLoop, Connect, Deliver, unsubscribe, Recent, RecentReturns
    <2>4. CASE Gather \/ Tick \/ SendReturns \/ ForwarderStops \/ SetTarget \/ Ingest \/ IngestLost \/ Prune
        BY <2>1, <2>4, Zenon DEF Gather, Tick, SendReturns, ForwarderStops, SetTarget, Ingest, IngestLost, Prune,
           exporterKept, exportVars
    <2>5. CASE UNCHANGED tvars
        BY <2>1, <2>5, Zenon DEF tvars, exportVars
    <2> QED
        BY <2>2, <2>3, <2>4, <2>5, Zenon DEF TNext
<1>6. emitted' \in 0..EmitBound
    <2>1. EmitBound \in Nat
        BY TelemetryAssumption, Zenon DEF EmitBound
    <2> QED
        BY <1>4, <2>1 DEF TypeInd
<1>7. EmitBound' = EmitBound
    BY <1>3, Zenon DEF EmitBound, May
<1> QED
    BY <1>1, <1>2, <1>3, <1>5, <1>6, <1>7, <1>8, Zenon DEF TypeInd

(* A queue of events up to one number is a sequence over those events.     *)
LEMMA EventSeq ==
    \A s \in Seq(Nat), a, b, n \in Nat : Between(s, a, b) /\ b <= n => s \in Seq(1..n)
<1> SUFFICES ASSUME NEW s \in Seq(Nat), NEW a \in Nat, NEW b \in Nat, NEW n \in Nat, Between(s, a, b), b <= n
             PROVE  s \in Seq(1..n)
    BY Zenon
<1>1. PICK k \in Nat : k = Len(s)
    OBVIOUS
<1>2. s \in [1..k -> Nat] /\ DOMAIN s = 1..k
    BY <1>1
<1>3. \A i \in 1..k : s[i] \in 1..n
    BY <1>2 DEF Between
<1>4. s \in [1..k -> 1..n]
    BY <1>2, <1>3, Zenon
<1> QED
    BY <1>4

(* Type correctness: every queue, channel and batch is within its          *)
(* capacity, the ring's indices in range and, until newWAL fails to list   *)
(* the directory, the writer's segment the newest and never above the      *)
(* threshold.                                                              *)
THEOREM TTypeCorrect == TSpec => []TTypeOK
<1>1. TInit => TypeInd
    <2> SUFFICES ASSUME TInit PROVE TypeInd
        BY Zenon
    <2>1. sub \in Streams /\ sub.ch = <<>>
        <3>1. sub = [on |-> FALSE, ch |-> <<>>]
            BY Zenon DEF TInit
        <3> QED
            BY <3>1 DEF Streams, Flags, Buffers
    <2>2. wal.written = 0 /\ RotateLines \in Nat /\ SubCap \in Nat /\ EmitBound \in Nat
        BY TelemetryAssumption, Zenon DEF TInit, WriterAt, EmitBound
    <2>3. Len(<<>>) = 0
        BY Zenon
    <2> QED
        BY <2>1, <2>2, <2>3 DEF TInit, TypeInd, Stages
<1>2. TSpec => []TypeInd
    BY <1>1, TypeStep, TIndAlways, PTL DEF TSpec
<1>3. TInd /\ LogInd /\ BudgetInd /\ ForwardInd /\ RingInd /\ CallInd /\ TypeInd => TTypeOK
    <2> SUFFICES ASSUME TInd, LogInd, BudgetInd, ForwardInd, RingInd, CallInd, TypeInd PROVE TTypeOK
        BY Zenon
    <2>1. PICK a, b, c : LogFlow(a, b, c)
        BY Zenon DEF LogInd
    <2>2. /\ a \in Nat /\ b \in Nat /\ c \in Nat /\ a <= b /\ b <= c /\ c <= emitted
          /\ (Sighted => Files(disk, a)) /\ Between(walQueue, b, c) /\ Between(queue, c, emitted)
        BY <2>1, Zenon DEF LogFlow
    <2>3. EmitBound \in Nat /\ emitted \in Nat /\ emitted <= EmitBound
        BY TelemetryAssumption DEF EmitBound, TypeInd
    <2>4. c \in Nat /\ a \in Nat /\ c <= EmitBound /\ a <= EmitBound
        BY <2>2, <2>3
    <2>5. queue \in Seq(Nat) /\ walQueue \in Seq(Nat)
        BY Zenon DEF TInd, QueueTypes, Buffers
    <2>6. queue \in Seq(Events) /\ walQueue \in Seq(Events)
        BY <2>2, <2>3, <2>4, <2>5, EventSeq, Zenon DEF Events
    <2>7. Len(queue) <= QueueCap /\ Len(walQueue) <= QueueCap
        BY Zenon DEF LogInd
    <2>8. ring.next \in 0..RingCap - 1 /\ ring.count \in 0..RingCap
        <3>1. RingCap \in Nat \ {0} /\ Len(fanned) \in Nat
            BY TelemetryAssumption DEF RingInd
        <3>2. ring.next \in 0..(RingCap - 1)
            BY Zenon DEF RingInd
        <3>3. ring.count = IF Len(fanned) < RingCap THEN Len(fanned) ELSE RingCap
            BY Zenon DEF RingInd
        <3> QED
            BY <3>1, <3>2, <3>3
    <2>9. ASSUME Sighted, NEW n \in DOMAIN disk PROVE n <= wal.seq /\ disk[n].lines \in Seq(Events)
        <3>1. wal.seq \in Nat /\ n \in 1..wal.seq
            BY <2>9, Zenon DEF TInd, Writers, Numbers, Behind
        <3>2. PICK s : s = disk[n].lines
            BY Zenon
        <3>3. s \in Seq(Nat) /\ Between(s, 0, a)
            BY <2>2, <2>9, <3>2, Zenon DEF Files
        <3>4. s \in Seq(Events)
            BY <2>3, <2>4, <3>3, EventSeq, Zenon DEF Events
        <3> QED
            BY <3>1, <3>2, <3>4
    <2>10. \A what \in DOMAIN budget : budget[what] \in Nat
        BY Zenon DEF BudgetInd
    <2>11. Len(fwd.queue) <= ForwardCap /\ Len(fwd.batch) <= BatchMax
        BY Zenon DEF ForwardInd, ForwardRoom
    <2>12. \A q \in {queue, walQueue} : q \in Seq(Events) /\ Len(q) <= QueueCap
        BY <2>6, <2>7, Zenon
    <2>13. recent.on \in BOOLEAN
        BY Zenon DEF CallInd, Calls, Flags
    <2> QED
        BY <2>8, <2>9, <2>10, <2>11, <2>12, <2>13, Zenon DEF TTypeOK, TypeInd, Stages
<1> QED
    BY <1>2, <1>3, LogIndAlways, BudgetAlways, ForwardIndAlways, RingIndAlways, CallIndAlways, PTL
=============================================================================
