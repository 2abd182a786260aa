------------------------------- MODULE Telemetry -------------------------------
(***************************************************************************)
(* What becomes of an event after the daemon's handlers: the exporter's    *)
(* queue and fan-out, the JSONL write-ahead log with its rotation and      *)
(* retention, the replay ring, a live stream, the forwarder's batches and  *)
(* the aggregator's store (internal/export, internal/forward,              *)
(* internal/aggregator).  The daemon may crash and be restarted, the disk  *)
(* may fail, and an Ingest may time out at the forwarder while the         *)
(* aggregator goes on with it.  An event is its number, which also stands  *)
(* for its time; a line of the log is the number of its event.             *)
(***************************************************************************)
EXTENDS Integers, Sequences, FiniteSetsExt

CONSTANTS
    Setups,        \* what a behaviour may contain: sets of "stream", "forward",
                   \* "recent", "restart", "crash", "fault", "spill"
                   \* (bufio's buffer fills), "deaf" (the listener fails)
    QueueCap,      \* queueCap
    RingCap,       \* ringCap
    DefaultLimit,  \* defaultRecentLimit
    SubCap,        \* subscriberCap
    ForwardCap, BatchMax,
    RotateLines,   \* lines after which a segment has walRotateBytes
    MaxSegments,   \* walMaxSegments
    MaxEmits, MaxForwarded,   \* events without and with a forwarder
    MaxRestarts, MaxFaults, MaxConnects, MaxTargets, MaxPrunes

ASSUME TelemetryAssumption ==
    /\ \A n \in {QueueCap, RingCap, DefaultLimit, SubCap, ForwardCap, BatchMax, RotateLines,
                 MaxSegments} : n \in Nat \ {0}
    /\ \A n \in {MaxEmits, MaxForwarded, MaxRestarts, MaxFaults, MaxConnects, MaxTargets, MaxPrunes} : n \in Nat

VARIABLES
    setup,
    stage,     \* "down", "run", "stopping" (ctx is done), "graceful" (in
               \* GracefulStop), "draining" (queue closed), "flushing"
               \* (walQueue closed), "closed"
    emitted,
    queue, walQueue,
    disk,      \* the segment files: their whole lines, and whether a piece
               \* of a line follows
    wal,       \* the writer: its segment, buffered lines, size, and whether
               \* bufio has met an error
    ring,      \* buf, next, count
    sub,       \* the stream: on, ch
    recent,    \* the Recent call at work: on, limit, and whether a push has
               \* fallen into its reads of the ring
    fwd,       \* the forwarder: client, queue, batch
    late,      \* batches the aggregator may still store
    store,     \* the aggregator's records by key, time and sequence number,
               \* the last sequence number, and the source's entry
    fanned,    \* history: what this run has fanned out
    accepted,  \* history: what this run has put on walQueue
    opened,    \* history: segments opened since pruneLocked last removed all
               \* that it should
    mishap,    \* history: "blind", newWAL could not list the directory;
               \* "stray", pruneLocked removed a segment and not an older one
    budget     \* what is left of each bound

exportVars == <<stage, queue, walQueue, ring, sub, recent>>
walVars == <<disk, wal, opened, mishap>>
forwardVars == <<fwd, late, store>>
tvars == <<setup, emitted, exportVars, walVars, forwardVars, fanned, accepted, budget>>

Spend(what) == budget[what] > 0 /\ budget' = [budget EXCEPT ![what] = @ - 1]
May(what) == what \in setup

EmitBound == IF May("forward") THEN MaxForwarded ELSE MaxEmits

Up == stage # "down"
Listening == ~May("deaf")
Closed == stage \in {"draining", "flushing", "closed"}
Sighted == "blind" \notin mishap
-----------------------------------------------------------------------------
(* The write-ahead log.                                                    *)

NewSegment == [lines |-> <<>>, torn |-> FALSE]

maxExistingSeq(d) == IF DOMAIN d = {} THEN 0 ELSE CHOOSE n \in DOMAIN d : \A m \in DOMAIN d : m <= n

ResumedSeq(d) == maxExistingSeq(d)
NextSeq(d) == maxExistingSeq(d) + 1

WriterAt(seq) == [seq |-> seq, buf |-> <<>>, written |-> 0, failed |-> FALSE]

\* openLocked, for append: the file's size counts as written.
openLocked(d, seq) ==
    [WriterAt(seq) EXCEPT !.written = IF seq \in DOMAIN d THEN Len(d[seq].lines) ELSE 0]

WithFile(d, seq) == [n \in DOMAIN d \cup {seq} |-> IF n \in DOMAIN d THEN d[n] ELSE NewSegment]

\* The first k buffered lines reach the file, and maybe a piece of the next.
Wrote(d, w, k, torn) ==
    [d EXCEPT ![w.seq] = [lines |-> @.lines \o SubSeq(w.buf, 1, k), torn |-> torn]]

\* The open segment, if it has not been removed, ends in a piece of a line.
EndsTorn(d, w) == w.seq \in DOMAIN d /\ d[w.seq].torn

\* What a write that fails may leave of up to max lines.
Remains(d, w, max) ==
    {Wrote(d, w, kt[1], kt[2]) :
        kt \in {kt \in (0..max) \X BOOLEAN : kt[1] = 0 /\ EndsTorn(d, w) => kt[2]}}

\* After an error bufio takes and writes nothing more.
Failed(w) == [w EXCEPT !.buf = <<>>, !.failed = TRUE]

\* pruneLocked, without and with its slips: the newest closed segments go; one
\* too many is kept.
PrunedNewest(d) ==
    LET older(n) == {m \in DOMAIN d : m < n} IN
    [n \in {n \in DOMAIN d : Cardinality(older(n)) < MaxSegments - 1 \/ n = maxExistingSeq(d)} |-> d[n]]
PrunedLate(d) ==
    LET newer(n) == {m \in DOMAIN d : m > n} IN
    [n \in {n \in DOMAIN d : Cardinality(newer(n)) <= MaxSegments} |-> d[n]]
pruneLocked(d) ==
    LET newer(n) == {m \in DOMAIN d : m > n} IN
    [n \in {n \in DOMAIN d : Cardinality(newer(n)) < MaxSegments} |-> d[n]]

\* What pruneLocked may leave when it cannot list the directory or an os.Remove
\* fails.
PruneFails(d) ==
    {[n \in DOMAIN pruneLocked(d) \cup left |-> d[n]] :
        left \in (SUBSET (DOMAIN d \ DOMAIN pruneLocked(d))) \ {{}}}

\* A line that follows the piece of another is no event's: 0.
Line(d, w, e) == IF w.buf = <<>> /\ EndsTorn(d, w) THEN 0 ELSE e

\* bufio's Write and WriteByte: the line stays in the buffer, or what was
\* there goes to the file to make room, a piece of the line with it.
Took(w, buf) == [w EXCEPT !.buf = buf, !.written = @ + 1]

Write(d, w, e) ==
    \/ w.failed /\ disk' = d /\ wal' = w
    \/ ~w.failed /\ disk' = d /\ wal' = Took(w, Append(w.buf, Line(d, w, e)))
    \/ /\ ~w.failed /\ May("spill")
       /\ \E torn \in BOOLEAN : disk' = Wrote(d, w, Len(w.buf), torn)
       /\ wal' = Took(w, <<Line(d, w, e)>>)

Fault == May("fault") /\ Spend("faults")

WriteFault(d, w) ==
    /\ ~w.failed /\ disk' \in Remains(d, w, Len(w.buf))
    /\ wal' = Failed(w)

\* append, below the threshold.
AppendLine(e) ==
    /\ wal.written < RotateLines
    /\ \/ Write(disk, wal, e) /\ UNCHANGED budget
       \/ WriteFault(disk, wal) /\ Fault
    /\ UNCHANGED <<opened, mishap>>

\* rotateLocked's flush, whose error it ignores.
Flush(d) == IF wal.failed \/ wal.buf = <<>> THEN d ELSE Wrote(d, wal, Len(wal.buf), FALSE)
FlushFault == IF wal.failed \/ wal.buf = <<>> THEN {} ELSE Remains(disk, wal, Len(wal.buf) - 1)

Opened(d) == pruneLocked(WithFile(d, wal.seq + 1))

\* append at the threshold: flush, close, open the next segment, prune, write.
\* When the open fails the number has moved on, and the next append tries again.
RotateAndAppend(e) ==
    /\ wal.written >= RotateLines
    /\ LET w == openLocked(Flush(disk), wal.seq + 1)
           unpruned == WithFile(Flush(disk), wal.seq + 1)
       IN  \/ /\ Write(Opened(Flush(disk)), w, e)
              /\ opened' = 0 /\ UNCHANGED <<mishap, budget>>
           \/ \E d \in FlushFault :
                 /\ Write(Opened(d), openLocked(d, wal.seq + 1), e)
                 /\ opened' = 0 /\ Fault /\ UNCHANGED mishap
           \/ /\ WriteFault(Opened(Flush(disk)), w)
              /\ opened' = 0 /\ Fault /\ UNCHANGED mishap
           \/ \E d \in PruneFails(unpruned) :
                 /\ Write(d, w, e)
                 /\ opened' = opened + 1 /\ Fault
                 /\ mishap' = IF d = unpruned THEN mishap ELSE mishap \cup {"stray"}
           \/ /\ disk' = Flush(disk)
              /\ wal' = [wal EXCEPT !.seq = @ + 1, !.buf = <<>>]
              /\ Fault /\ UNCHANGED <<opened, mishap>>

walLoop ==
    /\ Up /\ Listening /\ walQueue # <<>>
    /\ AppendLine(Head(walQueue)) \/ RotateAndAppend(Head(walQueue))
    /\ walQueue' = Tail(walQueue)
    /\ UNCHANGED <<setup, stage, emitted, queue, ring, sub, recent, forwardVars, fanned, accepted>>
-----------------------------------------------------------------------------
(* The exporter's queue and fan-out.                                       *)

Offer(q, cap, e) == IF Len(q) < cap THEN Append(q, e) ELSE q

newRing == [buf |-> [i \in 0..RingCap - 1 |-> 0], next |-> 0, count |-> 0]

PushUncounted(r, e) ==
    [buf |-> [r.buf EXCEPT ![r.next] = e], next |-> (r.next + 1) % RingCap, count |-> r.count + 1]
push(r, e) ==
    [buf |-> [r.buf EXCEPT ![r.next] = e],
     next |-> (r.next + 1) % RingCap,
     count |-> IF r.count < RingCap THEN r.count + 1 ELSE r.count]

SnapshotOldest(r, limit) ==
    LET n == IF limit > 0 /\ limit < r.count THEN limit ELSE r.count
        start == (r.next - r.count + RingCap) % RingCap
    IN  [i \in 1..n |-> r.buf[(start + i - 1) % RingCap]]
snapshot(r, limit) ==
    LET n == IF limit > 0 /\ limit < r.count THEN limit ELSE r.count
        oldest == (r.next - r.count + RingCap) % RingCap
        start == (oldest + (r.count - n) + RingCap) % RingCap
    IN  [i \in 1..n |-> r.buf[(start + i - 1) % RingCap]]

NoCall == [on |-> FALSE, limit |-> 0, raced |-> FALSE]

\* What a process death leaves: the files, and what the aggregator may still do.
Died ==
    /\ stage' = "down" /\ queue' = <<>> /\ walQueue' = <<>>
    /\ ring' = newRing /\ sub' = [on |-> FALSE, ch |-> <<>>] /\ recent' = NoCall
    /\ wal' = WriterAt(wal.seq)
    /\ fwd' = [fwd EXCEPT !.queue = <<>>, !.batch = <<>>, !.sending = FALSE]
    /\ fanned' = <<>> /\ accepted' = <<>>
    /\ UNCHANGED <<disk, opened, mishap, late, store>>

\* enqueue, from any of the handlers, which Close does not wait for; a send on
\* the closed queue panics.
enqueue ==
    /\ Up /\ emitted < EmitBound /\ emitted' = emitted + 1
    /\ IF Closed
       THEN Died
       ELSE /\ queue' = Offer(queue, QueueCap, emitted + 1)
            /\ UNCHANGED <<stage, walQueue, ring, sub, recent, walVars, forwardVars, fanned, accepted>>
    /\ UNCHANGED <<setup, budget>>

Send(f, e) == IF f.client THEN [f EXCEPT !.queue = Offer(@, ForwardCap, e)] ELSE f

fanout ==
    /\ Up /\ Listening /\ queue # <<>>
    /\ LET e == Head(queue) IN
       /\ walQueue' = Offer(walQueue, QueueCap, e)
       /\ accepted' = IF Len(walQueue) < QueueCap THEN Append(accepted, e) ELSE accepted
       /\ ring' = push(ring, e)
       /\ sub' = IF sub.on THEN [sub EXCEPT !.ch = Offer(@, SubCap, e)] ELSE sub
       /\ recent' = [recent EXCEPT !.raced = recent.on]
       /\ fwd' = Send(fwd, e)
       /\ fanned' = Append(fanned, e)
    /\ queue' = Tail(queue)
    /\ UNCHANGED <<setup, stage, emitted, walVars, late, store, budget>>
-----------------------------------------------------------------------------
(* Streams and shutdown.                                                   *)

\* Stream: subscribe; send; the client leaves.  GracefulStop takes no new one.
Connect ==
    /\ May("stream") /\ Listening /\ stage \in {"run", "stopping"} /\ ~sub.on
    /\ Spend("connects")
    /\ sub' = [on |-> TRUE, ch |-> <<>>]
    /\ UNCHANGED <<setup, stage, emitted, queue, walQueue, ring, recent, walVars, forwardVars, fanned, accepted>>

Deliver ==
    /\ sub.on /\ sub.ch # <<>> /\ sub' = [sub EXCEPT !.ch = Tail(@)]
    /\ UNCHANGED <<setup, stage, emitted, queue, walQueue, ring, recent, walVars, forwardVars, fanned, accepted, budget>>

unsubscribe ==
    /\ sub.on /\ sub' = [on |-> FALSE, ch |-> <<>>]
    /\ UNCHANGED <<setup, stage, emitted, queue, walQueue, ring, recent, walVars, forwardVars, fanned, accepted, budget>>

\* Recent: recentEnvelopes lets go of s.mu before snapshot reads the ring, so
\* fanout may push in between.  An answer into which a push has fallen is any
\* mixture of old and new slots.
Recent ==
    /\ May("recent") /\ Listening /\ stage \in {"run", "stopping"} /\ ~recent.on
    /\ \E limit \in 0..RingCap + 1 :
          recent' = [on |-> TRUE, limit |-> IF limit <= 0 THEN DefaultLimit ELSE limit, raced |-> FALSE]
    /\ UNCHANGED <<setup, stage, emitted, queue, walQueue, ring, sub, walVars, forwardVars, fanned, accepted, budget>>

RecentReturns ==
    /\ recent.on /\ recent' = NoCall
    /\ UNCHANGED <<setup, stage, emitted, queue, walQueue, ring, sub, walVars, forwardVars, fanned, accepted, budget>>

\* The loops have ended: they were started, and the channel they range over
\* is closed and empty.
LoopAfterWal == Listening /\ stage \in {"flushing", "closed"}
loopDone == Listening /\ queue = <<>>
WalLeft == Listening
walDone == Listening /\ walQueue = <<>>
StreamsGone == ~sub.on

\* Run's ctx is cancelled, and Close runs in its order.
CloseMoves ==
    \/ stage = "run" /\ stage' = "stopping"
    \/ stage = "stopping" /\ stage' = "graceful"
    \/ stage = "graceful" /\ StreamsGone /\ ~recent.on /\ stage' = "draining"
    \/ stage = "draining" /\ loopDone /\ stage' = "flushing"

CloseStep ==
    /\ CloseMoves
    /\ UNCHANGED <<setup, emitted, queue, walQueue, ring, sub, recent, walVars, forwardVars, fanned, accepted, budget>>

walClose ==
    /\ stage = "flushing" /\ walDone
    /\ stage' = "closed"
    /\ \/ disk' = Flush(disk) /\ wal' = [wal EXCEPT !.buf = <<>>] /\ UNCHANGED budget
       \/ disk' \in FlushFault /\ wal' = Failed(wal) /\ Fault
    /\ UNCHANGED <<setup, emitted, queue, walQueue, ring, sub, recent, opened, mishap, forwardVars, fanned, accepted>>

Exit == stage = "closed" /\ Died /\ UNCHANGED <<setup, emitted, budget>>

Crash == May("crash") /\ Up /\ Died /\ UNCHANGED <<setup, emitted, budget>>

Reopened(seq) ==
    wal' = openLocked(disk, seq) /\ disk' = WithFile(disk, seq) /\ opened' = opened + 1

\* The daemon is started again: newWAL opens a segment of its own and prunes
\* none; the forwarder dials its configured target.  When maxExistingSeq cannot
\* list the directory it answers 0, and newWAL opens segment 1 as it is.
Restart ==
    /\ May("restart") /\ stage = "down"
    /\ stage' = "run"
    /\ \/ Reopened(NextSeq(disk)) /\ Spend("restarts") /\ UNCHANGED mishap
       \/ Reopened(1) /\ Fault /\ mishap' = mishap \cup {"blind"}
    /\ fwd' = [fwd EXCEPT !.client = May("forward"), !.done = FALSE]
    /\ UNCHANGED <<setup, emitted, queue, walQueue, ring, sub, recent, late, store, fanned, accepted>>
-----------------------------------------------------------------------------
(* The forwarder and the aggregator.                                       *)

exporterKept == <<setup, emitted, exportVars, walVars, fanned, accepted>>

\* send: nothing without a client; a cancelled ctx fails the call at once.
Sends(batch) == batch # <<>> /\ fwd.client /\ stage = "run"

\* flush, with the queue that is left: the loop is in Ingest until it returns.
flush(q, batch) ==
    /\ fwd' = [fwd EXCEPT !.queue = q, !.sending = Sends(batch),
                          !.batch = IF Sends(batch) THEN batch ELSE <<>>]
    /\ late' = IF Sends(batch) THEN late \cup {batch} ELSE late

\* The loop's receive from its queue.
Gather ==
    /\ Up /\ ~fwd.sending /\ ~fwd.done /\ fwd.queue # <<>>
    /\ LET batch == Append(fwd.batch, Head(fwd.queue)) IN
       IF Len(batch) >= BatchMax
       THEN flush(Tail(fwd.queue), batch)
       ELSE fwd' = [fwd EXCEPT !.queue = Tail(@), !.batch = batch] /\ UNCHANGED late
    /\ UNCHANGED <<exporterKept, store, budget>>

Tick ==
    /\ Up /\ ~fwd.sending /\ ~fwd.done /\ fwd.batch # <<>>
    /\ flush(fwd.queue, fwd.batch)
    /\ UNCHANGED <<exporterKept, store, budget>>

\* Ingest has answered, failed or timed out: its result is logged, no more.
SendKept(f) == [f EXCEPT !.sending = FALSE]
SendOver(f) == [f EXCEPT !.sending = FALSE, !.batch = <<>>]

SendReturns ==
    /\ fwd.sending /\ fwd' = SendOver(fwd)
    /\ UNCHANGED <<exporterKept, late, store, budget>>

\* ctx.Done: a last flush, which the cancelled ctx fails, and closeConn.
ForwarderStops ==
    /\ Up /\ stage # "run" /\ ~fwd.sending /\ ~fwd.done
    /\ fwd' = [fwd EXCEPT !.batch = <<>>, !.client = FALSE, !.done = TRUE]
    /\ UNCHANGED <<exporterKept, late, store, budget>>

SetTarget ==
    /\ May("forward") /\ stage = "run" /\ Spend("targets")
    /\ fwd' = [fwd EXCEPT !.client = ~@]
    /\ UNCHANGED <<exporterKept, late, store>>

Times(records) == {r[1] : r \in records}

\* bumpSource, for each record of a batch.
LastSeen(last, batch) == Max({last} \cup Range(batch))

\* Put: the records of a batch and the source's entry, in one transaction.
Ingest ==
    \E batch \in late :
       /\ late' = late \ {batch}
       /\ store' = [events |-> store.events \cup {<<batch[i], store.seq + i>> : i \in DOMAIN batch},
                    seq |-> store.seq + Len(batch),
                    count |-> store.count + Len(batch),
                    last |-> LastSeen(store.last, batch)]
       /\ UNCHANGED <<exporterKept, fwd, budget>>

\* The batch never arrives, or its ctx is done when Put looks.
IngestLost ==
    \E batch \in late :
       late' = late \ {batch} /\ UNCHANGED <<exporterKept, fwd, store, budget>>

\* decrementSources.
DecrementedOnce(st, n) ==
    [count |-> st.count - 1, last |-> IF st.count - 1 <= 0 THEN 0 ELSE st.last]
decrementSources(st, n) ==
    IF st.count - n <= 0 THEN [count |-> 0, last |-> 0] ELSE [count |-> st.count - n, last |-> st.last]

Prune ==
    /\ May("forward") /\ Spend("prunes")
    /\ \E cutoff \in 2..emitted + 1 :
          LET kept == {r \in store.events : r[1] >= cutoff}
              n == Cardinality(store.events \ kept)
              entry == IF n = 0 THEN [count |-> store.count, last |-> store.last]
                                ELSE decrementSources(store, n)
          IN  store' = [events |-> kept, seq |-> store.seq, count |-> entry.count, last |-> entry.last]
    /\ UNCHANGED <<exporterKept, fwd, late>>
-----------------------------------------------------------------------------
TInit ==
    /\ setup \in Setups
    /\ stage = "run" /\ emitted = 0 /\ queue = <<>> /\ walQueue = <<>>
    /\ disk = [n \in {1} |-> NewSegment] /\ wal = WriterAt(1) /\ opened = 1 /\ mishap = {}
    /\ ring = newRing /\ sub = [on |-> FALSE, ch |-> <<>>] /\ recent = NoCall
    /\ fwd = [client |-> May("forward"), queue |-> <<>>, batch |-> <<>>,
              sending |-> FALSE, done |-> FALSE]
    /\ late = {} /\ store = [events |-> {}, seq |-> 0, count |-> 0, last |-> 0]
    /\ fanned = <<>> /\ accepted = <<>>
    /\ budget = [restarts |-> MaxRestarts, faults |-> MaxFaults, connects |-> MaxConnects,
                 targets |-> MaxTargets, prunes |-> MaxPrunes]

TNext ==
    \/ enqueue \/ fanout \/ walLoop
    \/ Connect \/ Deliver \/ unsubscribe \/ Recent \/ RecentReturns
    \/ CloseStep \/ walClose \/ Exit \/ Crash \/ Restart
    \/ Gather \/ Tick \/ SendReturns \/ ForwarderStops \/ SetTarget
    \/ Ingest \/ IngestLost \/ Prune

TSpec == TInit /\ [][TNext]_tvars

\* The goroutines of a live daemon run; nothing obliges a client to leave, a
\* forwarder's call to return or the daemon to be stopped.
TFairSpec ==
    /\ TSpec
    /\ WF_tvars(fanout) /\ WF_tvars(walLoop) /\ WF_tvars(RecentReturns)
    /\ WF_tvars(stage # "run" /\ CloseStep) /\ WF_tvars(walClose) /\ WF_tvars(Exit)
-----------------------------------------------------------------------------
(* Properties.                                                             *)

Events == 1..EmitBound

\* The files' whole lines by segment and place in it: a reader takes the
\* segments by number.
Places(d) == UNION {{n} \X DOMAIN d[n].lines : n \in DOMAIN d}
Lines(d) == [x \in Places(d) |-> d[x[1]].lines[x[2]]]

\* Type: every queue is within its capacity, the ring's indices are in range
\* and, unless a start was blind, the writer's segment is the newest number used.
TTypeOK ==
    /\ setup \in Setups /\ emitted \in 0..EmitBound
    /\ stage \in {"down", "run", "stopping", "graceful", "draining", "flushing", "closed"}
    /\ \A q \in {queue, walQueue} : q \in Seq(Events) /\ Len(q) <= QueueCap
    /\ ring.next \in 0..RingCap - 1 /\ ring.count \in 0..RingCap
    /\ Len(sub.ch) <= SubCap /\ (sub.ch # <<>> => sub.on)
    /\ Len(fwd.queue) <= ForwardCap /\ Len(fwd.batch) <= BatchMax
    /\ recent.on \in BOOLEAN /\ mishap \subseteq {"blind", "stray"}
    /\ Sighted => /\ \A n \in DOMAIN disk : n <= wal.seq /\ disk[n].lines \in Seq(Events)
                  /\ wal.written \in 0..RotateLines
    /\ \A what \in DOMAIN budget : budget[what] \in Nat

\* The whole lines of the write-ahead log are a log as LossyLog promises, over
\* crashes, restarts, rotations, retention, failed writes and failed opens: in
\* order, without repetition, growing at the end and shrinking at the front.
\* It is so until newWAL cannot list the directory, and writes on in segment 1
\* before older lines, or an os.Remove fails while that of a newer segment does
\* not.
Log == INSTANCE LossyLog WITH log <- Lines(disk)
AuditTrail == Log!AInit /\ [][Log!Emitted \/ Log!Move \/ mishap' # {}]_<<emitted, Lines(disk)>>

\* A piece of a line in the open segment is followed by the rest of that line
\* or by nothing: newWAL starts a segment of its own and does not append to one
\* that a crash may have left in the middle of a line, unless it could not list
\* the directory.
NoSplice == (Sighted /\ Up /\ EndsTorn(disk, wal)) => (wal.failed \/ wal.buf # <<>>)

\* Retention: pruneLocked runs at rotations only, so beyond walMaxSegments there
\* are at most the segments opened by starts, and by rotations that could not
\* prune, since the last one that could.
SegmentsBounded == Cardinality(DOMAIN disk) <= MaxSegments + opened

\* When Close is through and the disk has not failed, all that fan-out handed to
\* the log in this run is in the files, save what retention has removed: the
\* loops are drained in the order in which they feed each other.
CloseFlushes ==
    (stage = "closed" /\ budget["faults"] = MaxFaults) =>
       LET lines == Range(Lines(disk)) IN
       \A i \in DOMAIN accepted :
          \/ accepted[i] \in lines
          \/ lines # {} /\ \A n \in lines : accepted[i] < n

\* The newest k of a sequence.
Newest(s, k) == SubSeq(s, Len(s) - k + 1, Len(s))

\* The answer of a Recent into which no push falls is the newest events fanned
\* out in this run, oldest first, as many as asked for, defaultRecentLimit if
\* none are, and kept.
RingNewest ==
    (recent.on /\ ~recent.raced) =>
       LET kept == IF Len(fanned) < RingCap THEN Len(fanned) ELSE RingCap
           n == IF recent.limit < kept THEN recent.limit ELSE kept
       IN  snapshot(ring, recent.limit) = Newest(fanned, n)

\* No event is stored twice: a batch whose Ingest timed out is not sent again,
\* though the aggregator may still store it, and a restart sends nothing old.
AtMostOnce == \A r, s \in store.events : r[1] = s[1] => r = s

\* The source's entry agrees with its records after every Put and Prune, late
\* batches included: their number, and the time of the newest.
SourcesAgree ==
    /\ store.count = Cardinality(store.events)
    /\ store.last = Max({0} \cup Times(store.events))

\* Close ends: once GracefulStop has begun, no stream is open and the exporter
\* had its listener, the daemon goes down.
CloseEnds == (stage = "graceful" /\ Listening /\ StreamsGone) ~> ~Up

\* Does not hold: Close ends whatever streams are open.
StreamsUnwind == (stage = "graceful" /\ Listening) ~> ~Up

\* Does not hold: Close ends when Start could not listen.
DeafEnds == (stage = "graceful" /\ StreamsGone) ~> ~Up

\* Does not hold: s.mu keeps every push out of Recent's reads of the ring.
RecentGuarded == ~recent.raced

\* Does not hold: a start never writes on in a segment of an earlier run.
StartsAfresh == (Up /\ EndsTorn(disk, wal)) => (wal.failed \/ wal.buf # <<>>)

\* Does not hold: the log keeps its order whatever the directory answers.
AlwaysTrail == Log!ASpec

\* Does not hold: no more than walMaxSegments segments.
OnlyNewest == Cardinality(DOMAIN disk) <= MaxSegments
=============================================================================
