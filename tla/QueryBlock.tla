------------------------------ MODULE QueryBlock ------------------------------
(***************************************************************************)
(* The pre-operation block of database queries.  At the entry of write or  *)
(* sendto on a marked socket the capture hook matches the payload and      *)
(* leaves a mark for the process; the socket_sendmsg LSM hook of the same  *)
(* system call consumes the mark and refuses the send.  Between the two,   *)
(* other threads send, the control word is rewritten, and descriptors are  *)
(* closed and used again while their marks stay.                           *)
(***************************************************************************)
EXTENDS WireCapture, QueryMatch

CONSTANTS
    Enforced,      \* the processes whose session is in enforce mode
    Tables,        \* the tables in ak_db_deny_tables
    Queries,       \* the payloads that are sent
    Statements     \* those the matcher is compared on with its reference

ASSUME QueryAssumption ==
    /\ Enforced \subseteq Procs /\ Tables \subseteq DOMAIN NameLen
    /\ NameLen \in [DOMAIN NameLen -> Nat]
    /\ Cardinality(Tables) <= Slots /\ \A n \in Tables : Installable(n)
    /\ \A q \in Queries \cup Statements :
          q.at \in Nat /\ q.len \in Nat /\ q.at < q.len /\ q.name \in DOMAIN NameLen

VARIABLES
    files,     \* the <<process, fd>> that are not sockets
    pending,   \* ak_db_deny_pending
    due,       \* the flows in a send that the policy denies and the matcher could read
    stray,     \* the processes with a mark that outlived its system call
    verdict    \* how the last send ended

qvars == <<files, pending, due, stray, verdict>>
blockVars == <<wvars, qvars>>

NoVerdict == [flow |-> "none", due |-> FALSE, armed |-> FALSE, refused |-> FALSE]

QInit ==
    /\ WInit
    /\ files = {} /\ pending = {} /\ stray = {}
    /\ due = {} /\ verdict = NoVerdict

\* A process with no other thread.
Alone(f) == \A g \in Flows \ {f} : Proc(g) # Proc(f)

Names(q) == \E n \in Tables : NamesTable(q, n) \/ (Whole(q) /\ NamesCollection(q, n))
-----------------------------------------------------------------------------
Sends == {"write", "db_sendto"}
Sending(f) == call[f].fn \in Sends

\* The tracepoint: captured when the descriptor is marked, and matched when it
\* is a database socket's and the matcher can read the payload.
Begin(f, fn, arg, fd, q, captured, matched) ==
    /\ Ready(f, fn) /\ calls' = calls + 1
    /\ call' = [call EXCEPT ![f] = [fn |-> fn, arg |-> arg, fd |-> fd, len |-> 0]]
    /\ \E readable \in BOOLEAN :
          /\ pending' = IF matched /\ "block" \in ak_flags /\ readable /\ ak_db_query_check(q, Tables)
                        THEN pending \cup {Proc(f)} ELSE pending
          /\ due' = IF Key(f, fd) \in fds.db /\ {"db", "block"} \subseteq ak_flags /\ readable /\ Names(q)
                    THEN due \cup {f} ELSE due
    /\ verdict' = NoVerdict
    /\ IF captured THEN Emit(fn, arg, arg, q.len, FALSE) ELSE last' = NoRecord
    /\ UNCHANGED <<work, at, stash, suspect, moves, mapVars, files, stray>>

IsMcp(f, fd) == "mcp" \in ak_flags /\ Key(f, fd) \in fds.mcp
IsDb(f, fd) == "db" \in ak_flags /\ Key(f, fd) \in fds.db

ak_stdio_write(f, arg, fd, q) ==
    Begin(f, "write", arg, fd, q, IsMcp(f, fd) \/ IsDb(f, fd), IsDb(f, fd))
sendto_unmatched(f, arg, fd, q) == Begin(f, "db_sendto", arg, fd, q, IsDb(f, fd), FALSE)
ak_db_sendto(f, arg, fd, q) == Begin(f, "db_sendto", arg, fd, q, IsDb(f, fd), IsDb(f, fd))

\* What is left of the marks once the hook has consumed p's.
Unconsumed(p) == pending
Consumed(p) == pending \ {p}

End(f, refused, armed) ==
    /\ call' = [call EXCEPT ![f] = NoCall]
    /\ due' = due \ {f}
    /\ verdict' = [flow |-> f, due |-> f \in due, armed |-> armed, refused |-> refused]
    /\ last' = NoRecord
    /\ UNCHANGED <<work, at, stash, suspect, moves, mapVars, calls, files>>

\* The LSM hook; another module may have refused the send before it (prior).
ak_lsm_socket_sendmsg(f, prior) ==
    LET p == Proc(f)
        looks == ~prior /\ "block" \in ak_flags
        marked == looks /\ p \in pending IN
    /\ Sending(f) /\ Key(f, call[f].fd) \notin files
    /\ pending' = IF marked THEN Consumed(p) ELSE pending
    /\ stray' = IF marked THEN stray \ {p}
                ELSE IF ~looks /\ p \in pending THEN stray \cup {p} ELSE stray
    /\ End(f, prior \/ (marked /\ p \in Enforced \cap monitor),
           "block" \in ak_flags /\ p \in Enforced \cap monitor)

\* A write to what is no longer a socket reaches no such hook.
WriteFile(f) ==
    /\ Sending(f) /\ Key(f, call[f].fd) \in files
    /\ stray' = IF Proc(f) \in pending THEN stray \cup {Proc(f)} ELSE stray
    /\ UNCHANGED pending
    /\ End(f, FALSE, FALSE)

\* The descriptor is closed and reused for a file, or for a socket again.
Reuse(f, fd) ==
    /\ Daemon /\ Called("connect") /\ ~Sending(f) /\ at[f] # Nowhere
    /\ files' = IF Key(f, fd) \in files THEN files \ {Key(f, fd)} ELSE files \cup {Key(f, fd)}
    /\ verdict' = NoVerdict
    /\ UNCHANGED <<work, probeVars, monitor, ak_flags, rmw, fds, calls, pending, due, stray>>
-----------------------------------------------------------------------------
QNext ==
    \/ /\ WNext
       /\ verdict' = NoVerdict
       /\ UNCHANGED <<files, pending, due, stray>>
    \/ \E f \in Flows, fd \in Fds :
          \/ \E a \in Args, q \in Queries : ak_stdio_write(f, a, fd, q) \/ ak_db_sendto(f, a, fd, q)
          \/ Reuse(f, fd)
    \/ \E f \in Flows : WriteFile(f) \/ \E prior \in BOOLEAN : ak_lsm_socket_sendmsg(f, prior)

QSpec == QInit /\ [][QNext]_blockVars
-----------------------------------------------------------------------------
\* Type: the probes' maps, and a mark that outlived its call is still a mark.
QTypeOK ==
    /\ WTypeOK
    /\ files \subseteq Procs \X Fds
    /\ pending \subseteq Procs /\ stray \subseteq pending /\ due \subseteq Flows

(* bpf/enforcer.bpf.c:479-483: the entry tracepoint fires "ahead of this    *)
(* LSM hook in the same sendto(), the mark is present here and the send is  *)
(* refused".  In a process of one thread, a query that names a denied table *)
(* on a marked socket is refused if the matcher could read it and, at the   *)
(* hook, its session enforces and the block is still armed.                 *)
DeniedRefused ==
    verdict.due /\ verdict.armed /\ Alone(verdict.flow) => verdict.refused

(* bpf/enforcer.bpf.c:483: the mark is "consumed once (deleted) per send".  *)
(* In a process of one thread no mark is left for a later, unrelated send,  *)
(* unless the marked call reached no sendmsg hook, or one that another      *)
(* module's refusal or a lost flag made return early.                       *)
MarkConsumed ==
    \A f \in Flows : Alone(f) /\ ~Sending(f) /\ Proc(f) \in pending
                        => Proc(f) \in stray

(* bpf/stdio.bpf.c:50-52: "The scan runs as far as the denied name itself   *)
(* allows: the last offset at which a name of `plen` bytes still fits".     *)
(* For names of at least two bytes, a statement is matched exactly when the *)
(* whole name lies in the window.  The MongoDB matcher identifies "the      *)
(* collection itself" (bpf/stdio.bpf.c:89-91): for names of at least four   *)
(* bytes a whole command is matched exactly when its collection, after a    *)
(* verb of 3 to 13 bytes, has the name, and never for one that begins with  *)
(* it; the pattern's full width always lies in the message.                 *)
WindowMatched ==
    calls = 0 => \A q \in Statements, n \in {n \in DOMAIN NameLen : Installable(n)} :
        /\ q.wire = "sql" /\ NameLen[n] > 1 => (ak_db_query_check(q, {n}) <=> NamesTable(q, n))
        /\ q.wire = "mongo" /\ Whole(q) /\ NameLen[n] > 3
              => (ak_db_query_check(q, {n}) <=> NamesCollection(q, n))

(* Does not hold: a collection of fewer than four bytes is found as well,   *)
(* though the pattern's width may then lie beyond the message's end.        *)
ShortCollections ==
    \A q \in Statements, n \in DOMAIN NameLen :
        Whole(q) /\ NamesCollection(q, n) => ak_db_query_check(q, {n})

(* The comment above DeniedRefused, for every process.                      *)
AlwaysRefused == verdict.due /\ verdict.armed => verdict.refused

(* bpf/helpers.bpf.h:220-221: "a lost concurrent update at most delays      *)
(* arming a capture by one event": a bit no writer takes out stays in the   *)
(* control word once it is there.                                           *)
BitsKept == [][{"db", "block", "persist"} \cap ak_flags \subseteq ak_flags']_blockVars
=============================================================================
