----------------------------- MODULE WireCapture -----------------------------
(***************************************************************************)
(* The probes that lift plaintext out of a session's processes: TLS        *)
(* libraries and Go's crypto/tls (bpf/semantic.bpf.c), DNS sockets         *)
(* (bpf/network.bpf.c) and the pipes of stdio MCP servers                  *)
(* (bpf/stdio.bpf.c).  A read is captured in two halves: the entry probe   *)
(* stashes the caller's buffer under pid_tgid, the return probe reads what *)
(* the call put there.  Between the halves the session may end or begin,   *)
(* the capture be disarmed, the thread die, or the Go scheduler run        *)
(* another goroutine on the thread.  A flow is a line of control: a thread *)
(* of a C program, or a goroutine.  AgentKnox's own process, which every   *)
(* hook excludes, is not among Procs.                                      *)
(***************************************************************************)
EXTENDS Integers, FiniteSets

CONSTANTS
    Procs, Threads, Flows,
    Tgid,          \* the process of a thread
    Goroutines,    \* the flows the Go scheduler may move between threads
    Home,          \* the thread a flow starts on
    Nowhere,       \* the place of a parked goroutine
    Args,          \* a call's buffer and connection object
    Fds, NoFd,
    Writers,       \* the daemon's goroutines that write ak_flags
    Workloads,     \* the sets of <<flow, function>> calls a behaviour may have
    Lens,          \* byte counts
    TlsMax,        \* AK_TLS_MAX
    StrMax,        \* AK_MAX_STR, a power of two
    MaxCalls,      \* bound: calls that are probed
    MaxFlips,      \* bound: the daemon's writes to session, fd and flag maps
    MaxMoves       \* bound: parked goroutines and abandoned calls

ASSUME WireAssumption ==
    /\ Tgid \in [Threads -> Procs] /\ Home \in [Flows -> Threads]
    /\ \A f, g \in Flows : Home[f] = Home[g] => f = g
    /\ Goroutines \subseteq Flows /\ Nowhere \notin Threads
    /\ NoFd \notin Fds /\ Writers \cap Flows = {}
    /\ Lens \subseteq Nat /\ TlsMax \in Nat \ {0, 1} /\ StrMax \in Nat \ {0, 1}
    /\ MaxCalls \in Nat /\ MaxFlips \in Nat /\ MaxMoves \in Nat

\* The per-thread stash map of each function that is captured at its return.
StashOf ==
    [SSL_read |-> "ak_ssl_read_args", go_tls_read |-> "ak_go_read_args",
     EVP_AEAD_CTX_open |-> "ak_aead_open_args", chacha20_poly1305_open |-> "ak_asm_out_args",
     aesni_gcm_decrypt |-> "ak_asm_out_args", aes_gcm_decrypt_avx512 |-> "ak_asm_out_args",
     read |-> "ak_pipe_read_args", recvfrom |-> "ak_dns_read_args",
     recvmsg |-> "ak_dns_read_args"]
Reads == DOMAIN StashOf
Stashes == {StashOf[fn] : fn \in Reads}
Syscalls == {"read", "recvfrom", "recvmsg"}

VARIABLES
    work,      \* the functions the flows of this behaviour may call
    at,        \* at[f]: the thread flow f runs on, or Nowhere
    call,      \* call[f]: the probed call f is in
    stash,     \* stash[m][t]: the entry of thread t in stash map m
    suspect,   \* <<m, t>> whose entry outlived its call, or was left by a
               \* goroutine that is off the thread
    monitor,   \* the processes ak_session_flags says are monitored
    ak_flags,  \* the control word, a subset of Flags
    rmw,       \* rmw[w]: the word w is about to write to ak_flags
    fds,       \* ak_mcp_fds, ak_dns_fds and ak_db_fds
    last,      \* the record the last step submitted
    calls, flips, moves

probeVars == <<at, call, stash, suspect, moves>>
mapVars == <<monitor, ak_flags, rmw, fds, flips>>
wvars == <<work, probeVars, mapVars, last, calls>>

NoCall == [fn |-> "none", arg |-> "none", fd |-> NoFd, len |-> 0]
NoStash == [arg |-> "none", len |-> 0]
NoRecord == [fn |-> "none", own |-> "none", got |-> "none", n |-> 0, data |-> 0,
             fault |-> FALSE, suspect |-> FALSE]
NoWord == {"none"}
Flags == {"mcp", "db", "block", "persist"}

WInit ==
    /\ work \in Workloads
    /\ at = Home
    /\ call = [f \in Flows |-> NoCall]
    /\ stash = [m \in Stashes |-> [t \in Threads |-> NoStash]]
    /\ suspect = {}
    /\ monitor \in SUBSET Procs
    /\ ak_flags = {} /\ rmw = [w \in Flows \cup Writers |-> NoWord]
    /\ fds = [mcp |-> {}, dns |-> {}, db |-> {}]
    /\ last = NoRecord
    /\ calls = 0 /\ flips = 0 /\ moves = 0

Proc(f) == Tgid[Home[f]]
Key(f, fd) == <<Proc(f), fd>>
Monitored(f) == Proc(f) \in monitor
-----------------------------------------------------------------------------
(* What a record carries.                                                  *)

Least(a, b) == IF a < b THEN a ELSE b

\* The payload's length on ak_semantic, and on ak_events, where the clamped
\* length is masked for the verifier.
ClampTls(n) == Least(n, TlsMax - 1)
ClampLate(n) == Least(n, StrMax) % StrMax
ClampStr(n) == Least(n, StrMax - 1) % StrMax

Payload(fn, n) == IF fn \in {"recvfrom", "recvmsg", "sendto"} THEN ClampStr(n) ELSE ClampTls(n)

\* A record for a call of fn whose buffer is own, filled from got; the user
\* memory may be unreadable.
Rec(fn, own, got, n, fault, doubt) ==
    [fn |-> fn, own |-> own, got |-> got, n |-> n,
     data |-> IF fault THEN 0 ELSE Payload(fn, n), fault |-> fault, suspect |-> doubt]

\* ak_emit_tls and the DNS emits: nothing for an empty payload, or when the
\* ring has no room.
Emit(fn, own, got, n, doubt) ==
    last' \in {NoRecord} \cup
              {Rec(fn, own, got, n, fault, doubt) : fault \in IF n > 0 THEN BOOLEAN ELSE {}}

Called(fn) == \E f \in Flows : <<f, fn>> \in work

Ready(f, fn) ==
    /\ <<f, fn>> \in work /\ calls < MaxCalls
    /\ at[f] # Nowhere /\ call[f] = NoCall /\ rmw[f] = NoWord
-----------------------------------------------------------------------------
(* The two halves of a captured read.                                      *)

\* The entry probe; gate is what it tests before it stashes.
Enter(f, fn, arg, fd, len, gate) ==
    LET m == StashOf[fn] IN
    /\ Ready(f, fn) /\ calls' = calls + 1
    /\ call' = [call EXCEPT ![f] = [fn |-> fn, arg |-> arg, fd |-> fd, len |-> len]]
    /\ stash' = IF gate THEN [stash EXCEPT ![m][at[f]] = [arg |-> arg, len |-> len]] ELSE stash
    /\ suspect' = IF gate THEN suspect \ {<<m, at[f]>>} ELSE suspect
    /\ last' = NoRecord
    /\ UNCHANGED <<work, at, moves, mapVars>>

Entry(f, fn) == stash[StashOf[fn]][at[f]]

DroppedPointer(m, t) == [stash EXCEPT ![m][t].arg = "none"]
Kept(m, t) == stash
Dropped(m, t) == [stash EXCEPT ![m][t] = NoStash]

\* A return probe that tests its gate before it looks at the stash, and leaves
\* the entry alone when the gate is shut.  It emits n bytes.
ExitGated(f, fn, gate, n) ==
    LET m == StashOf[fn]  t == at[f]  s == Entry(f, fn) IN
    /\ at[f] # Nowhere /\ call[f].fn = fn
    /\ call' = [call EXCEPT ![f] = NoCall]
    /\ stash' = IF gate THEN Dropped(m, t) ELSE stash
    /\ suspect' = IF gate \/ s = NoStash THEN suspect \ {<<m, t>>} ELSE suspect \cup {<<m, t>>}
    /\ IF gate /\ s # NoStash
       THEN Emit(fn, call[f].arg, s.arg, n, <<m, t>> \in suspect)
       ELSE last' = NoRecord
    /\ UNCHANGED <<work, at, moves, mapVars, calls>>

\* A return probe that takes the entry out first and tests the gate after.
TakenIfRead(m, t, ret) == IF ret > 0 THEN Dropped(m, t) ELSE stash
Taken(m, t, ret) == Dropped(m, t)

ExitTaking(f, fn, gate, ret) ==
    LET m == StashOf[fn]  t == at[f]  s == Entry(f, fn) IN
    /\ at[f] # Nowhere /\ call[f].fn = fn
    /\ call' = [call EXCEPT ![f] = NoCall]
    /\ stash' = Taken(m, t, ret)
    /\ suspect' = suspect \ {<<m, t>>}
    /\ IF s # NoStash /\ gate THEN Emit(fn, call[f].arg, s.arg, ret, <<m, t>> \in suspect)
       ELSE last' = NoRecord
    /\ UNCHANGED <<work, at, moves, mapVars, calls>>

\* Outbound plaintext, which is there at entry.
Write(f, fn, arg, len) ==
    /\ Ready(f, fn) /\ calls' = calls + 1
    /\ IF Monitored(f) THEN Emit(fn, arg, arg, len, FALSE) ELSE last' = NoRecord
    /\ UNCHANGED <<work, probeVars, mapVars>>
-----------------------------------------------------------------------------
(* bpf/semantic.bpf.c.                                                     *)

ak_ssl_write(f, arg, num) == Write(f, "SSL_write", arg, num)
ak_ssl_read_enter(f, arg) == Enter(f, "SSL_read", arg, NoFd, 0, Monitored(f))
ak_ssl_read_exit(f, ret) == ExitGated(f, "SSL_read", Monitored(f), ret)

ak_gotls_write(f, arg, len) == Write(f, "go_tls_write", arg, len)
ak_gotls_read_enter(f, arg) == Enter(f, "go_tls_read", arg, NoFd, 0, Monitored(f))
ak_gotls_read_ret(f, n) == ExitTaking(f, "go_tls_read", Monitored(f), n)

ak_aead_seal(f, arg, len) == Write(f, "EVP_AEAD_CTX_seal", arg, len)
ak_aead_open_enter(f, arg) == Enter(f, "EVP_AEAD_CTX_open", arg, NoFd, 0, Monitored(f))
ak_aead_open_exit(f, ok, len) ==
    ExitGated(f, "EVP_AEAD_CTX_open", Monitored(f), IF ok THEN len ELSE 0)

ak_chacha_seal(f, arg, len) == Write(f, "chacha20_poly1305_seal", arg, len)
ak_chacha_open_enter(f, arg, len) ==
    Enter(f, "chacha20_poly1305_open", arg, NoFd, len, Monitored(f))
ak_chacha_open_exit(f) ==
    ExitGated(f, "chacha20_poly1305_open", Monitored(f), Entry(f, "chacha20_poly1305_open").len)

\* The kernel's bulk loop returns how many bytes it did; 0 stands for all.
ak_aesgcm_enc(f, arg, len) == Write(f, "aesni_gcm_encrypt", arg, len)
ak_aesgcm_dec_enter(f, arg, len) == Enter(f, "aesni_gcm_decrypt", arg, NoFd, len, Monitored(f))
ak_aesgcm_dec_exit(f, ret) ==
    ExitGated(f, "aesni_gcm_decrypt", Monitored(f),
              IF ret # 0 THEN ret ELSE Entry(f, "aesni_gcm_decrypt").len)

ak_aesgcm512_enc(f, arg, len) == Write(f, "aes_gcm_encrypt_avx512", arg, len)
ak_aesgcm512_dec_enter(f, arg, len) ==
    Enter(f, "aes_gcm_decrypt_avx512", arg, NoFd, len, Monitored(f))
ak_aesgcm512_dec_exit(f) ==
    ExitGated(f, "aes_gcm_decrypt_avx512", Monitored(f), Entry(f, "aes_gcm_decrypt_avx512").len)
-----------------------------------------------------------------------------
(* bpf/stdio.bpf.c and bpf/network.bpf.c.                                  *)

\* Only the entry half looks at the descriptor.
ak_stdio_read_enter(f, arg, fd) ==
    Enter(f, "read", arg, fd, 0, "mcp" \in ak_flags /\ Key(f, fd) \in fds.mcp)
ak_stdio_read_exit(f, ret) == ExitGated(f, "read", "mcp" \in ak_flags, ret)

ak_recvfrom_enter(f, arg, fd) ==
    Enter(f, "recvfrom", arg, fd, 0, Monitored(f) /\ Key(f, fd) \in fds.dns)
ak_recvfrom_exit(f, ret) == ExitTaking(f, "recvfrom", Monitored(f), ret)

\* The msghdr or its first iovec may be null or unreadable.
ak_recvmsg_enter(f, arg, fd, iov) ==
    Enter(f, "recvmsg", arg, fd, 0, Monitored(f) /\ Key(f, fd) \in fds.dns /\ iov)
ak_recvmsg_exit(f, ret) == ExitTaking(f, "recvmsg", Monitored(f), ret)

\* sendto to port 53 marks the socket and emits the query.
ak_sendto(f, arg, fd, len) ==
    /\ Ready(f, "sendto") /\ calls' = calls + 1
    /\ IF Monitored(f)
       THEN /\ fds' = [fds EXCEPT !.dns = @ \cup {Key(f, fd)}]
            /\ Emit("sendto", arg, arg, len, FALSE)
       ELSE UNCHANGED fds /\ last' = NoRecord
    /\ UNCHANGED <<work, probeVars, monitor, ak_flags, rmw, flips>>

\* connect to dest, a subset of {"dns", "db"}.  Without room on the ring it
\* returns before it marks anything.  ak_flags_or_bit reads the word here ..
ak_connect(f, fd, dest, room) ==
    /\ Ready(f, "connect") /\ calls' = calls + 1
    /\ IF Monitored(f) /\ room
       THEN /\ fds' = [fds EXCEPT !.dns = IF "dns" \in dest THEN @ \cup {Key(f, fd)} ELSE @,
                                  !.db = IF "db" \in dest THEN @ \cup {Key(f, fd)} ELSE @]
            /\ rmw' = IF "db" \in dest \ ak_flags
                      THEN [rmw EXCEPT ![f] = ak_flags \cup {"db"}] ELSE rmw
       ELSE UNCHANGED <<fds, rmw>>
    /\ last' = NoRecord
    /\ UNCHANGED <<work, probeVars, monitor, ak_flags, flips>>
-----------------------------------------------------------------------------
(* The daemon, and what happens around the probes.                         *)

Daemon == flips < MaxFlips /\ flips' = flips + 1 /\ last' = NoRecord

\* A session begins or ends for p.
RegisterPID(p) ==
    /\ Daemon /\ p \notin monitor /\ monitor' = monitor \cup {p}
    /\ UNCHANGED <<work, probeVars, ak_flags, rmw, fds, calls>>
UnregisterPID(p) ==
    /\ Daemon /\ p \in monitor /\ monitor' = monitor \ {p}
    /\ UNCHANGED <<work, probeVars, ak_flags, rmw, fds, calls>>

RegisterMcpFd(p, fd) ==
    /\ Daemon /\ Called("read")
    /\ fds' = [fds EXCEPT !.mcp = @ \cup {<<p, fd>>}]
    /\ UNCHANGED <<work, probeVars, monitor, ak_flags, rmw, calls>>
UnregisterMcpFd(p, fd) ==
    /\ Daemon /\ <<p, fd>> \in fds.mcp
    /\ fds' = [fds EXCEPT !.mcp = @ \ {<<p, fd>>}]
    /\ UNCHANGED <<work, probeVars, monitor, ak_flags, rmw, calls>>

\* SetMcpArmed, and armFlag as installDBRule and TaintPersist call it: a Lookup
\* of the word, and a Put when it must change.
FlagLookup(w, next) ==
    /\ Daemon /\ rmw[w] = NoWord /\ next # ak_flags
    /\ rmw' = [rmw EXCEPT ![w] = next]
    /\ UNCHANGED <<work, probeVars, monitor, ak_flags, fds, calls>>
SetMcpArmed(w, on) ==
    Called("read") /\ FlagLookup(w, IF on THEN ak_flags \cup {"mcp"} ELSE ak_flags \ {"mcp"})
armFlag(w, bit) == Called("connect") /\ FlagLookup(w, ak_flags \cup {bit})

\* .. and the Put, or the update of ak_flags_or_bit.
FlagPut(w) ==
    /\ rmw[w] # NoWord
    /\ ak_flags' = rmw[w] /\ rmw' = [rmw EXCEPT ![w] = NoWord]
    /\ last' = NoRecord
    /\ UNCHANGED <<work, probeVars, monitor, fds, flips, calls>>

\* The LRU maps of DNS and database sockets drop an entry.
EvictFd(k) ==
    /\ Daemon /\ k \in fds.dns \cup fds.db
    /\ fds' = [fds EXCEPT !.dns = @ \ {k}, !.db = @ \ {k}]
    /\ UNCHANGED <<work, probeVars, monitor, ak_flags, rmw, calls>>

\* The entry a flow leaves behind on its thread when it goes without a return.
Left(f) ==
    LET m == StashOf[call[f].fn] IN
    IF stash[m][at[f]] = NoStash THEN {} ELSE {<<m, at[f]>>}

\* A goroutine blocks in its read, and later goes on, on any free thread.
Park(f) ==
    /\ f \in Goroutines /\ at[f] # Nowhere /\ call[f].fn = "go_tls_read"
    /\ moves < MaxMoves /\ moves' = moves + 1
    /\ at' = [at EXCEPT ![f] = Nowhere]
    /\ suspect' = suspect \cup Left(f)
    /\ last' = NoRecord
    /\ UNCHANGED <<work, call, stash, mapVars, calls>>
Resume(f, t) ==
    /\ at[f] = Nowhere /\ Tgid[t] = Proc(f) /\ \A g \in Flows : at[g] # t
    /\ at' = [at EXCEPT ![f] = t]
    /\ last' = NoRecord
    /\ UNCHANGED <<work, call, stash, suspect, moves, mapVars, calls>>

\* A library call ends without reaching its return probe: the thread is
\* killed in it, and its id used again, or the call unwinds.  A system call
\* always passes its exit tracepoint.
Abandon(f) ==
    /\ at[f] # Nowhere /\ call[f].fn \in Reads \ Syscalls
    /\ moves < MaxMoves /\ moves' = moves + 1
    /\ call' = [call EXCEPT ![f] = NoCall]
    /\ suspect' = suspect \cup Left(f)
    /\ last' = NoRecord
    /\ UNCHANGED <<work, at, stash, mapVars, calls>>
-----------------------------------------------------------------------------
TlsWrite(f) == \E a \in Args, n \in Lens :
    \/ ak_ssl_write(f, a, n) \/ ak_gotls_write(f, a, n) \/ ak_aead_seal(f, a, n)
    \/ ak_chacha_seal(f, a, n) \/ ak_aesgcm_enc(f, a, n) \/ ak_aesgcm512_enc(f, a, n)

TlsEnter(f) == \E a \in Args :
    \/ ak_ssl_read_enter(f, a) \/ ak_gotls_read_enter(f, a) \/ ak_aead_open_enter(f, a)
    \/ \E n \in Lens : \/ ak_chacha_open_enter(f, a, n) \/ ak_aesgcm_dec_enter(f, a, n)
                       \/ ak_aesgcm512_dec_enter(f, a, n)

TlsExit(f) ==
    \/ \E n \in Lens : \/ ak_ssl_read_exit(f, n) \/ ak_gotls_read_ret(f, n)
                       \/ ak_aesgcm_dec_exit(f, n)
                       \/ \E ok \in BOOLEAN : ak_aead_open_exit(f, ok, n)
    \/ ak_chacha_open_exit(f) \/ ak_aesgcm512_dec_exit(f)

SysEnter(f) == \E fd \in Fds :
    \/ \E a \in Args : \/ ak_stdio_read_enter(f, a, fd) \/ ak_recvfrom_enter(f, a, fd)
                       \/ \E iov \in BOOLEAN : ak_recvmsg_enter(f, a, fd, iov)
                       \/ \E n \in Lens : ak_sendto(f, a, fd, n)
    \/ \E dest \in {{}, {"dns"}, {"db"}}, room \in BOOLEAN : ak_connect(f, fd, dest, room)

SysExit(f) == \E n \in Lens :
    ak_stdio_read_exit(f, n) \/ ak_recvfrom_exit(f, n) \/ ak_recvmsg_exit(f, n)

DaemonStep ==
    \/ \E p \in Procs : RegisterPID(p) \/ UnregisterPID(p)
    \/ \E p \in Procs, fd \in Fds : \/ RegisterMcpFd(p, fd) \/ UnregisterMcpFd(p, fd)
                                    \/ EvictFd(<<p, fd>>)
    \/ \E w \in Writers : armFlag(w, "block") \/ armFlag(w, "persist") \/ \E on \in BOOLEAN : SetMcpArmed(w, on)
    \/ \E w \in Flows \cup Writers : FlagPut(w)

WNext ==
    \/ \E f \in Flows : \/ TlsWrite(f) \/ TlsEnter(f) \/ TlsExit(f) \/ SysEnter(f) \/ SysExit(f)
                        \/ Park(f) \/ Abandon(f) \/ \E t \in Threads : Resume(f, t)
    \/ DaemonStep

WSpec == WInit /\ [][WNext]_wvars
-----------------------------------------------------------------------------
Calls == {NoCall} \cup [fn : Reads \cup {"write", "db_sendto"}, arg : Args,
                        fd : Fds \cup {NoFd}, len : Lens \cup {0}]
Entries == [arg : Args, len : Lens \cup {0}] \cup {NoStash}

\* Type: calls, stash entries and descriptor marks are what the probes write.
WTypeOK ==
    /\ work \in Workloads /\ at \in [Flows -> Threads \cup {Nowhere}]
    /\ call \in [Flows -> Calls] /\ stash \in [Stashes -> [Threads -> Entries]]
    /\ suspect \subseteq Stashes \X Threads
    /\ monitor \subseteq Procs /\ ak_flags \subseteq Flags
    /\ rmw \in [Flows \cup Writers -> (SUBSET Flags) \cup {NoWord}]
    /\ \A k \in fds.mcp \cup fds.dns \cup fds.db : k \in Procs \X Fds
    /\ calls \in 0..MaxCalls /\ flips \in 0..MaxFlips /\ moves \in 0..MaxMoves

(* A DNS answer is read from the buffer of the receive that returned it: a  *)
(* session that ends, begins, or a socket whose mark is evicted between the *)
(* two halves loses the answer, and never pairs it with another call's      *)
(* buffer (bpf/network.bpf.c:174-290).                                      *)
DnsOwn == last.fn \in {"recvfrom", "recvmsg"} => last.got = last.own

(* The same for the inbound TLS and pipe plaintext, save for the events the *)
(* probes do not guard against: a stash entry left by a return with the     *)
(* gate shut, by a call that never returned, or by a goroutine taken off    *)
(* its thread (bpf/semantic.bpf.c:83-164, 185-215, 259-286, 303-331,        *)
(* 361-388; bpf/stdio.bpf.c:225-256).                                       *)
ReadOwn == last.fn \in Reads /\ ~last.suspect => last.got = last.own

(* bpf/network.bpf.c:153-157: the clamp to "one below the power of two      *)
(* keeps the mask an identity".  A record submitted for a readable payload  *)
(* is never empty, and holds all of a payload shorter than its buffer, on   *)
(* both rings (bpf/semantic.bpf.c:44-67; bpf/network.bpf.c:149-166).        *)
PayloadCarried ==
    last # NoRecord /\ ~last.fault =>
        /\ 0 < last.data /\ last.data <= last.n
        /\ last.n < Least(TlsMax, StrMax) => last.data = last.n

(* bpf/wire.bpf.h:22-23: "16 KiB matches the maximum TLS record plaintext,  *)
(* so one inbound read is captured whole".                                  *)
RecordWhole == last.fn \in Reads \ Syscalls /\ ~last.fault /\ last.n <= TlsMax => last.data = last.n

(* bpf/stdio.bpf.c:6-7: capture is gated per descriptor, "so unrelated      *)
(* read/write traffic is never touched".                                    *)
ReadUntouched == last.fn = "read" => last.got = last.own

(* bpf/semantic.bpf.c:134-135: a Go read that resumes on another thread "is *)
(* missed", and so never reported under another connection.                 *)
GoMissed == last.fn = "go_tls_read" => last.got = last.own
=============================================================================
