----------------------------- MODULE SessionFlags -----------------------------
(***************************************************************************)
(* The flag words the kernel and the daemon both write: a member's word in *)
(* ak_session_pids and its cgroup's word in ak_posture.  No writer is      *)
(* atomic.  A daemon write is a Lookup and a later Put (armKey, orFlags,   *)
(* SetPidEgressDeny, setPostureBit), a kernel write a lookup and a later   *)
(* update (ak_lsm_file_open); each is two steps here, with the value read  *)
(* kept in between.  There is one session, an unmanaged one (the sweep     *)
(* reaches no process of a managed one), in one cgroup, and the daemon is  *)
(* in enforce mode.                                                        *)
(***************************************************************************)
EXTENDS Integers, FiniteSets

CONSTANTS
    Procs,          \* pids
    Root,           \* the agent, which is armed at the start
    Cgroup,         \* its cgroup's key in ak_sessions
    Shifts,         \* the sets of goroutines that may be the ones to write
    Full,           \* the maps, of {"pids", "posture"}, with no room for a new key
    MaxForks,       \* bound: births
    MaxReloads      \* bound: policy reloads

\* The daemon's writers of the words: handleSyscalls, reArmSweep,
\* handleActions and the policy watcher.
Goroutines == {"handler", "sweep", "actions", "watcher"}

ASSUME FlagsAssumption ==
    /\ Root \in Procs /\ Cgroup \notin Procs
    /\ Shifts \subseteq SUBSET Goroutines
    /\ Full \subseteq {"pids", "posture"}
    /\ MaxForks \in Nat /\ MaxReloads \in Nat

Bits == {"monitor", "enforce", "code", "egress"}
PostureBits == {"code", "egress"}
Keys == Procs \cup {Cgroup}

VARIABLES
    live,      \* processes
    word,      \* ak_session_pids and ak_sessions; {} when the key is absent
    posture,   \* ak_posture of the cgroup, a subset of PostureBits
    secret,    \* processes that have got hold of a secret's contents
    hook,      \* hook[p]: a file_open of p between two of its map accesses
    shift,     \* the goroutines at work in this behaviour
    rmw,       \* rmw[g]: a Lookup of goroutine g with its Put outstanding
    denyCode,  \* BPFEnforcer.denyCode
    owed,      \* pids handleSyscalls has registered and not yet upgraded
    todo,      \* keys a reload's EnforceSession has still to arm
    forks, reloads

kernelVars == <<live, secret, hook, forks>>
daemonVars == <<shift, rmw, denyCode, owed, todo, reloads>>
fvars == <<kernelVars, daemonVars, word, posture>>

NoHook == [at |-> "none", flags |-> {}, posture |-> {}]
NoWrite == [op |-> "none", key |-> Root, cur |-> {}, want |-> {}]

\* The word of a freshly armed member.
Want == {"monitor", "enforce"} \cup IF denyCode THEN {"code"} ELSE {}

FInit ==
    /\ live = {Root} /\ secret = {}
    /\ denyCode \in BOOLEAN
    /\ word = [k \in Keys |-> IF k \in {Root, Cgroup} THEN Want ELSE {}]
    /\ posture = IF denyCode THEN {"code"} ELSE {}
    /\ hook = [p \in Procs |-> NoHook]
    /\ shift \in Shifts
    /\ rmw = [g \in Goroutines |-> NoWrite]
    /\ owed = {} /\ todo = {}
    /\ forks = 0 /\ reloads = 0
-----------------------------------------------------------------------------
(* The kernel.                                                             *)

\* An update of the key, refused when it is new and the map is full.
Stored(k, v) ==
    IF word[k] = {} /\ "pids" \in Full THEN word ELSE [word EXCEPT ![k] = v]

\* ak_session_flags: the pid's word, else its cgroup's.
ak_session_flags(p) == IF word[p] # {} THEN word[p] ELSE word[Cgroup]

\* A birth; the child has its parent's memory.  The birth hooks copy the
\* parent's word, unless neither of them sees the birth.
Fork(p, c, seen) ==
    /\ forks < MaxForks /\ forks' = forks + 1
    /\ p \in live /\ c \notin live
    /\ live' = live \cup {c}
    /\ word' = IF seen /\ word[p] # {} THEN Stored(c, word[p]) ELSE word
    /\ secret' = IF p \in secret THEN secret \cup {c} ELSE secret
    /\ UNCHANGED <<hook, daemonVars, posture>>

Exit(p) ==
    /\ p \in live \ {Root} /\ hook[p] = NoHook
    /\ live' = live \ {p}
    /\ word' = [word EXCEPT ![p] = {}]
    /\ secret' = secret \ {p}
    /\ UNCHANGED <<hook, forks, daemonVars, posture>>

\* A read-open of a marked path: the flags are read at entry ..
fileOpen(p) ==
    /\ p \in live /\ hook[p] = NoHook
    /\ "enforce" \in ak_session_flags(p)
    /\ hook' = [hook EXCEPT ![p] = [at |-> "pid", flags |-> ak_session_flags(p), posture |-> {}]]
    /\ UNCHANGED <<live, secret, forks, daemonVars, word, posture>>

\* .. the member's word is overwritten and the posture looked up ..
fileOpenPid(p) ==
    /\ hook[p].at = "pid"
    /\ word' = Stored(p, hook[p].flags \cup {"egress"})
    /\ hook' = [hook EXCEPT ![p] = [at |-> IF word[p] = {} /\ "pids" \in Full THEN "refused" ELSE "armed",
                                    flags |-> {}, posture |-> posture]]
    /\ UNCHANGED <<live, secret, forks, daemonVars, posture>>

\* .. and the posture overwritten.  The open is refused, and the secret not
\* read, when neither could be stored.
PostureUnarmed(cur) == cur
PostureArmed(cur) == cur \cup {"egress"}

fileOpenPosture(p) ==
    LET full == posture = {} /\ "posture" \in Full IN
    /\ hook[p].at \in {"armed", "refused"}
    /\ posture' = IF full THEN posture ELSE PostureArmed(hook[p].posture)
    /\ secret' = IF full /\ hook[p].at = "refused" THEN secret ELSE secret \cup {p}
    /\ hook' = [hook EXCEPT ![p] = NoHook]
    /\ UNCHANGED <<live, forks, daemonVars, word>>

\* Where a connect may go, as far as ak_lsm_socket_connect tells apart: the port
\* of an IPv4 or IPv6 address, and the other families.
Destinations == {"inet", "dns", "other"}

\* The deny-egress part of ak_lsm_socket_connect: a connect of p to d that starts
\* now is refused.
ConnectRefused(p, d) ==
    /\ d # "other"
    /\ "enforce" \in ak_session_flags(p)
    /\ "egress" \in ak_session_flags(p) \cup posture
    /\ d # "dns"
-----------------------------------------------------------------------------
(* The daemon's writes.                                                    *)

Lookup(g, op, k, cur, want) ==
    /\ rmw[g] = NoWrite
    /\ rmw' = [rmw EXCEPT ![g] = [op |-> op, key |-> k, cur |-> cur, want |-> want]]
    /\ UNCHANGED <<shift, kernelVars, word, posture>>

\* The goroutine goes on without a Put: the value read needs no change.
NoPut(g) ==
    /\ rmw[g] = NoWrite
    /\ UNCHANGED <<shift, rmw, kernelVars, word, posture>>

\* What armKey makes of the word it read: the union, less deny-tainted-code
\* when denyCode, as armKey sees it, is off.
ArmUnion(cur, want, code) == cur \cup want

ArmKey(cur, want, code) ==
    IF cur = {} \/ code THEN cur \cup want ELSE (cur \cup want) \ {"code"}

\* The word armKey would leave unchanged, denyCode being what it is now.
UpToDate(k) == ArmKey(word[k], Want, denyCode) = word[k]

armKey(g, k) ==
    IF UpToDate(k) THEN NoPut(g) ELSE Lookup(g, "arm", k, word[k], Want)

\* reArmSweep comes to p, of an unmanaged session, when it has something to
\* write.
Sweep(p) ==
    /\ "sweep" \in shift /\ p \in live
    /\ ~UpToDate(p)
    /\ armKey("sweep", p)
    /\ UNCHANGED <<denyCode, owed, todo, reloads>>

\* handleSyscalls takes an exec record: RegisterPID (orFlags) ..
RegisterPID(p) ==
    /\ "handler" \in shift /\ p \in live /\ owed = {}
    /\ IF "monitor" \in word[p] THEN NoPut("handler")
       ELSE Lookup("handler", "or", p, word[p], {"monitor"})
    /\ owed' = {p}
    /\ UNCHANGED <<denyCode, todo, reloads>>

\* .. and then EnforcePID.
EnforcePID(p) ==
    /\ "handler" \in shift /\ p \in owed
    /\ armKey("handler", p)
    /\ owed' = {}
    /\ UNCHANGED <<denyCode, todo, reloads>>

\* handleActions arms the tainted session: SetNetPosture(.., true), and
\* SetPidEgressDeny for an armed pid that lacks the bit.
SetNetPosture ==
    /\ "actions" \in shift /\ "egress" \notin posture
    /\ Lookup("actions", "posture", Root, posture, posture \cup {"egress"})
    /\ UNCHANGED <<denyCode, owed, todo, reloads>>

SetPidEgressDeny(p) ==
    /\ "actions" \in shift
    /\ word[p] # {} /\ "egress" \notin word[p]
    /\ Lookup("actions", "or", p, word[p], {"egress"})
    /\ UNCHANGED <<denyCode, owed, todo, reloads>>

\* applyPolicies: SetDenyCode, SetTaintedCodePosture of the session ..
SetDenyCode(b) ==
    LET next == IF b THEN posture \cup {"code"} ELSE posture \ {"code"} IN
    /\ "watcher" \in shift /\ todo = {}
    /\ reloads < MaxReloads /\ reloads' = reloads + 1
    /\ denyCode' = b
    /\ IF next = posture THEN NoPut("watcher")
       ELSE Lookup("watcher", "posture", Root, posture, next)
    /\ todo' = live \cup {Cgroup}
    /\ UNCHANGED owed

\* .. and EnforceSession, which arms the cgroup's key and then the pids'.
EnforceSession(k) ==
    /\ "watcher" \in shift /\ k \in todo
    /\ k # Cgroup => Cgroup \notin todo
    /\ armKey("watcher", k)
    /\ todo' = todo \ {k}
    /\ UNCHANGED <<denyCode, owed, reloads>>

\* armKey reads denyCode after its Lookup under no lock: it sees the value of
\* then, which want tells, or the one of now.
Put(g) ==
    LET w == rmw[g] IN
    /\ w # NoWrite
    /\ \E code \in {"code" \in w.want, denyCode} :
          word' = CASE w.op = "arm" -> Stored(w.key, ArmKey(w.cur, w.want, code))
                    [] w.op = "or" -> Stored(w.key, w.cur \cup w.want)
                    [] OTHER -> word
    /\ posture' = IF w.op # "posture" \/ (posture = {} /\ "posture" \in Full) THEN posture
                  ELSE w.want
    /\ rmw' = [rmw EXCEPT ![g] = NoWrite]
    /\ UNCHANGED <<shift, kernelVars, denyCode, owed, todo, reloads>>
-----------------------------------------------------------------------------
FNext ==
    \/ \E p, c \in Procs, seen \in BOOLEAN : Fork(p, c, seen)
    \/ \E p \in Procs :
          \/ Exit(p) \/ fileOpen(p) \/ fileOpenPid(p) \/ fileOpenPosture(p)
          \/ Sweep(p) \/ RegisterPID(p) \/ EnforcePID(p) \/ SetPidEgressDeny(p)
    \/ SetNetPosture
    \/ \E b \in BOOLEAN : SetDenyCode(b)
    \/ \E k \in Keys : EnforceSession(k)
    \/ \E g \in Goroutines : Put(g)

FSpec == FInit /\ [][FNext]_fvars

\* A Put follows its Lookup, the handler and a reload finish what they began,
\* and the sweep, on its ticker, comes round to every process.
FFairSpec ==
    /\ FSpec
    /\ \A g \in Goroutines : WF_fvars(Put(g))
    /\ \A p \in Procs : WF_fvars(EnforcePID(p)) /\ SF_fvars(Sweep(p))
    /\ \A k \in Keys : WF_fvars(EnforceSession(k))
-----------------------------------------------------------------------------
Opens == [at : {"none", "pid", "armed", "refused"}, flags : SUBSET Bits, posture : SUBSET PostureBits]
Writes == [op : {"none", "arm", "or"}, key : Keys, cur : SUBSET Bits, want : SUBSET Bits]
    \cup [op : {"posture"}, key : Keys, cur : SUBSET PostureBits, want : SUBSET PostureBits]

\* Type: words and postures hold their flags, and hooks and secrets are those of
\* live processes.
FTypeOK ==
    /\ live \subseteq Procs /\ secret \subseteq live
    /\ \A p \in Procs : hook[p].at # "none" => p \in live
    /\ word \in [Keys -> SUBSET Bits] /\ posture \subseteq PostureBits
    /\ hook \in [Procs -> Opens] /\ shift \in Shifts /\ rmw \in [Goroutines -> Writes]
    /\ denyCode \in BOOLEAN /\ owed \subseteq Procs /\ todo \subseteq Keys
    /\ forks \in 0..MaxForks /\ reloads \in 0..MaxReloads

\* No reload writes the posture, and ak_posture has room for the cgroup.
PostureKept == "watcher" \notin shift /\ "posture" \notin Full

(* A process that holds the contents of a secret it opened under            *)
(* enforcement can start no connection to an IPv4 or IPv6 address but a DNS *)
(* one.  The sweep, a registration or an action may put back a word it read *)
(* before the hook armed it, but the hook's second arm, on the cgroup, then *)
(* holds; only a process whose word has lost "enforce" escapes it, and only *)
(* a registration takes that away (bpf/enforcer.bpf.c:123-146, 431-452;     *)
(* internal/enforce/enforce.go:548-577; cmd/agentknox/daemon.go:894-895).   *)
SecretDenied ==
    PostureKept => \A p \in secret :
        /\ "enforce" \in ak_session_flags(p) => ConnectRefused(p, "inet")
        /\ "handler" \notin shift => ConnectRefused(p, "inet")

(* bpf/enforcer.bpf.c:127: "a read-open of a daemon-marked secret bars all  *)
(* subsequent egress".                                                      *)
SecretBarsAll ==
    PostureKept => \A p \in secret, d \in Destinations : ConnectRefused(p, d)

(* internal/enforce/enforce.go:548-551: armKey "writes flags into a session *)
(* map without dropping bits already in force": the egress bit of a live    *)
(* process outlives every Put of its word.                                  *)
ArmKeepsBits ==
    [][\A p \in live \cap live' : "egress" \in word[p] => "egress" \in word'[p]]_fvars

(* internal/sensor/loader.go:259-260: "registering a key never clears bits  *)
(* another writer already set".                                             *)
RegisterKeeps ==
    [][\A p \in live \cap live' : "enforce" \in word[p] => "enforce" \in word'[p]]_fvars

\* p's word says what the policy in force wants.
WordCurrent(p) == p \in live => /\ {"monitor", "enforce"} \subseteq word[p]
                                /\ "code" \in word[p] <=> denyCode

(* Whatever stale word a Put or a hook wrote back, once the reloads and the *)
(* births stop the sweep brings every process of the session back to the    *)
(* flags of the loaded policy (internal/enforce/enforce.go:551-553,         *)
(* 581-595; cmd/agentknox/daemon.go:279-328, 1330-1347).                    *)
WordsConverge == \A p \in Procs : []<>WordCurrent(p)
=============================================================================
