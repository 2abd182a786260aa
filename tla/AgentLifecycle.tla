---------------------------- MODULE AgentLifecycle ----------------------------
(***************************************************************************)
(* The kernel's session membership (KernelMembership) and the daemon's     *)
(* sessions (SessionManager) composed as cmd/agentknox/daemon.go composes  *)
(* them.  The kernel tells the daemon of execs and exits through the ring  *)
(* ak_events, which drops a record when it is full; the daemon writes back *)
(* into ak_session_pids and ak_sessions when it onboards a session         *)
(* (onNewSession), handles an exec (handleSyscalls), tears down            *)
(* (onSessionEnded, onMemberExit) and on its periodic sweep (reArmSweep).  *)
(*                                                                         *)
(* Pids of SessionManager is Tids here and Cgroups is every cgroup but the *)
(* unknown one.                                                            *)
(***************************************************************************)
EXTENDS KernelMembership, SessionManager

CONSTANTS
    Sweeper,    \* the reArmSweep goroutine
    NoScan,     \* no /proc snapshot in hand
    RingMax,    \* records ak_events (with the sensor's channel) holds
    ScanProc,   \* pids scanProc finds at startup
    Threaded,   \* processes may start threads
    ExecSigns,  \* what the kernel may recognise in an exec
    MaxBirths,  \* bound: task births
    MaxExecs    \* bound: execve calls

ASSUME LifecycleAssumption ==
    /\ Pids = Tids
    /\ Cgroups = HostCgroups \cup Ids
    /\ Sweeper \notin Workers
    /\ RingMax \in Nat \ {0}
    /\ ScanProc \subseteq Tids
    /\ Threaded \in BOOLEAN
    /\ ExecSigns \subseteq SUBSET Signs
    /\ MaxBirths \in Nat /\ MaxExecs \in Nat
    /\ MaxExecs + Cardinality(ScanProc) <= Cardinality(Ids)

VARIABLES
    ring,      \* ak_events, oldest first
    lost,      \* a record was dropped
    post,      \* <<e>>: handleSyscalls owes exec e its registration; else <<>>
    scan,      \* scan[w]: a /proc snapshot goroutine w is about to arm, or NoScan
    half,      \* half[w]: pids w has registered (MONITOR) and is to enforce
    unscanned, \* pids scanProc has still to visit
    births,    \* births so far
    execs,     \* execve calls so far
    thin,      \* history: keys left with less than SigFlags (Thinned, EnforcePids)
    cut        \* history: pids of sessions that a thread's exit has ended

envVars == <<births, execs, cut>>
daemonVars == <<post, scan, half, unscanned>>
lvars == <<kvars, mvars, ring, lost, daemonVars, envVars, thin>>

\* Agents that were running before the hooks were attached are in no map.
LInit ==
    /\ alive = ScanProc /\ tree = ScanProc
    /\ image = [t \in Tids |-> IF t \in ScanProc THEN {"file"} ELSE {}]
    /\ tgid = [t \in Tids |-> t] /\ parent = [t \in Tids |-> Init1]
    /\ cgroup \in [Tids -> HostCgroups]
    /\ pids = [t \in Tids |-> {}] /\ sessions = [c \in Cgroups |-> {}]
    /\ pending = [t \in Tids |-> {}] /\ checked = {}
    /\ faulted = FALSE /\ shed = {}
    /\ MInit
    /\ ring = <<>> /\ lost = FALSE /\ post = <<>>
    /\ scan = [w \in Workers \cup {Sweeper} |-> NoScan]
    /\ half = [w \in Workers \cup {Sweeper} |-> {}]
    /\ unscanned = ScanProc
    /\ births = 0 /\ execs = 0
    /\ thin = {} /\ cut = {}

\* bpf_ringbuf_reserve fails when the ring is full, and the record is gone.
RingFullLate(q) == Len(q) > RingMax
RingFull(q) == Len(q) >= RingMax

Emit(r) ==
    /\ ring' = IF RingFull(ring) THEN ring ELSE Append(ring, r)
    /\ lost' = (lost \/ RingFull(ring))

\* The header ak_fill_header builds.  parent and whole are history: the real
\* parent, and whether the task was the last of its group.
Record(op, p, signs, whole) ==
    [op |-> op, pid |-> p, ppid |-> NoPid, cgroup |-> cgroup[p], signs |-> signs,
     parent |-> parent[p], whole |-> whole]
-----------------------------------------------------------------------------
(* The kernel's steps.                                                     *)

\* A key that shadows the cgroup's word and says less than a signature's flags.
Short(word) == word # {} /\ ~(SigFlags \subseteq word)

\* Some key of either map holds the word.
InMaps(word) == (\E k \in Tids : pids[k] = word) \/ \E c \in Cgroups : sessions[c] = word

\* History: the keys a hook copied a short word into, until a goroutine enforces
\* them or they go.
Thinned == thin' = {k \in Tids : /\ Short(pids'[k])
                                 /\ k \in thin \/ (pids'[k] # pids[k] /\ InMaps(pids'[k]))}

Fork ==
    /\ births < MaxBirths /\ births' = births + 1
    /\ \/ \E t, c \in Tids : \/ ak_proc_fork(t, c)
                             \/ ForkUnseen(t, c)
                             \/ Threaded /\ ak_proc_fork_thread(t, c)
       \/ \E c \in Tids : ForkOutside(c) /\ cgroup'[c] \in HostCgroups
    /\ Thinned
    /\ UNCHANGED <<mvars, ring, lost, daemonVars, execs, cut>>

\* The record is emitted on entry, for every process of the host.
Execve(t, signs) ==
    /\ execs < MaxExecs /\ execs' = execs + 1
    /\ ak_execve(t, signs)
    /\ Emit(Record("exec", tgid[t], signs, FALSE))
    /\ Thinned
    /\ UNCHANGED <<mvars, daemonVars, births, cut>>

Bprm(t) ==
    /\ ak_lsm_bprm_refuse(t) \/ ak_lsm_bprm_allow(t) \/ ExecFails(t) \/ ExecDone(t)
    /\ Thinned
    /\ UNCHANGED <<mvars, ring, lost, daemonVars, envVars>>

\* Only the exit of a member's task is emitted, with the group's number.
Exit(t) ==
    /\ ak_proc_exit(t)
    /\ IF "monitor" \in ak_session_flags(tgid[t])
       THEN Emit(Record("exit", tgid[t], {}, Threads(tgid[t]) = {t}))
       ELSE UNCHANGED <<ring, lost>>
    /\ Thinned
    /\ UNCHANGED <<mvars, daemonVars, envVars>>
-----------------------------------------------------------------------------
(* The daemon's writes to the membership maps.                             *)

\* orFlags and armKey: bits are only ever added to a key's word.
Registered(word) == word \cup {"monitor"}
Armed(word) == word \cup SigFlags

\* RegisterPID by goroutine w on a set of pids, while the map accepts the key: a
\* key that was absent says MONITOR only, whatever its cgroup's word says.
RegisterPids(w, S) ==
    /\ pids' = [k \in Tids |-> IF k \in S /\ Accepts(k) THEN Registered(pids[k]) ELSE pids[k]]
    /\ half' = [half EXCEPT ![w] = S]
    /\ UNCHANGED thin

\* EnforcePID by goroutine w on a set of pids.
EnforcePids(w, S) ==
    /\ pids' = [k \in Tids |-> IF k \in S /\ Accepts(k) THEN Armed(pids[k]) ELSE pids[k]]
    /\ half' = [half EXCEPT ![w] = {}]
    /\ thin' = (thin \cup half[w]) \ S

\* Processes whose chain of parents leads to root: the walk of /proc.
Descendants(root) ==
    LET Children(S) == S \cup {p \in Processes : parent[p] \in S}
        Reach[n \in 0..Cardinality(Tids)] == IF n = 0 THEN {root} ELSE Children(Reach[n - 1])
    IN  {p \in Processes \ {root} : p \in Reach[Cardinality(Tids)]}

\* The pids Members lists.
Listed(s) == {p \in Pids : sess[s].members[p] > 0}

\* onNewSession: RegisterSession on the cgroup, RegisterPID on root and members.
onNewSession(w) ==
    /\ job[w].pc = "announce" /\ scan[w] = NoScan /\ half[w] = {}
    /\ LET s == job[w].sid
           c == sess[s].cgroup
       IN
       /\ sessions' = IF c = NoCgroup THEN sessions
                      ELSE [sessions EXCEPT ![c] = Registered(@)]
       /\ RegisterPids(w, {sess[s].root} \cup Listed(s))
    /\ UNCHANGED <<procVars, faulted, histVars, mvars, ring, lost, post, scan, unscanned, envVars>>

\* .. EnforceSession: the cgroup key, root and members, and the descendants it
\* finds in /proc; armLiveDescendants then walks /proc again.
EnforceSession(w) ==
    /\ job[w].pc = "announce" /\ scan[w] = NoScan /\ half[w] # {}
    /\ LET s == job[w].sid
           c == sess[s].cgroup
       IN
       /\ sessions' = IF c = NoCgroup THEN sessions
                      ELSE [sessions EXCEPT ![c] = Armed(@)]
       /\ EnforcePids(w, {sess[s].root} \cup Listed(s) \cup Descendants(sess[s].root))
       /\ scan' = [scan EXCEPT ![w] = Descendants(sess[s].root)]
    /\ UNCHANGED <<procVars, faulted, histVars, mvars, ring, lost, post, unscanned, envVars>>

\* .. armLiveDescendants: RegisterPID on what it found ..
RegisterDescendants(w) ==
    /\ job[w].pc = "announce" /\ scan[w] # NoScan /\ half[w] = {} /\ scan[w] # {}
    /\ RegisterPids(w, scan[w])
    /\ UNCHANGED <<procVars, sessions, faulted, histVars, mvars, ring, lost, post, scan, unscanned, envVars>>

\* .. then EnforcePID, and the callback returns.
armLiveDescendants(w) ==
    /\ job[w].pc = "announce" /\ scan[w] # NoScan /\ half[w] = scan[w]
    /\ EnforcePids(w, scan[w])
    /\ scan' = [scan EXCEPT ![w] = NoScan]
    /\ announce(w)
    /\ UNCHANGED <<procVars, sessions, faulted, histVars, ring, lost, post, unscanned, envVars>>

\* CgroupHasActiveSession(cgid, excludeID).
CgroupAlwaysShared(c, s) == TRUE
CgroupNeverShared(c, s) == FALSE
CgroupHasActiveSession(c, s) ==
    /\ c # NoCgroup
    /\ \E t \in byID : t # s /\ sess[t].state = "active" /\ sess[t].cgroup = c

DropPids(S) ==
    /\ pids' = [k \in Tids |-> IF k \in S THEN {} ELSE pids[k]]
    /\ thin' = thin \ S

onSessionEnded ==
    /\ job[Handler].pc = "ended"
    /\ LET s == job[Handler].sid
           c == sess[s].cgroup
       IN
       /\ sessions' = IF c = NoCgroup \/ CgroupHasActiveSession(c, s) THEN sessions
                      ELSE [sessions EXCEPT ![c] = {}]
       /\ DropPids({sess[s].root} \cup Listed(s))
    /\ exitCallback
    /\ UNCHANGED <<procVars, faulted, histVars, ring, lost, daemonVars, envVars>>

onMemberExit ==
    /\ job[Handler].pc = "memberExit"
    /\ DropPids({job[Handler].gone})
    /\ exitCallback
    /\ UNCHANGED <<procVars, sessions, faulted, histVars, ring, lost, daemonVars, envVars>>
-----------------------------------------------------------------------------
(* handleSyscalls, one record at a time.                                   *)

Ready(op) ==
    /\ job[Handler].pc = "idle" /\ post = <<>>
    /\ ring # <<>> /\ Head(ring).op = op

\* classify sees the record's path and the command line /proc has by now.
Classified(r) ==
    \/ "file" \in r.signs
    \/ r.pid \in Processes /\ "argv" \in image[r.pid]

AsExec(r) == [pid |-> r.pid, ppid |-> r.ppid, cgroup |-> r.cgroup,
              agent |-> Classified(r)]

handleExec ==
    /\ Ready("exec")
    /\ LET e == AsExec(Head(ring)) IN
       /\ OnExecFold(Handler, e) \/ OnExec(Handler, e)
    /\ post' = <<Head(ring)>>
    /\ ring' = Tail(ring)
    /\ UNCHANGED <<kvars, thin, lost, scan, half, unscanned, envVars>>

\* After OnExec has returned: Enrich, and registration if it found a session.
EnrichedSession(r) ==
    IF pidIndex[r.pid] # NoSession THEN pidIndex[r.pid] ELSE byCgroup[r.cgroup]

\* RegisterPID ..
registerExec ==
    /\ job[Handler].pc = "idle" /\ post # <<>> /\ half[Handler] = {}
    /\ IF EnrichedSession(post[1]) # NoSession
       THEN RegisterPids(Handler, {post[1].pid}) /\ UNCHANGED post
       ELSE post' = <<>> /\ UNCHANGED <<pids, thin, half>>
    /\ UNCHANGED <<procVars, sessions, faulted, histVars, mvars, ring, lost, scan, unscanned, envVars>>

\* .. then EnforcePID.
enforceExec ==
    /\ job[Handler].pc = "idle" /\ post # <<>> /\ half[Handler] # {}
    /\ EnforcePids(Handler, {post[1].pid})
    /\ post' = <<>>
    /\ UNCHANGED <<procVars, sessions, faulted, histVars, mvars, ring, lost, scan, unscanned, envVars>>

\* firstLiveProcExcept reads the cgroup's processes.
Survivors(s, pid) == {p \in Processes : cgroup[p] = sess[s].cgroup} \ {pid}

\* History: a thread's exit record taken for the exit of a session's root.
Cut(r) == IF ~r.whole /\ pidIndex[r.pid] # NoSession /\ sess[pidIndex[r.pid]].root = r.pid
          THEN cut \cup {p \in Pids : pidIndex[p] = pidIndex[r.pid]}
          ELSE cut

handleExit ==
    /\ Ready("exit")
    /\ LET pid == Head(ring).pid
           s == pidIndex[pid]
           adopts == s # NoSession /\ sess[s].managed /\ Survivors(s, pid) # {}
       IN
       \/ s = NoSession /\ UNCHANGED mvars
       \/ adopts /\ \E adopt \in Survivors(s, pid) : OnExitAdopt(pid, adopt)
       \/ ~adopts /\ OnExitEnd(pid)
       \/ OnExitMember(pid)
    /\ cut' = Cut(Head(ring))
    /\ ring' = Tail(ring)
    /\ UNCHANGED <<kvars, thin, lost, daemonVars, births, execs>>

\* The rest of OnExec, shared by handleSyscalls and scanProc.
Onboard(w) ==
    \/ /\ OnExecParent(w) \/ createSessionFold(w) \/ createSessionIndex(w)
       /\ UNCHANGED kvars
    \/ \E s \in Ids : createSession(w, s) /\ UNCHANGED kvars
    \/ /\ placeInCgroup(w, FALSE)
       /\ UNCHANGED kvars
    \/ /\ placeInCgroup(w, TRUE)
       /\ job[w].ev.pid \in Processes
       /\ cgroup' = [cgroup EXCEPT ![job[w].ev.pid] = job[w].sid]
       /\ UNCHANGED <<alive, tgid, parent, pending, checked, image, mapVars, histVars>>

OnboardStep(w) == Onboard(w) /\ UNCHANGED <<thin, ring, lost, daemonVars, envVars>>

\* classify on the executable and the command line /proc shows.
ScannedArgv(p) == "argv" \in image[p]
ScannedAgent(p) == image[p] # {}

\* scanProc: an exec synthesized for a process that is there at startup.
scanProc(p) ==
    /\ p \in unscanned
    /\ job[Scanner].pc = "idle"
    /\ unscanned' = unscanned \ {p}
    /\ IF p \in Processes
       THEN LET e == [pid |-> p, ppid |-> NoPid, cgroup |-> NoCgroup,
                      agent |-> ScannedAgent(p)] IN
            OnExec(Scanner, e)
       ELSE UNCHANGED mvars
    /\ UNCHANGED <<kvars, thin, ring, lost, post, scan, half, envVars>>
-----------------------------------------------------------------------------
(* reArmSweep: read what belongs to an active session, then arm it.        *)

SweepListed(s) ==
    IF sess[s].managed THEN {} ELSE {sess[s].root} \cup Listed(s)
\* readCgroupProcs prefixes /sys/fs/cgroup to a path that has it already, so a
\* managed session yields nothing.
SweepSet(s) ==
    IF sess[s].managed THEN {}
    ELSE {sess[s].root} \cup Listed(s) \cup Descendants(sess[s].root)

reArmScan(s) ==
    /\ scan[Sweeper] = NoScan
    /\ s \in byID /\ sess[s].state = "active"
    /\ scan' = [scan EXCEPT ![Sweeper] = SweepSet(s)]
    /\ UNCHANGED <<kvars, thin, mvars, ring, lost, post, half, unscanned, envVars>>

reArm ==
    /\ scan[Sweeper] # NoScan
    /\ EnforcePids(Sweeper, scan[Sweeper])
    /\ scan' = [scan EXCEPT ![Sweeper] = NoScan]
    /\ UNCHANGED <<procVars, sessions, faulted, histVars, mvars, ring, lost, post, unscanned, envVars>>
-----------------------------------------------------------------------------
Kernel == \/ Fork
          \/ \E t \in Tids, signs \in ExecSigns : Execve(t, signs)
          \/ \E t \in Tids : Bprm(t)
          \/ \E t \in Tids : Exit(t)

HandleSyscalls == \/ handleExec \/ registerExec \/ enforceExec \/ handleExit
                  \/ onSessionEnded \/ onMemberExit
                  \/ OnboardStep(Handler)
                  \/ onNewSession(Handler) \/ EnforceSession(Handler)
                  \/ RegisterDescendants(Handler) \/ armLiveDescendants(Handler)

Bootstrap == \/ \E p \in Tids : scanProc(p)
             \/ OnboardStep(Scanner)
             \/ onNewSession(Scanner) \/ EnforceSession(Scanner)
             \/ RegisterDescendants(Scanner) \/ armLiveDescendants(Scanner)

Sweep == reArm \/ \E s \in Ids : reArmScan(s)

LNext == Kernel \/ HandleSyscalls \/ Bootstrap \/ Sweep

LSpec == LInit /\ [][LNext]_lvars

\* The daemon's goroutines run: each takes its next step as long as it has one,
\* and the ticker's loop comes round to every active session.
LFairness ==
    /\ WF_lvars(HandleSyscalls) /\ WF_lvars(Bootstrap) /\ WF_lvars(reArm)
    /\ \A s \in Ids : SF_lvars(reArmScan(s))

LFairSpec == LSpec /\ LFairness
-----------------------------------------------------------------------------
\* Type: the types of kernel and manager, and a ring of exec and exit records
\* within its size.
LTypeOK ==
    /\ KTypeOK /\ MTypeOK
    /\ Len(ring) <= RingMax
    /\ \A i \in 1..Len(ring) : /\ ring[i].op \in {"exec", "exit"}
                               /\ ring[i].pid \in Pids
                               /\ ring[i].cgroup \in Cgroups
                               /\ ring[i].signs \in SUBSET Signs
    /\ lost \in BOOLEAN
    /\ Len(post) <= 1
    /\ scan \in [Workers \cup {Sweeper} -> (SUBSET Tids) \cup {NoScan}]
    /\ half \in [Workers \cup {Sweeper} -> SUBSET Tids]
    /\ unscanned \subseteq ScanProc
    /\ births \in 0..MaxBirths /\ execs \in 0..MaxExecs
    /\ thin \subseteq Tids /\ cut \subseteq Pids

\* Session s has been announced and not torn down.
Onboarded(s) ==
    /\ s \in byID /\ sess[s].state = "active"
    /\ \A w \in Workers : job[w].pc = "announce" => job[w].sid # s

(* Ending one session never rips the cgroup's enforcement out from under    *)
(* another: an onboarded active session always finds its cgroup armed       *)
(* (cmd/agentknox/daemon.go:673-677, internal/session/manager.go:624-628).  *)
ActiveCgroupArmed ==
    \A s \in Ids : Onboarded(s) /\ sess[s].cgroup # NoCgroup
                      => SigFlags \subseteq sessions[sess[s].cgroup]

(* The converse: a cgroup key outlives its sessions only while a teardown   *)
(* or an onboarding is still running, so a recycled cgroup id starts clean  *)
(* (cmd/agentknox/daemon.go:673-688: onSessionEnded "tears down a session   *)
(* on root exit", the cgroup's flags "only when no other active session     *)
(* still occupies the cgroup").  It is about the handler and the sweep:     *)
(* the callback of the startup scan can run after the session's teardown.   *)
CgroupKeyOwned ==
    \A c \in Cgroups : sessions[c] # {} =>
        \/ \E s \in byID : sess[s].state = "active" /\ sess[s].cgroup = c
        \/ \E w \in Workers : job[w].pc \in {"announce", "ended"}
                                /\ sess[job[w].sid].cgroup = c

\* p's key is in the hands of a goroutine that has called RegisterPID for it
\* and not yet EnforcePID.
BeingRegistered(p) == \E w \in Workers : p \in half[w]

(* A process in the cgroup of an onboarded session is confined by it: a key *)
(* of its own, inherited at birth, stored at an exec or written by a        *)
(* goroutine, says no less than the cgroup's word, and when a teardown that *)
(* comes late deletes the key of a number the host has reused, the cgroup's *)
(* word takes over (bpf/helpers.bpf.h:254-260;                              *)
(* cmd/agentknox/daemon.go:673-696, 709-713).  The exceptions are the ones  *)
(* the two calls of a registration leave: a key between RegisterPID and     *)
(* EnforcePID, and what a fork or an exec copied from a word in between.    *)
SessionConfined ==
    \A s \in Ids : Onboarded(s) /\ sess[s].cgroup # NoCgroup =>
        \A p \in Processes : cgroup[p] = sess[s].cgroup
            => SigFlags \subseteq ak_session_flags(p) \/ BeingRegistered(p) \/ p \in thin

(* internal/sensor/loader.go:259-264 read as a promise about the process:   *)
(* registering a member opens no "window in which a write-open or exec      *)
(* escapes".                                                                *)
RegisterOpensNoWindow ==
    \A s \in Ids : Onboarded(s) /\ sess[s].cgroup # NoCgroup =>
        \A p \in Processes : cgroup[p] = sess[s].cgroup
            => SigFlags \subseteq ak_session_flags(p)

Unarmed(s, p) ==
    /\ Onboarded(s) /\ p \in Descendants(sess[s].root) /\ ~(SigFlags \subseteq pids[p])

(* A live descendant of an active session's root that no birth hook armed,  *)
(* or that took over a MONITOR-only word, does not stay so: the sweep arms  *)
(* it, or it exits, or leaves the tree, or the session ends                 *)
(* (cmd/agentknox/daemon.go:274-278: "Re-reading cgroup.procs and calling   *)
(* EnforcePID on each (idempotent) covers that."; bpf/process.bpf.c:        *)
(* 105-107).                                                                *)
SweepRearms ==
    \A s \in Ids, p \in Tids : Unarmed(s, p) ~> ~Unarmed(s, p)

UnarmedAgent(p) ==
    /\ ~lost /\ p \in Processes \ cut
    /\ \A t \in Threads(p) : pending[t] = {}
    /\ image[p] # {} /\ ~(SigFlags \subseteq pids[p])

(* A running agent does not stay without a full key in the pid map: the     *)
(* exec hook armed it, or the startup scan finds it, or a later sweep       *)
(* repairs what a stale teardown took away (cmd/agentknox/daemon.go:        *)
(* 279-328, 1449-1470).  Two things void the promise: a record the full     *)
(* ring dropped, and a thread's exit taken for the root's                   *)
(* (internal/session/manager.go:480-491), which ends the session of an      *)
(* agent that is still running and leaves the sweep nothing to re-arm.      *)
AgentRearmed ==
    \A p \in Tids : UnarmedAgent(p) ~> ~UnarmedAgent(p)

Stranded(s) ==
    s \in byID /\ sess[s].state = "active" /\ sess[s].root \notin Processes /\ ~lost

(* internal/session/manager.go:478-479: "Exit of the root pid ends the      *)
(* session": with no record dropped, a session whose root is gone ends (or  *)
(* passes to another root).                                                 *)
RootExitEnds ==
    \A s \in Ids : Stranded(s) ~> ~Stranded(s)

(* The same line read the other way: a session ends only when the process   *)
(* that is its root exits, that is, with the last task of the group.        *)
EndsWithRoot ==
    [][\A s \in Ids : sess[s].state = "active" /\ sess'[s].state = "ended"
                         => Head(ring).whole]_lvars

(* internal/session/manager.go:239-241: "For a non-agent exec whose parent  *)
(* already belongs to a session, the pid is added to that session's         *)
(* membership": when the handler is done with the exec of a process whose   *)
(* parent is a member of an active session, the process is indexed too.     *)
ParentFold ==
    [][(registerExec \/ enforceExec) /\ post' = <<>> /\ post[1].parent \in Pids /\ post[1].pid \in Processes
        /\ parent[post[1].pid] = post[1].parent /\ Active(pidIndex[post[1].parent])
         => pidIndex[post[1].pid] # NoSession]_lvars

\* p has nothing to do with an agent: it runs none, is exec'ing none, and was
\* started by nobody of an agent's tree.
Outsider(p) ==
    /\ p \in Processes /\ p \notin tree /\ parent[p] = Init1
    /\ pidIndex[p] = NoSession
    /\ image[p] = {} /\ \A t \in Threads(p) : pending[t] \subseteq {{}}

(* docs/threat-model.md:81-83: attribution is "scoped to the agent's        *)
(* process tree through the per-pid map `ak_session_pids`, which is         *)
(* pid-precise and so works even when the agent shares a cgroup with the    *)
(* rest of the desktop": no step gives an outsider a key.                   *)
TreeScoped ==
    [][\A p \in Tids : Outsider(p)' /\ pids'[p] # {} => pids[p] # {}]_lvars
=============================================================================
