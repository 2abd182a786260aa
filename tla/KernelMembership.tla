--------------------------- MODULE KernelMembership ---------------------------
(***************************************************************************)
(* Session membership as the BPF programs keep it: bpf/process.bpf.c (task *)
(* birth, execve, task exit), the arming half of ak_lsm_bprm in            *)
(* bpf/enforcer.bpf.c, and the lookup every hook starts with,              *)
(* ak_session_flags of bpf/helpers.bpf.h.                                  *)
(*                                                                         *)
(* A task is named by its tid; the tid of a process's first task is also   *)
(* its tgid, and both index the same map ak_session_pids.  The host reuses *)
(* a number once no task and no thread group carries it.                   *)
(***************************************************************************)
EXTENDS Integers, FiniteSets

CONSTANTS
    Tids,            \* task numbers; a tgid is the tid of the group's leader
    Init1,           \* pid 1, which adopts orphans and is never a member
    Cgroups,         \* cgroup ids
    SigFlags,        \* value PopulateAgentSigs stores for every signature
    PidsMax,         \* max_entries of ak_session_pids
    MaxInExec,        \* bound: execve calls under way at once
    KprobeAttached   \* AttachKprobes succeeded: wake_up_new_task is hooked

ASSUME KernelAssumption ==
    /\ Init1 \notin Tids
    /\ SigFlags \in {{"monitor"}, {"monitor", "enforce"}}
    /\ PidsMax \in Nat \ {0}
    /\ MaxInExec \in Nat \ {0}
    /\ KprobeAttached \in BOOLEAN

Flags == {"monitor", "enforce"}

\* Where the kernel can find an agent signature in an exec: the basename of an
\* argv entry (ak_execve) or of the file being executed (ak_lsm_bprm).
Signs == {"argv", "file"}

VARIABLES
    alive,     \* tasks that exist
    tgid,      \* tgid[t]: thread group of task t
    parent,    \* parent[p]: real_parent's tgid, of process p
    cgroup,    \* cgroup[p]: cgroup of process p
    pids,      \* ak_session_pids: flags of a key, {} when the key is absent
    sessions,  \* ak_sessions: flags of a cgroup, {} when absent
    pending,   \* pending[t]: {} or {s}, the execve that task t is inside of
    checked,   \* tasks whose execve has passed ak_lsm_bprm
    image,     \* image[p]: signs of the image p itself exec'd, {} before
    faulted,   \* AK_ERR_ARM_SESSION has been counted
    tree,      \* history: an agent's process tree, as far as a hook saw its births
    shed       \* history: members that have been without their leader task

procVars == <<alive, tgid, parent, cgroup, pending, checked, image>>
mapVars  == <<pids, sessions, faulted>>
histVars == <<tree, shed>>
kvars    == <<procVars, mapVars, histVars>>

Threads(p) == {t \in alive : tgid[t] = p}

Processes == {tgid[t] : t \in alive}

\* A number the host may hand to a new task.
Free(t) == t \notin alive /\ t \notin Processes

\* ak_session_flags for a task of process p: its own key first, then its cgroup.
ak_session_flags(p) == IF pids[p] # {} THEN pids[p] ELSE sessions[cgroup[p]]

\* bpf_map_update_elem(&ak_session_pids, ..) is accepted: the key exists, or
\* the preallocated hash has a free slot.
Accepts(k) ==
    pids[k] # {} \/ Cardinality({t \in Tids : pids[t] # {}}) < PidsMax

\* The word a child takes over from its parent's key: all of it.
Inherited(p) == pids[p]

\* The update a tracepoint makes: stored, or counted as AK_ERR_ARM_SESSION.
StoreOrCount(k, flags) ==
    /\ pids' = IF Accepts(k) THEN [pids EXCEPT ![k] = flags] ELSE pids
    /\ faulted' = (faulted \/ ~Accepts(k))

KInit ==
    /\ alive = {}
    /\ tgid = [t \in Tids |-> t]
    /\ parent = [t \in Tids |-> Init1]
    /\ cgroup \in [Tids -> Cgroups]
    /\ pids = [t \in Tids |-> {}]
    /\ sessions = [c \in Cgroups |-> {}]
    /\ pending = [t \in Tids |-> {}]
    /\ checked = {}
    /\ image = [t \in Tids |-> {}]
    /\ faulted = FALSE
    /\ tree = {}
    /\ shed = {}
-----------------------------------------------------------------------------
(* Task birth.  Both hooks run in the parent's context before the child    *)
(* runs.                                                                   *)

NewProcess(t, c) ==
    /\ t \in alive /\ pending[t] = {} /\ Free(c)
    /\ alive' = alive \cup {c}
    /\ tgid' = [tgid EXCEPT ![c] = c]
    /\ parent' = [parent EXCEPT ![c] = tgid[t]]
    /\ cgroup' = [cgroup EXCEPT ![c] = cgroup[tgid[t]]]
    /\ UNCHANGED <<pending, checked, image, sessions, shed>>

\* A birth one of the two hooks sees: ak_new_task stores the same value under
\* the same key as ak_proc_fork, so for a process the two are one store.  A
\* tree member's child is a tree member whatever the maps say.
ak_proc_fork(t, c) ==
    /\ NewProcess(t, c)
    /\ tree' = IF tgid[t] \in tree THEN tree \cup {c} ELSE tree \ {c}
    /\ IF pids[tgid[t]] = {}
       THEN UNCHANGED <<pids, faulted>>
       ELSE StoreOrCount(c, Inherited(tgid[t]))

\* A clone flavour sched_process_fork misses, with no kprobe to make up for it:
\* the child joins the tree when it execs under its parent, if ever.
ForkUnseen(t, c) ==
    /\ ~KprobeAttached
    /\ NewProcess(t, c)
    /\ tree' = tree \ {c}
    /\ UNCHANGED <<pids, faulted>>

\* A process no session member started; pid 1 stands for all of those parents.
ForkOutside(c) ==
    /\ Free(c)
    /\ alive' = alive \cup {c}
    /\ tgid' = [tgid EXCEPT ![c] = c]
    /\ parent' = [parent EXCEPT ![c] = Init1]
    /\ \E g \in Cgroups : cgroup' = [cgroup EXCEPT ![c] = g]
    /\ tree' = tree \ {c}
    /\ UNCHANGED <<pending, checked, image, mapVars, shed>>

\* A new thread: sched_process_fork fires with child_pid = the tid, so the
\* hook keys the tid; ak_new_task returns, the thread group being the same.
ak_proc_fork_thread(t, c) ==
    /\ t \in alive /\ pending[t] = {} /\ Free(c)
    /\ alive' = alive \cup {c}
    /\ tgid' = [tgid EXCEPT ![c] = tgid[t]]
    /\ IF pids[tgid[t]] = {}
       THEN UNCHANGED <<pids, faulted>>
       ELSE StoreOrCount(c, Inherited(tgid[t]))
    /\ UNCHANGED <<parent, cgroup, sessions, pending, checked, image, tree, shed>>
-----------------------------------------------------------------------------
(* execve by any task of a process: the tracepoint at entry, the LSM hook, *)
(* then the kernel ends the group's other tasks and the caller goes on     *)
(* under the group's number.  Both hooks key the group.                    *)

\* History: p becomes part of an agent's tree when it execs an agent, or when
\* it execs as the child of a tree member.
JoinTree(p, isAgent) ==
    IF isAgent \/ parent[p] \in tree THEN tree \cup {p} ELSE tree

\* History: a member's key outlives its leader, or is stored without one.
Shed(p) == IF pids'[p] # {} /\ p \notin alive THEN shed \cup {p} ELSE shed

ak_execve(t, signs) ==
    LET p == tgid[t] IN
    /\ t \in alive /\ pending[t] = {}
    /\ Cardinality({x \in Tids : pending[x] # {}}) < MaxInExec
    /\ pending' = [pending EXCEPT ![t] = {signs}]
    /\ tree' = JoinTree(p, "argv" \in signs)
    /\ IF pids[p] # {} THEN UNCHANGED <<pids, faulted>>
       ELSE IF "argv" \in signs THEN StoreOrCount(p, SigFlags)
       ELSE IF sessions[cgroup[p]] # {} THEN StoreOrCount(p, sessions[cgroup[p]])
       ELSE IF parent[p] \in Tids /\ pids[parent[p]] # {}
            THEN StoreOrCount(p, Inherited(parent[p]))
       ELSE UNCHANGED <<pids, faulted>>
    /\ shed' = Shed(p)
    /\ UNCHANGED <<alive, tgid, parent, cgroup, checked, image, sessions>>

\* What ak_lsm_bprm would store for an exec that is not a member yet: the
\* signature's flags, else the armed parent's, else nothing.
BprmFlags(p, signs) ==
    IF "monitor" \in ak_session_flags(p) THEN {}
    ELSE IF "file" \in signs THEN SigFlags
    ELSE IF parent[p] \in Tids THEN Inherited(parent[p])
    ELSE {}

\* The store is refused and the flags are enforcing: -EPERM, no new image.
BprmRefusesNone(p, want) == FALSE
BprmRefuses(p, want) == "enforce" \in want /\ ~Accepts(p)

\* The hook runs under cred_guard_mutex, one exec of a group at a time.
AtBprm(t) ==
    /\ t \in alive /\ pending[t] # {}
    /\ \A x \in checked : tgid[x] # tgid[t]

ak_lsm_bprm_refuse(t) ==
    /\ AtBprm(t)
    /\ \E signs \in pending[t] : BprmRefuses(tgid[t], BprmFlags(tgid[t], signs))
    /\ pending' = [pending EXCEPT ![t] = {}]
    /\ faulted' = TRUE
    /\ UNCHANGED <<alive, tgid, parent, cgroup, checked, image, pids, sessions, histVars>>

ak_lsm_bprm_allow(t) ==
    LET p == tgid[t] IN
    /\ AtBprm(t)
    /\ \E signs \in pending[t] :
          LET want == BprmFlags(p, signs) IN
          /\ ~BprmRefuses(p, want)
          /\ IF want = {} THEN UNCHANGED <<pids, faulted>>
                          ELSE StoreOrCount(p, want)
          /\ tree' = JoinTree(p, "file" \in signs)
    /\ checked' = checked \cup {t}
    /\ shed' = Shed(p)
    /\ UNCHANGED <<alive, tgid, parent, cgroup, pending, image, sessions>>

\* The call fails, before the LSM hook (no such file) or after it (not an
\* executable format): whatever the hooks stored stays stored.
ExecFails(t) ==
    /\ t \in alive /\ pending[t] # {}
    /\ pending' = [pending EXCEPT ![t] = {}]
    /\ checked' = checked \ {t}
    /\ UNCHANGED <<alive, tgid, parent, cgroup, image, mapVars, histVars>>

\* The new image runs, once the other tasks of the group have exited
\* (de_thread, each through ak_proc_exit).  A caller that was not the leader
\* takes over the leader's number; no hook runs for the number it gives up.
ExecDone(t) ==
    /\ t \in checked /\ Threads(tgid[t]) = {t}
    /\ \E signs \in pending[t] : image' = [image EXCEPT ![tgid[t]] = signs]
    /\ alive' = (alive \ {t}) \cup {tgid[t]}
    /\ tgid' = [tgid EXCEPT ![t] = t]
    /\ pending' = [pending EXCEPT ![t] = {}]
    /\ checked' = checked \ {t}
    /\ UNCHANGED <<parent, cgroup, mapVars, histVars>>
-----------------------------------------------------------------------------
(* Task exit.  The hook looks the group up and, only if it is a member,    *)
(* deletes the exiting task's own key.  The last task takes the process    *)
(* with it and its children go to pid 1.                                   *)

\* The keys the exit hook deletes: the exiting task's own.
ExitKeysNone(t) == {}
ExitKeysLeader(t) == {t} \cap {tgid[t]}
ExitKeysGroup(t) == {tgid[t]}
ExitKeys(t) == {t}

ak_proc_exit(t) ==
    LET p == tgid[t]
        last == Threads(p) = {t}
    IN
    /\ t \in alive
    /\ alive' = alive \ {t}
    /\ tgid' = [tgid EXCEPT ![t] = t]
    /\ pids' = IF "monitor" \in ak_session_flags(p)
               THEN [k \in Tids |-> IF k \in ExitKeys(t) THEN {} ELSE pids[k]]
               ELSE pids
    /\ pending' = [pending EXCEPT ![t] = {}]
    /\ checked' = checked \ {t}
    /\ shed' = IF t = p /\ ~last /\ pids[t] # {} THEN shed \cup {t} ELSE shed
    /\ IF last
       THEN /\ parent' = [q \in Tids |-> IF q = p \/ parent[q] = p THEN Init1
                                         ELSE parent[q]]
            /\ tree' = tree \ {p}
            /\ image' = [image EXCEPT ![p] = {}]
       ELSE UNCHANGED <<parent, tree, image>>
    /\ UNCHANGED <<cgroup, sessions, faulted>>

KNext ==
    \/ \E t, c \in Tids : \/ ak_proc_fork(t, c)
                          \/ ForkUnseen(t, c)
                          \/ ak_proc_fork_thread(t, c)
    \/ \E t \in Tids, signs \in SUBSET Signs : ak_execve(t, signs)
    \/ \E t \in Tids : \/ ak_lsm_bprm_refuse(t)
                       \/ ak_lsm_bprm_allow(t)
                       \/ ExecFails(t)
                       \/ ExecDone(t)
                       \/ ak_proc_exit(t)
    \/ \E c \in Tids : ForkOutside(c)

KSpec == KInit /\ [][KNext]_kvars
-----------------------------------------------------------------------------
\* Values a membership map can hold: absent, or a word that carries MONITOR.
FlagWords == {f \in SUBSET Flags : f = {} \/ "monitor" \in f}

\* Type: what the maps and the task list can hold.
KTypeOK ==
    /\ alive \subseteq Tids
    /\ tgid \in [Tids -> Tids]
    /\ parent \in [Tids -> Tids \cup {Init1}]
    /\ cgroup \in [Tids -> Cgroups]
    /\ pids \in [Tids -> FlagWords]
    /\ sessions \in [Cgroups -> FlagWords]
    /\ pending \in [Tids -> SUBSET (SUBSET Signs)]
    /\ checked \subseteq Tids
    /\ image \in [Tids -> SUBSET Signs]
    /\ faulted \in BOOLEAN
    /\ tree \subseteq Tids
    /\ shed \subseteq Tids

(* The tag cannot be shed by forking, reparenting or exec'ing: as long as   *)
(* no store was refused (AK_ERR_ARM_SESSION) and no member has been without *)
(* its leader task, every process of an agent's tree holds its key in       *)
(* ak_session_pids, however its ancestors came and went                     *)
(* (bpf/process.bpf.c:90-93, 113-118).  With the kprobe attached the tree   *)
(* is all of the agent's descendants; without it, those born unseen are     *)
(* left to their next exec.                                                 *)
TreeArmed ==
    ~faulted /\ shed = {} => \A p \in tree : pids[p] # {}

(* The converse: the flags of a session are never handed to a process that  *)
(* no member started, also when the host reuses the pid or tid of a member  *)
(* that is gone (the collision bpf/process.bpf.c:151-152 describes).        *)
OnlyTreeArmed ==
    shed = {} => \A p \in Processes : pids[p] # {} => p \in tree

(* Each key belongs to a task that still exists: the delete in ak_proc_exit *)
(* balances the stores of process and thread births                         *)
(* (bpf/process.bpf.c:147-153), unless a member lost its leader task.       *)
KeysBalanced == shed = {} => \A k \in Tids : pids[k] # {} => k \in alive

(* An enforce-mode agent whose file carries the signature runs inside its   *)
(* envelope even when the map is full, the exec being refused instead       *)
(* (bpf/enforcer.bpf.c:180-190), unless the process has been without its    *)
(* leader task: a leader that exits before its threads, or is ended by the  *)
(* execve of another thread after ak_lsm_bprm stored the key, takes the key *)
(* with it (bpf/process.bpf.c:154-156).                                     *)
NoUnarmedAgentFile ==
    "enforce" \in SigFlags =>
        \A p \in Processes \ shed : "file" \in image[p]
                                    => "enforce" \in ak_session_flags(p)

(* bpf/enforcer.bpf.c:183-184 without the exception: an agent that cannot   *)
(* be recorded is "refused at exec instead of started outside its own       *)
(* envelope", whichever of its threads called execve.                       *)
NoUnarmedAgentThread ==
    "enforce" \in SigFlags =>
        \A p \in Processes : "file" \in image[p]
                             => "enforce" \in ak_session_flags(p)

(* bpf/process.bpf.c:152-153 without the exception: "Delete the exiting     *)
(* task's own key, which balances both the fork and the thread case."       *)
KeysAlwaysBalanced == \A k \in Tids : pids[k] # {} => k \in alive

(* docs/threat-model.md:101-102: "An exhausted `ak_session_pids` therefore  *)
(* costs an enforce-mode session its ability to spawn, not its enforcement" *)
(* also for an agent recognised by an argv entry.                           *)
NoUnarmedAgent ==
    "enforce" \in SigFlags =>
        \A p \in Processes \ shed : image[p] # {}
                                    => "enforce" \in ak_session_flags(p)
=============================================================================
