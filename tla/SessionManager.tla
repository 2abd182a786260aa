---------------------------- MODULE SessionManager ----------------------------
(***************************************************************************)
(* internal/session/manager.go: the sessions, the four indexes over them,  *)
(* and the operations that change them.  One action is one critical        *)
(* section of Manager.mu; an operation that unlocks and locks again        *)
(* (createSession around the cgroup placement, OnExec around classify) is  *)
(* several actions of the goroutine that runs it, whose position between   *)
(* them is job[w].pc.  Two goroutines call in: handleSyscalls, which       *)
(* delivers exec and exit events, and scanProc, which only synthesizes     *)
(* execs (cmd/agentknox/daemon.go:868-878, 1449-1470).  The daemon's own   *)
(* pid, which OnExec ignores, is not among Pids.                           *)
(***************************************************************************)
EXTENDS Integers, Sequences, FiniteSets

CONSTANTS
    Pids,           \* host pids a process of interest may have
    NoPid,          \* pid 0
    HostCgroups,    \* cgroups AgentKnox did not create
    NoCgroup,       \* cgroup id 0, unknown
    Ids,            \* session ids (UUIDs)
    NoSession,      \* nil
    Handler,        \* the handleSyscalls goroutine
    Scanner,        \* the scanProc goroutine
    NoEvent,        \* no event in hand
    ManageCgroup,   \* Manager.ManageCgroup
    HistoryMax      \* Manager.historyMax

ASSUME ManagerAssumption ==
    /\ NoPid \notin Pids
    /\ NoCgroup \notin HostCgroups \cup Ids
    /\ HostCgroups \cap Ids = {}
    /\ NoSession \notin Ids
    /\ Handler # Scanner
    /\ ManageCgroup \in BOOLEAN
    /\ HistoryMax \in Nat

Workers == {Handler, Scanner}

\* The managed cgroup of a session is created for it; its id is written as the
\* session's own.
CgroupIds == HostCgroups \cup Ids \cup {NoCgroup}

\* An exec event; agent is the verdict of classify on its path and cmdline.
Exec == [pid : Pids, ppid : Pids \cup {NoPid}, cgroup : CgroupIds, agent : BOOLEAN]

Session == [state : {"none", "active", "ended"}, root : Pids \cup {NoPid},
            cgroup : CgroupIds, managed : BOOLEAN, members : [Pids -> Nat]]

PCs == {"idle", "classify", "place", "index", "announce", "ended", "memberExit"}

Job == [pc : PCs, ev : Exec \cup {NoEvent}, sid : Ids \cup {NoSession},
        gone : Pids \cup {NoPid}, placed : BOOLEAN]

VARIABLES
    sess,       \* sess[s]: the AgentSession; members[p] counts p in Members
    byID,       \* ids present in Manager.byID
    byRootPID,  \* root pid  -> session or NoSession
    byCgroup,   \* cgroup id -> session or NoSession
    pidIndex,   \* member pid -> session or NoSession
    history,    \* ended sessions, oldest first
    job         \* job[w]: where goroutine w stands between two lock sections

indexVars == <<byID, byRootPID, byCgroup, pidIndex>>
mvars == <<sess, indexVars, history, job>>

NoMembers == [p \in Pids |-> 0]

Unused == [state |-> "none", root |-> NoPid, cgroup |-> NoCgroup,
           managed |-> FALSE, members |-> NoMembers]

IdleJob == [pc |-> "idle", ev |-> NoEvent, sid |-> NoSession, gone |-> NoPid,
            placed |-> FALSE]

Active(s) == s # NoSession /\ sess[s].state = "active"

MInit ==
    /\ sess = [s \in Ids |-> Unused]
    /\ byID = {}
    /\ byRootPID = [p \in Pids |-> NoSession]
    /\ byCgroup = [c \in CgroupIds |-> NoSession]
    /\ pidIndex = [p \in Pids |-> NoSession]
    /\ history = <<>>
    /\ job = [w \in Workers |-> IdleJob]
-----------------------------------------------------------------------------
\* addMemberLocked: a pid some session already lists is left where it is.
addMemberLocked(s, p) ==
    IF pidIndex[p] # NoSession
    THEN UNCHANGED <<sess, pidIndex>>
    ELSE /\ sess' = [sess EXCEPT ![s].members[p] = @ + 1]
         /\ pidIndex' = [pidIndex EXCEPT ![p] = s]

\* Members without the first occurrence of p.
WithoutMember(members, p) ==
    [members EXCEPT ![p] = IF @ > 0 THEN @ - 1 ELSE 0]

\* The exec happened in the managed cgroup of an active session.
InManagedCgroup(e) ==
    LET s == byCgroup[e.cgroup] IN
    /\ Active(s)
    /\ sess[s].managed
    /\ e.cgroup = sess[s].cgroup

\* OnExec up to its first unlock: the descendant fold.
OnExecFold(w, e) ==
    /\ job[w].pc = "idle"
    /\ e.cgroup # NoCgroup /\ InManagedCgroup(e)
    /\ addMemberLocked(byCgroup[e.cgroup], e.pid)
    /\ UNCHANGED <<byID, byRootPID, byCgroup, history, job>>

\* .. or on to classify, outside the lock.
OnExec(w, e) ==
    /\ job[w].pc = "idle"
    /\ ~(e.cgroup # NoCgroup /\ InManagedCgroup(e))
    /\ job' = [job EXCEPT ![w] = [IdleJob EXCEPT !.pc = "classify", !.ev = e]]
    /\ UNCHANGED <<sess, indexVars, history>>

\* Not an agent: fold into the parent's session.
OnExecParent(w) ==
    /\ job[w].pc = "classify" /\ ~job[w].ev.agent
    /\ LET p == job[w].ev.ppid IN
       IF p # NoPid /\ Active(pidIndex[p])
       THEN addMemberLocked(pidIndex[p], job[w].ev.pid)
       ELSE UNCHANGED <<sess, pidIndex>>
    /\ job' = [job EXCEPT ![w] = IdleJob]
    /\ UNCHANGED <<byID, byRootPID, byCgroup, history>>
-----------------------------------------------------------------------------
(* createSession: check under the lock, place outside it, index under it.  *)

\* The idempotency check: an active session already has this root pid, or this
\* managed cgroup.
createSessionFold(w) ==
    /\ job[w].pc = "classify" /\ job[w].ev.agent
    /\ LET e == job[w].ev IN
       IF Active(byRootPID[e.pid]) THEN UNCHANGED <<sess, pidIndex>>
       ELSE /\ InManagedCgroup(e)
            /\ addMemberLocked(byCgroup[e.cgroup], e.pid)
    /\ job' = [job EXCEPT ![w] = IdleJob]
    /\ UNCHANGED <<byID, byRootPID, byCgroup, history>>

createSession(w, s) ==
    /\ job[w].pc = "classify" /\ job[w].ev.agent
    /\ ~Active(byRootPID[job[w].ev.pid]) /\ ~InManagedCgroup(job[w].ev)
    /\ sess[s].state = "none"
    /\ LET e == job[w].ev IN
       sess' = [sess EXCEPT ![s] =
           [state |-> "active", root |-> e.pid, cgroup |-> e.cgroup,
            managed |-> FALSE, members |-> [NoMembers EXCEPT ![e.pid] = 1]]]
    /\ job' = [job EXCEPT ![w].pc = "place", ![w].sid = s]
    /\ UNCHANGED <<indexVars, history>>

\* placeInCgroup, when enabled, succeeds or fails; no lock is held.
placeInCgroup(w, ok) ==
    /\ job[w].pc = "place"
    /\ ok => ManageCgroup
    /\ job' = [job EXCEPT ![w].pc = "index", ![w].placed = ok]
    /\ UNCHANGED <<sess, indexVars, history>>

createSessionIndex(w) ==
    /\ job[w].pc = "index"
    /\ LET e == job[w].ev
           s == job[w].sid
           g == IF job[w].placed THEN s ELSE sess[s].cgroup
       IN
       /\ sess' = [sess EXCEPT ![s].cgroup = g, ![s].managed = job[w].placed]
       /\ byID' = byID \cup {s}
       /\ byRootPID' = [byRootPID EXCEPT ![e.pid] = s]
       /\ pidIndex' = [pidIndex EXCEPT ![e.pid] = s]
       /\ byCgroup' = [c \in CgroupIds |->
                         IF c = g \/ (c = e.cgroup /\ c # NoCgroup)
                         THEN s ELSE byCgroup[c]]
    /\ job' = [job EXCEPT ![w].pc = "announce"]
    /\ UNCHANGED history

\* OnNewSession, outside the lock, and return.
announce(w) ==
    /\ job[w].pc = "announce"
    /\ job' = [job EXCEPT ![w] = IdleJob]
    /\ UNCHANGED <<sess, indexVars, history>>
-----------------------------------------------------------------------------
(* OnExit, one critical section; only handleSyscalls delivers exits.       *)

ExitReady(pid) ==
    /\ job[Handler].pc = "idle"
    /\ pidIndex[pid] # NoSession

IsRoot(pid) == sess[pidIndex[pid]].root = pid

\* byRootPID when session s passes from root pid to adopt.
RerootKeeping(s, pid, adopt) == [byRootPID EXCEPT ![adopt] = s]
Reroot(s, pid, adopt) == [byRootPID EXCEPT ![pid] = NoSession, ![adopt] = s]

\* pidIndex without the members of session s.
DropRootOnly(s) == [pidIndex EXCEPT ![sess[s].root] = NoSession]
DropMembers(s) ==
    [p \in Pids |-> IF sess[s].members[p] > 0 THEN NoSession ELSE pidIndex[p]]

\* The history, with the session that just ended, has to give up its oldest.
HistoryOverLate(h) == Len(h) > HistoryMax + 1
HistoryOver(h) == Len(h) > HistoryMax

\* The root left a managed cgroup in which firstLiveProcExcept found adopt.
OnExitAdopt(pid, adopt) ==
    /\ ExitReady(pid) /\ IsRoot(pid)
    /\ adopt # pid
    /\ LET s == pidIndex[pid] IN
       /\ sess[s].managed
       /\ LET kept == WithoutMember(sess[s].members, pid)
              new  == pidIndex[adopt] = NoSession
          IN
          /\ sess' = [sess EXCEPT ![s].root = adopt,
                 ![s].members = IF new THEN [kept EXCEPT ![adopt] = @ + 1] ELSE kept]
          /\ pidIndex' = [pidIndex EXCEPT ![pid] = NoSession,
                                          ![adopt] = IF new THEN s ELSE @]
          /\ byRootPID' = Reroot(s, pid, adopt)
    /\ UNCHANGED <<byID, byCgroup, history, job>>

\* No survivor to adopt: the session ends.
OnExitEnd(pid) ==
    /\ ExitReady(pid) /\ IsRoot(pid)
    /\ LET s == pidIndex[pid]
           h == Append(history, s)
           evict == HistoryOver(h)
       IN
       /\ sess' = [sess EXCEPT ![s].state = "ended"]
       /\ pidIndex' = DropMembers(s)
       /\ byRootPID' = [byRootPID EXCEPT ![pid] = NoSession]
       /\ byCgroup' = [byCgroup EXCEPT ![sess[s].cgroup] = NoSession]
       /\ history' = IF evict THEN Tail(h) ELSE h
       /\ byID' = IF evict THEN byID \ {Head(h)} ELSE byID
       /\ job' = [job EXCEPT ![Handler] =
                     [IdleJob EXCEPT !.pc = "ended", !.sid = s]]

OnExitMember(pid) ==
    /\ ExitReady(pid) /\ ~IsRoot(pid)
    /\ LET s == pidIndex[pid] IN
       /\ pidIndex' = [pidIndex EXCEPT ![pid] = NoSession]
       /\ sess' = [sess EXCEPT ![s].members = WithoutMember(@, pid)]
       /\ job' = [job EXCEPT ![Handler] =
                     [IdleJob EXCEPT !.pc = "memberExit", !.gone = pid, !.sid = s]]
    /\ UNCHANGED <<byID, byRootPID, byCgroup, history>>

\* OnSessionEnded and OnMemberExit run outside the lock, on the handler.
exitCallback ==
    /\ job[Handler].pc \in {"ended", "memberExit"}
    /\ job' = [job EXCEPT ![Handler] = IdleJob]
    /\ UNCHANGED <<sess, indexVars, history>>
-----------------------------------------------------------------------------
\* Ids is finite here: an agent exec is delivered while an id is left for it.
IdLeft == Cardinality({w \in Workers : job[w].pc = "classify" /\ job[w].ev.agent})
            < Cardinality({s \in Ids : sess[s].state = "none"})

MNext ==
    \/ \E w \in Workers, e \in Exec :
          /\ e.agent => IdLeft
          /\ w = Scanner => e.cgroup = NoCgroup /\ e.ppid = NoPid
          /\ OnExecFold(w, e) \/ OnExec(w, e)
    \/ \E w \in Workers : \/ OnExecParent(w)
                          \/ createSessionFold(w)
                          \/ \E s \in Ids : createSession(w, s)
                          \/ \E ok \in BOOLEAN : placeInCgroup(w, ok)
                          \/ createSessionIndex(w)
                          \/ announce(w)
    \/ \E pid \in Pids : \/ \E adopt \in Pids : OnExitAdopt(pid, adopt)
                         \/ OnExitEnd(pid)
                         \/ OnExitMember(pid)
    \/ exitCallback

MSpec == MInit /\ [][MNext]_mvars
-----------------------------------------------------------------------------
\* Type: indexes map to session ids, and every goroutine is at a lock section.
MTypeOK ==
    /\ sess \in [Ids -> Session]
    /\ byID \subseteq Ids
    /\ byRootPID \in [Pids -> Ids \cup {NoSession}]
    /\ byCgroup \in [CgroupIds -> Ids \cup {NoSession}]
    /\ pidIndex \in [Pids -> Ids \cup {NoSession}]
    /\ history \in Seq(Ids)
    /\ job \in [Workers -> Job]

(* A pid lookup (LookupByPID, Enrich, the parent fold of OnExec) never      *)
(* returns a session that has ended or that byID no longer knows, and the   *)
(* session it returns lists the pid among its Members, so that teardown,    *)
(* which walks Members, reaches every indexed pid                           *)
(* (internal/session/manager.go:470-476, 525-527, 541-547).                 *)
PidIndexLive ==
    \A p \in Pids : LET s == pidIndex[p] IN
        s # NoSession => /\ sess[s].state = "active"
                         /\ s \in byID
                         /\ sess[s].members[p] > 0

(* The root index names, for a pid, an active session whose root it is: the *)
(* idempotency check of createSession never folds into a session that ended *)
(* or that has adopted another root (internal/session/manager.go:304-307,   *)
(* 511-513, 528).                                                           *)
RootIndexLive ==
    \A p \in Pids : LET s == byRootPID[p] IN
        s # NoSession => sess[s].state = "active" /\ sess[s].root = p

(* byID holds, besides the active sessions, exactly the sessions of the     *)
(* bounded history, so an ended session stays reachable for late lookups    *)
(* until historyMax newer ones have ended and no longer                     *)
(* (internal/session/manager.go:523-535).                                   *)
HistoryIsByID ==
    /\ Len(history) <= HistoryMax
    /\ \A s \in Ids : sess[s].state = "ended" =>
          (s \in byID <=> \E i \in 1..Len(history) : history[i] = s)

(* An ended session is final: no exec folds into it, no exit re-roots it,   *)
(* and it never becomes active again, whichever goroutine is between two    *)
(* lock sections (internal/session/manager.go:267, 291, 304, 308, 521).     *)
EndedIsFinal ==
    [][\A s \in Ids : sess[s].state = "ended" => sess'[s] = sess[s]]_mvars

(* internal/session/manager.go:301-303: "if this root pid, or this managed  *)
(* cgroup, is already an active session, fold rather than duplicate".       *)
OneSessionPerRoot ==
    \A s, t \in byID : Active(s) /\ Active(t) /\ sess[s].root = sess[t].root
                        => s = t

(* internal/session/manager.go:523: ending a session shall "Drop live       *)
(* indexes": no index of live sessions leads to an ended one.               *)
LiveIndexesDropped ==
    \A c \in CgroupIds : byCgroup[c] # NoSession => Active(byCgroup[c])
=============================================================================
