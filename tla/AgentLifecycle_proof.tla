------------------------- MODULE AgentLifecycle_proof -------------------------
(***************************************************************************)
(* Kernel, manager and daemon together, for every set of tasks, cgroups    *)
(* and session ids, every size of ring and pid map, and any interleaving   *)
(* of the hooks with handleSyscalls, scanProc and reArmSweep.              *)
(***************************************************************************)
EXTENDS AgentLifecycle, Membership_proof

(* What a critical section of the manager does to a session t.             *)

Keeps(t) == sess'[t].cgroup = sess[t].cgroup /\ sess'[t].state = sess[t].state
Ends(t) == /\ sess'[t].cgroup = sess[t].cgroup
           /\ sess[t].state = "active" /\ sess'[t].state = "ended"
Begins(t) == sess[t].state = "none" /\ t \notin byID'
Indexes(t, w) == /\ job[w].pc = "index" /\ job'[w].pc = "announce" /\ job'[w].sid = t
                 /\ t \notin byID /\ t \in byID'
                 /\ sess[t].state = "active" /\ sess'[t].state = "active"

SessionEffect ==
    /\ \A t \in Ids : Keeps(t) \/ Ends(t) \/ Begins(t) \/ \E w \in Workers : Indexes(t, w)
    /\ \A t \in byID' \ byID : \E w \in Workers : Indexes(t, w)
    /\ \A t \in byID \ byID' : sess'[t].state = "ended"
    /\ \A t \in Ids : Ends(t) => job'[Handler].pc = "ended" /\ job'[Handler].sid = t
    /\ \A t \in Ids : \/ sess'[t].root \in Pids
                      \/ sess'[t].root = sess[t].root /\ sess'[t].state = sess[t].state

\* .. and to the goroutine w.
JobEffect ==
    \A w \in Workers :
       \/ job'[w] = job[w]
       \/ /\ job'[w].pc \notin {"announce", "ended"}
          /\ job[w].pc = "announce" => job'[w].pc = "idle"
          /\ job[w].pc = "idle" => job'[w].pc = "classify"
       \/ \E t \in Ids : Indexes(t, w)
       \/ /\ w = Handler /\ job[w].pc = "idle" 
          /\ \/ job'[w].pc = "ended" /\ job'[w].sid \in Ids /\ Ends(job'[w].sid)
             \/ job'[w].pc = "memberExit"
-----------------------------------------------------------------------------
\* A section that writes no session and no index.
LEMMA JobOnly ==
  ASSUME UNCHANGED <<sess, indexVars, history>>, job' \in [Workers -> Job], NEW w \in Workers,
         \A v \in Workers : v # w => job'[v] = job[v],
         \/ job'[w] = job[w]
         \/ /\ job'[w].pc \notin {"announce", "ended"}
            /\ job[w].pc = "announce" => job'[w].pc = "idle"
            /\ job[w].pc = "idle" => job'[w].pc = "classify"
  PROVE  SessionEffect /\ JobEffect
<1>1. SessionEffect
  BY Zenon DEF SessionEffect, Keeps, Ends, indexVars
<1>2. JobEffect
  BY Zenon DEF JobEffect
<1> QED  BY <1>1, <1>2, Zenon

\* A section that adds a member, or finds it there.
LEMMA MemberOnly ==
  ASSUME MInv, NEW s \in Ids, NEW p \in Pids, addMemberLocked(s, p) \/ UNCHANGED <<sess, pidIndex>>,
         UNCHANGED byID,
         job' = job \/ \E w \in Workers : job[w].pc = "classify" /\ job' = [job EXCEPT ![w] = IdleJob]
  PROVE  SessionEffect /\ JobEffect
<1>1. \A t \in Ids : Keeps(t) /\ sess'[t].root = sess[t].root
  BY AddMember, Zenon DEF Keeps, MInv
<1>2. \A w \in Workers : job'[w] = job[w] \/ (job[w].pc = "classify" /\ job'[w].pc = "idle")
  BY UnusedType, Zenon DEF MInv, MTypeOK
<1>3. SessionEffect
  BY <1>1, Zenon DEF SessionEffect, Keeps, Ends
<1>4. JobEffect
  BY <1>2, Zenon DEF JobEffect
<1> QED  BY <1>3, <1>4, Zenon

\* OnExec.
LEMMA OnExecEffect ==
  ASSUME MInv, NEW w \in Workers,
         (\E e \in Exec : OnExecFold(w, e) \/ OnExec(w, e)) \/ OnExecParent(w) \/ createSessionFold(w)
  PROVE  SessionEffect /\ JobEffect
<1>1. ASSUME NEW e \in Exec, OnExecFold(w, e) PROVE SessionEffect /\ JobEffect
  <2>1. byCgroup[e.cgroup] \in Ids /\ e.pid \in Pids
    BY <1>1, Zenon DEF OnExecFold, InManagedCgroup, Active, Exec, MInv, MTypeOK
  <2> QED  BY <1>1, <2>1, MemberOnly, Zenon DEF OnExecFold
<1>2. ASSUME NEW e \in Exec, OnExec(w, e) PROVE SessionEffect /\ JobEffect
  <2> DEFINE j == [IdleJob EXCEPT !.pc = "classify", !.ev = e]
  <2>1. j \in Job /\ j.pc = "classify"
    BY Zenon DEF IdleJob, Job, PCs
  <2>2. job[w].pc = "idle" /\ job' = [job EXCEPT ![w] = j] /\ UNCHANGED <<sess, indexVars, history>>
    BY <1>2, Zenon DEF OnExec
  <2> HIDE DEF j
  <2>3. job' \in [Workers -> Job] /\ \A v \in Workers : job'[v] = IF v = w THEN j ELSE job[v]
    BY <2>1, <2>2, Zenon DEF MInv, MTypeOK
  <2> QED  BY <2>1, <2>2, <2>3, JobOnly, Zenon
<1>3. ASSUME job[w].pc = "classify", UNCHANGED <<sess, indexVars, history>>, job' = [job EXCEPT ![w] = IdleJob]
      PROVE  SessionEffect /\ JobEffect
  <2>1. /\ job' \in [Workers -> Job] /\ job'[w].pc = "idle"
        /\ \A v \in Workers : v # w => job'[v] = job[v]
    BY <1>3, UnusedType, Zenon DEF MInv, MTypeOK
  <2> QED  BY <1>3, <2>1, JobOnly, Zenon
<1>4. CASE OnExecParent(w)
  <2> DEFINE p == job[w].ev.ppid
  <2>1. job[w].pc = "classify" /\ job[w].ev \in Exec
    BY <1>4, Zenon DEF OnExecParent, MInv, Jobs
  <2>2. job[w].ev.pid \in Pids /\ p \in Pids \cup {NoPid}
    BY <2>1, Zenon DEF Exec
  <2>3. CASE p # NoPid /\ Active(pidIndex[p])
    <3>1. pidIndex[p] \in Ids
      BY <2>2, <2>3, Zenon DEF Active, MInv, MTypeOK
    <3> QED  BY <1>4, <2>1, <2>2, <2>3, <3>1, MemberOnly, Zenon DEF OnExecParent
  <2>4. CASE ~(p # NoPid /\ Active(pidIndex[p]))
    BY <1>3, <1>4, <2>1, <2>4, Zenon DEF OnExecParent, indexVars
  <2> QED  BY <2>3, <2>4, Zenon
<1>5. CASE createSessionFold(w)
  <2> DEFINE e == job[w].ev
  <2>1. job[w].pc = "classify" /\ e \in Exec
    BY <1>5, Zenon DEF createSessionFold, MInv, Jobs
  <2>2. e.pid \in Pids /\ e.cgroup \in CgroupIds
    BY <2>1, Zenon DEF Exec
  <2>3. CASE Active(byRootPID[e.pid])
    BY <1>3, <1>5, <2>1, <2>3, Zenon DEF createSessionFold, indexVars
  <2>4. CASE ~Active(byRootPID[e.pid])
    <3>1. byCgroup[e.cgroup] \in Ids
      BY <1>5, <2>2, <2>4, Zenon DEF createSessionFold, InManagedCgroup, Active, MInv, MTypeOK
    <3> QED  BY <1>5, <2>1, <2>2, <2>4, <3>1, MemberOnly, Zenon DEF createSessionFold
  <2> QED  BY <2>3, <2>4, Zenon
<1> QED  BY <1>1, <1>2, <1>4, <1>5, Zenon

\* createSession and the placement.
LEMMA CreateEffect ==
  ASSUME MInv, NEW w \in Workers,
         (\E s \in Ids : createSession(w, s)) \/ (\E ok \in BOOLEAN : placeInCgroup(w, ok))
  PROVE  SessionEffect /\ JobEffect
<1>1. ASSUME NEW s \in Ids, createSession(w, s) PROVE SessionEffect /\ JobEffect
  <2> DEFINE j == [job[w] EXCEPT !.pc = "place", !.sid = s]
  <2>1. job[w].pc = "classify" /\ sess[s].state = "none" /\ job' = [job EXCEPT ![w] = j] /\ UNCHANGED byID
    BY <1>1, Zenon DEF createSession, indexVars
  <2>2. \A t \in Ids : t # s => sess'[t] = sess[t]
    BY <1>1, Zenon DEF createSession, MInv, MTypeOK
  <2>3. j.pc = "place"
    BY Zenon DEF MInv, MTypeOK, Job
  <2> HIDE DEF j
  <2>4. job'[w] = j /\ \A v \in Workers : v # w => job'[v] = job[v]
    BY <2>1, Zenon DEF MInv, MTypeOK
  <2>5. s \notin byID /\ (\A t \in Ids : t # s => Keeps(t)) /\ Begins(s)
    BY <2>1, <2>2, Zenon DEF Begins, Keeps, MInv, Known
  <2>6. \A t \in Ids : ~Ends(t)
    BY <2>1, <2>2, <2>5, Zenon DEF Ends, Keeps
  <2>7. SessionEffect
    <3>1. job[w].ev \in Exec
      BY <2>1, Zenon DEF MInv, Jobs
    <3>2. sess'[s].root = job[w].ev.pid
      BY <1>1, Zenon DEF createSession, MInv, MTypeOK
    <3>3. sess'[s].root \in Pids
      BY <3>1, <3>2, Zenon DEF Exec
    <3> QED  BY <2>1, <2>2, <2>5, <2>6, <3>3, Zenon DEF SessionEffect
  <2>8. JobEffect
    BY <2>1, <2>3, <2>4, Zenon DEF JobEffect
  <2> QED  BY <2>7, <2>8, Zenon
<1>2. ASSUME NEW ok \in BOOLEAN, placeInCgroup(w, ok) PROVE SessionEffect /\ JobEffect
  <2> DEFINE j == [job[w] EXCEPT !.pc = "index", !.placed = ok]
  <2>1. job[w] \in Job
    BY Zenon DEF MInv, MTypeOK
  <2>2. j \in Job /\ j.pc = "index"
    BY <2>1, Zenon DEF Job, PCs
  <2>3. job[w].pc = "place" /\ job' = [job EXCEPT ![w] = j] /\ UNCHANGED <<sess, indexVars, history>>
    BY <1>2, Zenon DEF placeInCgroup
  <2> HIDE DEF j
  <2>4. job' \in [Workers -> Job] /\ job'[w] = j /\ \A v \in Workers : v # w => job'[v] = job[v]
    BY <2>2, <2>3, Zenon DEF MInv, MTypeOK
  <2> QED  BY <2>2, <2>3, <2>4, JobOnly, Zenon
<1> QED  BY <1>1, <1>2, Zenon

\* The section that indexes the new session.
LEMMA IndexEffect ==
  ASSUME MInv, NEW w \in Workers, createSessionIndex(w)
  PROVE  SessionEffect /\ JobEffect
<1> DEFINE s == job[w].sid
           r == [sess[s] EXCEPT !.cgroup = IF job[w].placed THEN s ELSE sess[s].cgroup,
                                !.managed = job[w].placed]
           j == [job[w] EXCEPT !.pc = "announce"]
<1>1. job[w].pc = "index" /\ s \in Ids /\ s \notin byID /\ sess[s].state = "active"
  BY Zenon DEF createSessionIndex, MInv, Jobs, Building
<1>2. job[w] \in Job /\ sess[s] \in Session
  BY <1>1, Zenon DEF MInv, MTypeOK
<1>3. j.pc = "announce" /\ j.sid = s /\ r.state = "active" /\ r.root = sess[s].root
  BY <1>1, <1>2, Zenon DEF Job, Session
<1>4. job' = [job EXCEPT ![w] = j] /\ sess' = [sess EXCEPT ![s] = r] /\ byID' = byID \cup {s}
  BY Zenon DEF createSessionIndex
<1> HIDE DEF j, r
<1>5. job'[w] = j /\ (\A v \in Workers : v # w => job'[v] = job[v])
      /\ sess'[s] = r /\ (\A t \in Ids : t # s => sess'[t] = sess[t])
  BY <1>1, <1>4, Zenon DEF MInv, MTypeOK
<1>6. Indexes(s, w)
  BY <1>1, <1>3, <1>4, <1>5, Zenon DEF Indexes
<1>7. (\A t \in Ids : t # s => Keeps(t)) /\ \A t \in Ids : ~Ends(t)
  BY <1>1, <1>3, <1>5, Zenon DEF Keeps, Ends
<1>8. SessionEffect
  <2>1. byID' \ byID \subseteq {s} /\ byID \ byID' = {}
    BY <1>4, Zenon
  <2>2. \A t \in Ids : sess'[t].root = sess[t].root /\ sess'[t].state = sess[t].state
    BY <1>1, <1>3, <1>5, Zenon
  <2> QED  BY <1>6, <1>7, <2>1, <2>2, Zenon DEF SessionEffect
<1>9. JobEffect
  BY <1>1, <1>5, <1>6, Zenon DEF JobEffect
<1> QED  BY <1>8, <1>9, Zenon

\* The returns of the callbacks.
LEMMA ReturnEffect ==
  ASSUME MInv, (\E w \in Workers : announce(w)) \/ exitCallback
  PROVE  SessionEffect /\ JobEffect
<1>1. PICK w \in Workers : /\ job[w].pc \in {"announce", "ended", "memberExit"}
                           /\ job' = [job EXCEPT ![w] = IdleJob]
  BY Zenon DEF announce, exitCallback, Workers
<1>2. UNCHANGED <<sess, indexVars, history>>
  BY Zenon DEF announce, exitCallback
<1>3. job' \in [Workers -> Job] /\ job'[w].pc = "idle" /\ \A v \in Workers : v # w => job'[v] = job[v]
  BY <1>1, UnusedType, Zenon DEF MInv, MTypeOK
<1> QED  BY <1>1, <1>2, <1>3, JobOnly, Zenon

\* OnExit.
LEMMA OnExitEffect ==
  ASSUME MInv, NEW pid \in Pids,
         (\E adopt \in Pids : OnExitAdopt(pid, adopt)) \/ OnExitEnd(pid) \/ OnExitMember(pid)
  PROVE  SessionEffect /\ JobEffect
<1> DEFINE s == pidIndex[pid]
<1>1. /\ s \in Ids /\ s \in byID /\ sess[s] \in Session /\ sess[s].state = "active"
      /\ job[Handler].pc = "idle" /\ Handler \in Workers
  BY ExitFinds, Zenon DEF OnExitAdopt, OnExitEnd, OnExitMember, ExitReady, Workers
<1>2. ASSUME NEW adopt \in Pids, OnExitAdopt(pid, adopt) PROVE SessionEffect /\ JobEffect
  <2> DEFINE kept == WithoutMember(sess[s].members, pid)
             m == IF pidIndex[adopt] = NoSession THEN [kept EXCEPT ![adopt] = @ + 1] ELSE kept
             r == [sess[s] EXCEPT !.root = adopt, !.members = m]
  <2>1. sess' = [sess EXCEPT ![s] = r] /\ UNCHANGED <<byID, job>>
    BY <1>2, Zenon DEF OnExitAdopt
  <2> HIDE DEF m
  <2>2. r.state = sess[s].state /\ r.cgroup = sess[s].cgroup /\ r.root = adopt
    BY <1>1, Zenon DEF Session
  <2> HIDE DEF r
  <2>3. sess'[s] = r /\ \A t \in Ids : t # s => sess'[t] = sess[t]
    BY <1>1, <2>1, Zenon DEF MInv, MTypeOK
  <2>4. \A t \in Ids : Keeps(t) /\ ~Ends(t)
    BY <2>2, <2>3, Zenon DEF Keeps, Ends
  <2>5. \A t \in Ids : sess'[t].root \in Pids \/ (sess'[t].root = sess[t].root /\ sess'[t].state = sess[t].state)
    BY <2>2, <2>3, Zenon
  <2> QED  BY <2>1, <2>4, <2>5, Zenon DEF SessionEffect, JobEffect
<1>3. CASE OnExitMember(pid)
  <2> DEFINE r == [sess[s] EXCEPT !.members = WithoutMember(@, pid)]
             j == [IdleJob EXCEPT !.pc = "memberExit", !.gone = pid, !.sid = s]
  <2>1. sess' = [sess EXCEPT ![s] = r] /\ job' = [job EXCEPT ![Handler] = j] /\ UNCHANGED byID
    BY <1>3, Zenon DEF OnExitMember
  <2>2. r.state = sess[s].state /\ r.cgroup = sess[s].cgroup /\ r.root = sess[s].root
    BY <1>1, Zenon DEF Session
  <2>3. j.pc = "memberExit"
    BY Zenon DEF IdleJob
  <2> HIDE DEF r, j
  <2>4. sess'[s] = r /\ (\A t \in Ids : t # s => sess'[t] = sess[t])
        /\ job'[Handler] = j /\ (\A v \in Workers : v # Handler => job'[v] = job[v])
    BY <1>1, <2>1, Zenon DEF MInv, MTypeOK
  <2>5. \A t \in Ids : Keeps(t) /\ ~Ends(t)
    BY <2>2, <2>4, Zenon DEF Keeps, Ends
  <2>6. SessionEffect
    <3>1. \A t \in Ids : sess'[t].root = sess[t].root /\ sess'[t].state = sess[t].state
      BY <2>2, <2>4, Zenon
    <3> QED  BY <2>1, <2>5, <3>1, Zenon DEF SessionEffect
  <2>7. JobEffect
    BY <1>1, <2>3, <2>4, Zenon DEF JobEffect
  <2> QED  BY <2>6, <2>7, Zenon
<1>4. CASE OnExitEnd(pid)
  <2> DEFINE r == [sess[s] EXCEPT !.state = "ended"]
             j == [IdleJob EXCEPT !.pc = "ended", !.sid = s]
             h == Append(history, s)
  <2>1. sess' = [sess EXCEPT ![s] = r] /\ job' = [job EXCEPT ![Handler] = j]
        /\ byID' = IF Len(h) > HistoryMax THEN byID \ {Head(h)} ELSE byID
    BY <1>4, Zenon DEF OnExitEnd, HistoryOver
  <2>2. r.state = "ended" /\ r.cgroup = sess[s].cgroup /\ r.root = pid
    BY <1>1, <1>4, Zenon DEF Session, OnExitEnd, IsRoot
  <2>3. j.pc = "ended" /\ j.sid = s
    BY Zenon DEF IdleJob
  <2> HIDE DEF r, j
  <2>4. sess'[s] = r /\ (\A t \in Ids : t # s => sess'[t] = sess[t])
        /\ job'[Handler] = j /\ (\A v \in Workers : v # Handler => job'[v] = job[v])
    BY <1>1, <2>1, Zenon DEF MInv, MTypeOK
  <2>5. Ends(s) /\ \A t \in Ids : t # s => Keeps(t) /\ ~Ends(t)
    BY <1>1, <2>2, <2>4, Zenon DEF Keeps, Ends
  \* The session that leaves the history is an ended one, or s itself.
  <2>6. sess'[Head(h)].state = "ended"
    <3>1. history \in Seq(Ids)
      BY Zenon DEF MInv, MTypeOK
    <3>2. CASE history = <<>>
      <4>1. Head(h) = s
        BY <1>1, <3>2
      <4> QED  BY <2>2, <2>4, <4>1, Zenon
    <3>3. CASE history # <<>>
      <4>1. Head(h) = history[1] /\ 1 \in 1..Len(history)
        BY <1>1, <3>1, <3>3
      <4>2. sess[history[1]].state = "ended" /\ history[1] \in Ids
        BY <3>1, <4>1 DEF MInv, HistoryOK
      <4> QED  BY <1>1, <2>4, <4>1, <4>2, Zenon
    <3> QED  BY <3>2, <3>3, Zenon
  <2> HIDE DEF h
  <2>7. SessionEffect
    <3>1. byID' \subseteq byID /\ byID \ byID' \subseteq {Head(h)}
      BY <2>1, Zenon
    <3>2. \A t \in Ids : sess'[t].root \in Pids \/ (sess'[t].root = sess[t].root /\ sess'[t].state = sess[t].state)
      BY <2>2, <2>4, Zenon
    <3> QED  BY <1>1, <2>3, <2>4, <2>5, <2>6, <3>1, <3>2, Zenon DEF SessionEffect
  <2>8. JobEffect
    BY <1>1, <2>3, <2>4, <2>5, Zenon DEF JobEffect
  <2> QED  BY <2>7, <2>8, Zenon
<1> QED  BY <1>2, <1>3, <1>4, Zenon

\* Every section of the manager.
LEMMA SectionEffect ==
  ASSUME MInv, [Section]_mvars
  PROVE  SessionEffect /\ JobEffect
<1>1. CASE UNCHANGED mvars
  BY <1>1, Zenon DEF mvars, indexVars, SessionEffect, JobEffect, Keeps, Ends
<1> QED  BY <1>1, OnExecEffect, CreateEffect, IndexEffect, ReturnEffect, OnExitEffect, Zenon DEF Section
-----------------------------------------------------------------------------
(* The inductive invariant.                                                *)

Records == [op : {"exec", "exit"}, pid : Tids, ppid : {NoPid}, cgroup : Cgroups,
            signs : SUBSET Signs, parent : Tids \cup {Init1}, whole : BOOLEAN]

DaemonType ==
    /\ ring \in Seq(Records) /\ Len(ring) <= RingMax
    /\ lost \in BOOLEAN
    /\ post = <<>> \/ \E r \in Records : post = <<r>>
    /\ scan \in [Workers \cup {Sweeper} -> (SUBSET Tids) \cup {NoScan}]
    /\ unscanned \subseteq ScanProc
    /\ births \in 0..MaxBirths /\ execs \in 0..MaxExecs
    /\ half \in [Workers \cup {Sweeper} -> SUBSET Tids]
    /\ thin \subseteq Tids /\ cut \subseteq Pids

\* A session that was ever created has a root.
Rooted == \A s \in Ids : sess[s].state # "none" => sess[s].root \in Pids

\* A callback runs for a session the manager knows, or that has ended.
Callbacks ==
    \A w \in Workers :
       /\ job[w].pc = "announce" =>
             /\ job[w].sid \in Ids /\ sess[job[w].sid].state # "none"
             /\ sess[job[w].sid].state = "active" => job[w].sid \in byID
       /\ job[w].pc = "ended" => job[w].sid \in Ids /\ sess[job[w].sid].state = "ended"

\* Only a goroutine inside onNewSession holds a snapshot of /proc ..
ScanHeld == \A w \in Workers : scan[w] # NoScan => job[w].pc = "announce"

\* .. and by then the cgroup key is written.
Announced ==
    \A w \in Workers :
       LET s == job[w].sid IN
       /\ job[w].pc = "announce" /\ scan[w] # NoScan
       /\ sess[s].state = "active" /\ sess[s].cgroup # NoCgroup
       => SigFlags \subseteq sessions[sess[s].cgroup]

LInv == /\ MInv /\ KTypeOK /\ DaemonType /\ Rooted
        /\ Callbacks /\ ScanHeld /\ Announced /\ ActiveCgroupArmed

\* Without agents that were there before the daemon, only handleSyscalls
\* onboards, and it does not end the session it is onboarding.
OneOnboards ==
    /\ unscanned = {} /\ job[Scanner].pc = "idle"
    /\ job[Handler].pc = "announce" =>
          job[Handler].sid \in byID /\ sess[job[Handler].sid].state = "active"
-----------------------------------------------------------------------------
(* The shape of a step.                                                    *)

\* Every record of the ring is an exec the manager accepts.
LEMMA RecordIsExec ==
  ASSUME NEW r \in Records
  PROVE  AsExec(r) \in Exec /\ r.pid \in Pids
<1>1. r.pid \in Tids /\ r.ppid = NoPid /\ r.cgroup \in Cgroups
  BY Zenon DEF Records
<1>2. Classified(r) \in BOOLEAN
  BY Zenon DEF Classified
<1>3. r.pid \in Pids /\ r.ppid \in Pids \cup {NoPid} /\ r.cgroup \in CgroupIds
  BY <1>1, LifecycleAssumption, Zenon DEF CgroupIds
<1> QED  BY <1>2, <1>3, Zenon DEF AsExec, Exec

\* What the handler takes off the ring is a record, and the rest still fits.
LEMMA HeadIsRecord ==
  ASSUME DaemonType, ring # <<>>
  PROVE  /\ Head(ring) \in Records /\ Tail(ring) \in Seq(Records)
         /\ Len(Tail(ring)) <= RingMax
  BY LifecycleAssumption DEF DaemonType

\* A goroutine inside onNewSession takes its next step.
Announces(w) == \/ onNewSession(w) \/ EnforceSession(w)
                \/ RegisterDescendants(w) \/ armLiveDescendants(w)

\* What a step may do to a goroutine inside a callback, to a snapshot, and to
\* the cgroup keys.
Shape ==
    /\ [Section]_mvars
    /\ \A w \in Workers : job[w].pc \in {"announce", "ended"} =>
          \/ job'[w] = job[w]
          \/ armLiveDescendants(w)
          \/ w = Handler /\ onSessionEnded
    /\ \A w \in Workers : scan'[w] = scan[w] \/ EnforceSession(w) \/ armLiveDescendants(w)
    /\ \/ sessions' = sessions \/ onSessionEnded
       \/ \E w \in Workers : onNewSession(w) \/ EnforceSession(w)

\* A step that touches neither manager nor keys nor the workers' scans.
LEMMA ShapeQuiet ==
  ASSUME UNCHANGED mvars, UNCHANGED sessions, \A w \in Workers : scan'[w] = scan[w]
  PROVE  Shape
  BY Zenon DEF Shape, mvars

\* A section run by goroutine w, outside the callbacks.
LEMMA ShapeSection ==
  ASSUME MTypeOK, Section, NEW w \in Workers, NEW j, job[w].pc \notin {"announce", "ended"},
         job' = job \/ job' = [job EXCEPT ![w] = j], UNCHANGED <<sessions, scan>>
  PROVE  Shape
<1>1. \A v \in Workers : v # w => job'[v] = job[v]
  BY Zenon DEF MTypeOK
<1> QED  BY <1>1, Zenon DEF Shape

\* The kernel's steps write no cgroup key and run none of the manager.
LEMMA ShapeKernel ==
  ASSUME Kernel
  PROVE  Shape
<1>1. UNCHANGED mvars /\ UNCHANGED scan
  BY Zenon DEF Kernel, Fork, Execve, Bprm, Exit, daemonVars
<1>2. UNCHANGED sessions
  <2>1. CASE Fork
    BY <2>1, Zenon DEF Fork, ak_proc_fork, ForkUnseen, ak_proc_fork_thread, ForkOutside, NewProcess, mapVars
  <2>2. ASSUME NEW p \in Tids, Bprm(p) PROVE UNCHANGED sessions
    BY <2>2, Zenon DEF Bprm, ak_lsm_bprm_refuse, ak_lsm_bprm_allow, ExecFails, ExecDone, mapVars
  <2>3. ASSUME NEW p \in Tids, NEW signs \in ExecSigns, Execve(p, signs) PROVE UNCHANGED sessions
    BY <2>3, Zenon DEF Execve, ak_execve
  <2>4. ASSUME NEW t \in Tids, Exit(t) PROVE UNCHANGED sessions
    BY <2>4, Zenon DEF Exit, ak_proc_exit
  <2> QED  BY <2>1, <2>2, <2>3, <2>4, Zenon DEF Kernel
<1> QED  BY <1>1, <1>2, ShapeQuiet, Zenon

\* The handler runs one section of the manager for a record.
LEMMA ShapeHandler ==
  ASSUME MInv, KTypeOK, DaemonType, handleExec \/ registerExec \/ enforceExec \/ handleExit
  PROVE  Shape
<1> Handler \in Workers
  BY Zenon DEF Workers
<1>0. MTypeOK
  BY Zenon DEF MInv
<1>1. CASE handleExec
  <2> DEFINE e == AsExec(Head(ring))
  <2>1. e \in Exec
    BY <1>1, HeadIsRecord, RecordIsExec, Zenon DEF handleExec, Ready
  <2>2. OnExecFold(Handler, e) \/ OnExec(Handler, e)
    BY <1>1, Zenon DEF handleExec
  <2>3. UNCHANGED <<sessions, scan>>
    BY <1>1, Zenon DEF handleExec, kvars, mapVars
  <2> HIDE DEF e
  <2>4. Section
    BY <2>1, <2>2, Zenon DEF Section
  <2>5. \E j : job[Handler].pc = "idle" /\ (job' = job \/ job' = [job EXCEPT ![Handler] = j])
    BY <2>2, Zenon DEF OnExecFold, OnExec
  <2> QED  BY <1>0, <2>3, <2>4, <2>5, ShapeSection, Zenon
<1>2. CASE registerExec \/ enforceExec
  BY <1>2, ShapeQuiet, Zenon DEF registerExec, enforceExec
<1>3. CASE handleExit
  <2> DEFINE pid == Head(ring).pid
  <2>1. pid \in Pids
    BY <1>3, HeadIsRecord, RecordIsExec, Zenon DEF handleExit, Ready
  <2>2. UNCHANGED <<sessions, scan>>
    BY <1>3, Zenon DEF handleExit, kvars, mapVars, daemonVars
  <2>3. Processes \subseteq Pids
    BY LifecycleAssumption DEF Processes, KTypeOK
  <2>4. \/ UNCHANGED mvars
        \/ \E adopt \in Pids : OnExitAdopt(pid, adopt)
        \/ OnExitEnd(pid) \/ OnExitMember(pid)
    BY <1>3, <2>3, Zenon DEF handleExit, Survivors
  <2> HIDE DEF pid
  <2>5. CASE UNCHANGED mvars
    BY <2>2, <2>5, ShapeQuiet, Zenon
  <2>6. CASE (\E adopt \in Pids : OnExitAdopt(pid, adopt)) \/ OnExitEnd(pid) \/ OnExitMember(pid)
    <3>1. Section
      BY <2>1, <2>6, Zenon DEF Section
    <3>2. \E j : job[Handler].pc = "idle" /\ (job' = job \/ job' = [job EXCEPT ![Handler] = j])
      BY <2>6, Zenon DEF OnExitAdopt, OnExitEnd, OnExitMember, ExitReady
    <3> QED  BY <1>0, <2>2, <3>1, <3>2, ShapeSection, Zenon
  <2> QED  BY <2>4, <2>5, <2>6, Zenon
<1> QED  BY <1>1, <1>2, <1>3, Zenon

\* A goroutine goes on with the onboarding it has begun.
LEMMA ShapeOnboard ==
  ASSUME MInv, NEW w \in Workers, OnboardStep(w)
  PROVE  Shape
<1>1. MTypeOK
  BY Zenon DEF MInv
<1>2. UNCHANGED <<sessions, scan>>
  BY Zenon DEF OnboardStep, Onboard, kvars, mapVars, daemonVars
<1>3. \/ OnExecParent(w) \/ createSessionFold(w) \/ createSessionIndex(w)
      \/ \E s \in Ids : createSession(w, s)
      \/ \E ok \in BOOLEAN : placeInCgroup(w, ok)
  BY Zenon DEF OnboardStep, Onboard
<1>4. Section
  BY <1>3, Zenon DEF Section
<1>5. job[w].pc \in {"classify", "place", "index"} /\ \E j : job' = [job EXCEPT ![w] = j]
  BY <1>3, Zenon DEF OnExecParent, createSessionFold, createSessionIndex, createSession, placeInCgroup
<1> QED  BY Zenon, <1>1, <1>2, <1>4, <1>5, ShapeSection

\* The startup scan runs the section an exec record would.
LEMMA ShapeScan ==
  ASSUME MInv, KTypeOK, NEW p \in Tids, scanProc(p)
  PROVE  Shape
<1> Scanner \in Workers
  BY Zenon DEF Workers
<1> DEFINE e == [pid |-> p, ppid |-> NoPid, cgroup |-> NoCgroup, agent |-> ScannedAgent(p)]
<1>1. e \in Exec
  BY LifecycleAssumption, Zenon DEF Exec, CgroupIds, ScannedAgent
<1>2. UNCHANGED <<sessions, scan>> /\ (OnExec(Scanner, e) \/ UNCHANGED mvars)
  BY Zenon DEF scanProc, kvars, mapVars
<1> HIDE DEF e
<1>3. CASE OnExec(Scanner, e)
  <2>1. Section
    BY <1>1, <1>3, Zenon DEF Section
  <2>2. \E j : job[Scanner].pc = "idle" /\ job' = [job EXCEPT ![Scanner] = j]
    BY <1>3, Zenon DEF OnExec
  <2> QED  BY <1>2, <2>1, <2>2, ShapeSection, Zenon DEF MInv
<1> QED  BY <1>2, <1>3, ShapeQuiet, Zenon

\* The callbacks run after their section, on the session it left them.
LEMMA ShapeCallback ==
  ASSUME MInv, DaemonType, NEW w \in Workers,
         Announces(w) \/ onSessionEnded \/ onMemberExit
  PROVE  Shape
<1> Handler \in Workers
  BY Zenon DEF Workers
<1>0. job \in [Workers -> Job] /\ \A v \in Workers : v \in DOMAIN scan
  BY Zenon DEF MInv, MTypeOK, DaemonType
<1>1. CASE onNewSession(w) \/ EnforceSession(w)
  <2>1. UNCHANGED mvars /\ \A v \in Workers : v # w => scan'[v] = scan[v]
    BY <1>0, <1>1, Zenon DEF onNewSession, EnforceSession
  <2>2. scan'[w] = scan[w] \/ EnforceSession(w)
    BY <1>1, Zenon DEF onNewSession
  <2> QED  BY <1>1, <2>1, <2>2, Zenon DEF Shape, mvars
<1>r. CASE RegisterDescendants(w)
  BY <1>r, ShapeQuiet, Zenon DEF RegisterDescendants
<1>2. CASE armLiveDescendants(w)
  <2>1. Section /\ UNCHANGED sessions
    BY <1>2, Zenon DEF armLiveDescendants, Section
  <2>2. \A v \in Workers : v # w => scan'[v] = scan[v] /\ job'[v] = job[v]
    BY <1>0, <1>2, Zenon DEF armLiveDescendants, announce
  <2> QED  BY <1>2, <2>1, <2>2, Zenon DEF Shape
<1>3. CASE onSessionEnded \/ onMemberExit
  <2>1. Section /\ UNCHANGED scan
    BY <1>3, Zenon DEF onSessionEnded, onMemberExit, Section, daemonVars
  <2>2. \A v \in Workers : v # Handler => job'[v] = job[v]
    BY <1>0, <1>3, Zenon DEF onSessionEnded, onMemberExit, exitCallback
  <2>3. job[Handler].pc \in {"announce", "ended"} => onSessionEnded
    BY <1>3, Zenon DEF onMemberExit
  <2>4. sessions' = sessions \/ onSessionEnded
    BY <1>3, Zenon DEF onMemberExit
  <2> QED  BY <2>1, <2>2, <2>3, <2>4, Zenon DEF Shape
<1> QED  BY <1>1, <1>r, <1>2, <1>3, Zenon DEF Announces

\* The sweep writes pid keys only.
LEMMA ShapeSweep ==
  ASSUME DaemonType, Sweep
  PROVE  Shape
<1>1. UNCHANGED mvars /\ UNCHANGED sessions
  BY Zenon DEF Sweep, reArm, reArmScan, kvars, mapVars
<1>2. \A w \in Workers : scan'[w] = scan[w]
  <2>1. \E S : scan' = [scan EXCEPT ![Sweeper] = S]
    BY Zenon DEF Sweep, reArm, reArmScan
  <2> QED  BY <2>1, LifecycleAssumption, Zenon DEF DaemonType
<1> QED  BY <1>1, <1>2, ShapeQuiet, Zenon

\* .. and of every step of the composition.
LEMMA StepShape ==
  ASSUME MInv, KTypeOK, DaemonType, [LNext]_lvars
  PROVE  Shape
<1> Handler \in Workers /\ Scanner \in Workers
  BY Zenon DEF Workers
<1>1. CASE UNCHANGED lvars
  BY <1>1, ShapeQuiet, Zenon DEF lvars, kvars, mapVars, daemonVars
<1>2. CASE HandleSyscalls
  BY <1>2, ShapeHandler, ShapeOnboard, ShapeCallback, Zenon DEF HandleSyscalls, Announces
<1>3. CASE Bootstrap
  BY <1>3, ShapeScan, ShapeOnboard, ShapeCallback, Zenon DEF Bootstrap, Announces
<1> QED  BY <1>1, <1>2, <1>3, ShapeKernel, ShapeSweep, Zenon DEF LNext
-----------------------------------------------------------------------------
(* Types.                                                                  *)

\* The daemon only ever adds flags to a word, or deletes it.
LEMMA WordsKept ==
  ASSUME KTypeOK
  PROVE  /\ {} \in FlagWords
         /\ \A f \in FlagWords : Armed(f) \in FlagWords /\ Registered(f) \in FlagWords
         /\ \A w, S : RegisterPids(w, S) \/ EnforcePids(w, S) => pids' \in [Tids -> FlagWords]
         /\ \A S : DropPids(S) => pids' \in [Tids -> FlagWords]
<1>1. {} \in FlagWords /\ \A f \in FlagWords : Armed(f) \in FlagWords /\ Registered(f) \in FlagWords
  BY SigFlagsWord, Zenon DEF Armed, Registered, FlagWords
<1>2. ASSUME NEW w, NEW S, RegisterPids(w, S) \/ EnforcePids(w, S) PROVE pids' \in [Tids -> FlagWords]
  <2>1. \A k \in Tids : pids[k] \in FlagWords
    BY Zenon DEF KTypeOK
  <2>2. CASE RegisterPids(w, S)
    BY <1>1, <2>1, <2>2, Zenon DEF RegisterPids
  <2>3. CASE EnforcePids(w, S)
    BY <1>1, <2>1, <2>3, Zenon DEF EnforcePids
  <2> QED  BY <1>2, <2>2, <2>3, Zenon
<1>3. ASSUME NEW S, DropPids(S) PROVE pids' \in [Tids -> FlagWords]
  BY <1>1, <1>3, Zenon DEF DropPids, KTypeOK
<1> QED  BY <1>1, <1>2, <1>3, Zenon

\* The cgroup a session records is unknown or one the kernel knows.
LEMMA SessionCgroup ==
  ASSUME MTypeOK, NEW s \in Ids
  PROVE  sess[s].cgroup \in Cgroups \cup {NoCgroup}
<1>1. sess[s] \in Session
  BY Zenon DEF MTypeOK
<1> QED  BY <1>1, LifecycleAssumption, Zenon DEF Session, CgroupIds

\* A kernel step of the composition is one of KernelMembership.
LEMMA KernelIsKNext ==
  ASSUME Kernel
  PROVE  KNext
<1>1. CASE Fork
  BY <1>1, Zenon DEF Fork, KNext
<1>2. ASSUME NEW p \in Tids, NEW signs \in ExecSigns, Execve(p, signs) PROVE KNext
  BY <1>2, LifecycleAssumption, Zenon DEF Execve, KNext
<1>3. ASSUME NEW p \in Tids, Bprm(p) PROVE KNext
  BY <1>3, Zenon DEF Bprm, KNext
<1>4. ASSUME NEW t \in Tids, Exit(t) PROVE KNext
  BY <1>4, Zenon DEF Exit, KNext
<1> QED  BY <1>1, <1>2, <1>3, <1>4, Zenon DEF Kernel

\* The daemon's writes to the two maps, when the words are words.
LEMMA KTypeMaps ==
  ASSUME KTypeOK, pids' \in [Tids -> FlagWords], sessions' \in [Cgroups -> FlagWords],
         UNCHANGED <<procVars, faulted, histVars>>
  PROVE  KTypeOK'
  BY Zenon DEF KTypeOK, procVars, histVars

\* What the callbacks write and delete.
LEMMA KTypeCallback ==
  ASSUME MInv, KTypeOK, Callbacks, NEW w \in Workers,
         Announces(w) \/ onSessionEnded \/ onMemberExit
  PROVE  KTypeOK'
<1> Handler \in Workers
  BY Zenon DEF Workers
<1>0. MTypeOK /\ sessions \in [Cgroups -> FlagWords]
  BY Zenon DEF MInv, KTypeOK
<1>1. CASE onNewSession(w) \/ EnforceSession(w)
  <2> DEFINE c == sess[job[w].sid].cgroup
  <2>1. c \in Cgroups \cup {NoCgroup}
    BY <1>0, <1>1, SessionCgroup, Zenon DEF onNewSession, EnforceSession, Callbacks
  <2>2. \/ sessions' = sessions
        \/ c # NoCgroup /\ sessions' = [sessions EXCEPT ![c] = Armed(@)]
        \/ c # NoCgroup /\ sessions' = [sessions EXCEPT ![c] = Registered(@)]
    BY <1>1, Zenon DEF onNewSession, EnforceSession
  <2>3. sessions' \in [Cgroups -> FlagWords]
    BY ZenonT(30), <1>0, <2>1, <2>2, WordsKept
  <2>4. pids' \in [Tids -> FlagWords] /\ UNCHANGED <<procVars, faulted, histVars>>
    BY <1>1, WordsKept, Zenon DEF onNewSession, EnforceSession
  <2> QED  BY <2>3, <2>4, KTypeMaps, Zenon
<1>2. CASE RegisterDescendants(w) \/ armLiveDescendants(w)
  <2>1. pids' \in [Tids -> FlagWords] /\ UNCHANGED <<procVars, sessions, faulted, histVars>>
    BY <1>2, WordsKept, Zenon DEF RegisterDescendants, armLiveDescendants
  <2> QED  BY <1>0, <2>1, KTypeMaps, Zenon
<1>3. CASE onSessionEnded
  <2> DEFINE c == sess[job[Handler].sid].cgroup
  <2>1. c \in Cgroups \cup {NoCgroup}
    BY <1>0, <1>3, SessionCgroup, Zenon DEF onSessionEnded, Callbacks
  <2>2. sessions' = sessions \/ (c # NoCgroup /\ sessions' = [sessions EXCEPT ![c] = {}])
    BY <1>3, Zenon DEF onSessionEnded
  <2>3. sessions' \in [Cgroups -> FlagWords]
    BY Zenon, <1>0, <2>1, <2>2, WordsKept
  <2>4. pids' \in [Tids -> FlagWords] /\ UNCHANGED <<procVars, faulted, histVars>>
    BY <1>3, WordsKept, Zenon DEF onSessionEnded
  <2> QED  BY <2>3, <2>4, KTypeMaps, Zenon
<1>4. CASE onMemberExit
  <2>1. pids' \in [Tids -> FlagWords] /\ UNCHANGED <<procVars, sessions, faulted, histVars>>
    BY <1>4, WordsKept, Zenon DEF onMemberExit
  <2> QED  BY <1>0, <2>1, KTypeMaps, Zenon
<1> QED  BY <1>1, <1>2, <1>3, <1>4, Zenon DEF Announces

\* An onboarding moves a process to its session's cgroup.
LEMMA KTypeOnboard ==
  ASSUME MInv, KTypeOK, NEW w \in Workers, OnboardStep(w)
  PROVE  KTypeOK'
<1>1. CASE UNCHANGED kvars
  BY <1>1, Zenon DEF KTypeOK, kvars, procVars, mapVars, histVars
<1>2. CASE placeInCgroup(w, TRUE) /\ cgroup' = [cgroup EXCEPT ![job[w].ev.pid] = job[w].sid]
           /\ UNCHANGED <<alive, tgid, parent, pending, checked, image, mapVars, histVars>>
  <2>1. job[w].sid \in Cgroups
    BY <1>2, LifecycleAssumption, Zenon DEF placeInCgroup, MInv, Jobs, Building
  <2>2. cgroup' \in [Tids -> Cgroups]
    BY <1>2, <2>1, Zenon DEF KTypeOK
  <2> QED  BY <1>2, <2>2, Zenon DEF KTypeOK, mapVars, histVars
<1> QED  BY <1>1, <1>2, Zenon DEF OnboardStep, Onboard

\* The kernel's types over every step.
LEMMA KTypeStep ==
  ASSUME MInv, KTypeOK, Callbacks, [LNext]_lvars
  PROVE  KTypeOK'
<1> Handler \in Workers /\ Scanner \in Workers
  BY Zenon DEF Workers
<1>1. CASE UNCHANGED kvars
  BY <1>1, Zenon DEF KTypeOK, kvars, procVars, mapVars, histVars
<1>2. CASE Kernel
  BY <1>2, KernelIsKNext, KTypeNext, Zenon
<1>3. CASE registerExec \/ enforceExec
  <2>1. pids' \in [Tids -> FlagWords]
    BY <1>3, WordsKept, Zenon DEF registerExec, enforceExec, KTypeOK
  <2>2. sessions' \in [Cgroups -> FlagWords] /\ UNCHANGED <<procVars, faulted, histVars>>
    BY <1>3, Zenon DEF registerExec, enforceExec, KTypeOK
  <2> QED  BY <2>1, <2>2, KTypeMaps, Zenon
<1>4. CASE Sweep
  <2>1. CASE reArm
    <3>1. pids' \in [Tids -> FlagWords]
      BY <2>1, WordsKept, Zenon DEF reArm
    <3>2. sessions' \in [Cgroups -> FlagWords] /\ UNCHANGED <<procVars, faulted, histVars>>
      BY <2>1, Zenon DEF reArm, KTypeOK
    <3> QED  BY <3>1, <3>2, KTypeMaps, Zenon
  <2> QED  BY <1>1, <1>4, <2>1, Zenon DEF Sweep, reArmScan
<1>5. CASE HandleSyscalls
  BY <1>1, <1>3, <1>5, KTypeOnboard, KTypeCallback, Zenon DEF HandleSyscalls, Announces, handleExec, handleExit
<1>6. CASE Bootstrap
  BY <1>1, <1>6, KTypeOnboard, KTypeCallback, Zenon DEF Bootstrap, Announces, scanProc
<1> QED  BY <1>1, <1>2, <1>4, <1>5, <1>6, Zenon DEF LNext, lvars

\* The ring takes a record or drops it.
LEMMA EmitType ==
  ASSUME KTypeOK, DaemonType, NEW op \in {"exec", "exit"}, NEW p \in Tids, NEW signs \in SUBSET Signs,
         NEW whole \in BOOLEAN, Emit(Record(op, p, signs, whole))
  PROVE  ring' \in Seq(Records) /\ Len(ring') <= RingMax /\ lost' \in BOOLEAN
<1> DEFINE r == Record(op, p, signs, whole)
<1>1. cgroup[p] \in Cgroups /\ parent[p] \in Tids \cup {Init1}
  BY Zenon DEF KTypeOK
<1>2. r \in Records
  BY <1>1, Zenon DEF Records, Record
<1>3. ring' = IF Len(ring) >= RingMax THEN ring ELSE Append(ring, r)
  BY Zenon DEF Emit, RingFull
<1>4. lost' \in BOOLEAN
  BY Zenon DEF Emit, DaemonType
<1>5. ring \in Seq(Records) /\ Len(ring) <= RingMax /\ Len(ring) \in Nat /\ RingMax \in Nat
  BY LifecycleAssumption DEF DaemonType
<1> HIDE DEF r
<1>6. Append(ring, r) \in Seq(Records) /\ Len(Append(ring, r)) = Len(ring) + 1
  BY <1>2, <1>5
<1> QED  BY <1>3, <1>4, <1>5, <1>6

\* The ring takes a record of a kernel step, or drops it.
LEMMA DaemonTypeKernel ==
  ASSUME KTypeOK, DaemonType, Kernel
  PROVE  DaemonType'
<1>0. UNCHANGED <<daemonVars, cut>> /\ thin' \subseteq Tids
  <2>1. UNCHANGED <<daemonVars, cut>> /\ Thinned
    BY Zenon DEF Kernel, Fork, Execve, Bprm, Exit, envVars
  <2> QED  BY <2>1, Zenon DEF Thinned
<1>1. births' \in 0..MaxBirths /\ execs' \in 0..MaxExecs
  <2>1. births' = births \/ (births < MaxBirths /\ births' = births + 1)
    BY Zenon DEF Kernel, Fork, Execve, Bprm, Exit, envVars
  <2>2. execs' = execs \/ (execs < MaxExecs /\ execs' = execs + 1)
    BY Zenon DEF Kernel, Fork, Execve, Bprm, Exit, envVars
  <2> QED  BY <2>1, <2>2, LifecycleAssumption DEF DaemonType
<1>2. ring' \in Seq(Records) /\ Len(ring') <= RingMax /\ lost' \in BOOLEAN
  <2>1. CASE UNCHANGED <<ring, lost>>
    BY <2>1, Zenon DEF DaemonType
  <2>2. ASSUME NEW p \in Tids, NEW signs \in ExecSigns, Execve(p, signs)
        PROVE  ring' \in Seq(Records) /\ Len(ring') <= RingMax /\ lost' \in BOOLEAN
    <3>1. Emit(Record("exec", tgid[p], signs, FALSE)) /\ signs \in SUBSET Signs /\ tgid[p] \in Tids
      BY <2>2, LifecycleAssumption, Zenon DEF Execve, KTypeOK
    <3> QED  BY Zenon, <3>1, EmitType
  <2>3. ASSUME NEW t \in Tids, Exit(t)
        PROVE  ring' \in Seq(Records) /\ Len(ring') <= RingMax /\ lost' \in BOOLEAN
    <3>1. tgid[t] \in Tids
      BY Zenon DEF KTypeOK
    <3>2. UNCHANGED <<ring, lost>> \/ Emit(Record("exit", tgid[t], {}, Threads(tgid[t]) = {t}))
      BY <2>3, Zenon DEF Exit
    <3>3. (Threads(tgid[t]) = {t}) \in BOOLEAN
      BY Zenon
    <3> QED  BY Zenon, <2>1, <3>1, <3>2, <3>3, EmitType
  <2> QED  BY <2>1, <2>2, <2>3, Zenon DEF Kernel, Fork, Bprm
<1> QED  BY <1>0, <1>1, <1>2, Zenon DEF DaemonType, daemonVars

\* What the walks of /proc and Members find are tasks.
LEMMA WalkType ==
  ASSUME KTypeOK
  PROVE  /\ \A root : Descendants(root) \subseteq Tids
         /\ \A s : Listed(s) \subseteq Tids
  BY LifecycleAssumption DEF KTypeOK, Descendants, Listed, Processes

\* A walk begins, goes on or is over.
LEMMA ScanType ==
  ASSUME DaemonType, NEW w \in Workers \cup {Sweeper}, NEW S \in (SUBSET Tids) \cup {NoScan},
         scan' = [scan EXCEPT ![w] = S]
  PROVE  scan' \in [Workers \cup {Sweeper} -> (SUBSET Tids) \cup {NoScan}]
  BY Zenon DEF DaemonType

\* A registration begins or is over.
LEMMA HalfType ==
  ASSUME DaemonType, NEW w \in Workers \cup {Sweeper}, NEW S \in SUBSET Tids,
         RegisterPids(w, S) \/ EnforcePids(w, S)
  PROVE  half' \in [Workers \cup {Sweeper} -> SUBSET Tids] /\ thin' \subseteq Tids
<1>1. half' = [half EXCEPT ![w] = S] \/ half' = [half EXCEPT ![w] = {}]
  BY Zenon DEF RegisterPids, EnforcePids
<1>2. half[w] \subseteq Tids /\ {} \in SUBSET Tids
  BY Zenon DEF DaemonType
<1>3. thin' = thin \/ thin' = (thin \cup half[w]) \ S
  BY Zenon DEF RegisterPids, EnforcePids
<1> QED  BY <1>1, <1>2, <1>3, Zenon DEF DaemonType

\* The daemon's own steps.
LEMMA DaemonTypeSteps ==
  ASSUME KTypeOK, DaemonType, Rooted, Callbacks, HandleSyscalls \/ Bootstrap \/ Sweep
  PROVE  DaemonType'
<1> DEFINE Scans == scan' \in [Workers \cup {Sweeper} -> (SUBSET Tids) \cup {NoScan}]
<1> Handler \in Workers /\ Scanner \in Workers
  BY Zenon DEF Workers
<1>1. CASE handleExec \/ handleExit
  <2>1. ring # <<>> /\ ring' = Tail(ring) /\ (post' = <<Head(ring)>> \/ UNCHANGED post)
    BY <1>1, Zenon DEF handleExec, handleExit, Ready, daemonVars
  <2>2. UNCHANGED <<lost, scan, half, unscanned, births, execs, thin>>
    BY <1>1, Zenon DEF handleExec, handleExit, daemonVars, envVars
  <2>3. cut' \subseteq Pids
    BY <1>1, Zenon DEF handleExec, handleExit, envVars, Cut, DaemonType
  <2> QED  BY <2>1, <2>2, <2>3, HeadIsRecord, Zenon DEF DaemonType
<1>2. CASE registerExec \/ enforceExec
  <2>1. post # <<>>
    BY <1>2, Zenon DEF registerExec, enforceExec
  <2>2. post[1].pid \in Tids
    <3>1. PICK r \in Records : post = <<r>>
      BY <2>1, Zenon DEF DaemonType
    <3>2. post[1] = r
      BY <3>1
    <3> QED  BY <3>2, Zenon DEF Records
  <2>3. UNCHANGED <<half, thin>> \/ RegisterPids(Handler, {post[1].pid}) \/ EnforcePids(Handler, {post[1].pid})
    BY <1>2, Zenon DEF registerExec, enforceExec
  <2>4. half' \in [Workers \cup {Sweeper} -> SUBSET Tids] /\ thin' \subseteq Tids
    <3>1. PICK S \in SUBSET Tids : S = {post[1].pid}
      BY <2>2, Zenon
    <3>2. CASE UNCHANGED <<half, thin>>
      BY <3>2, Zenon DEF DaemonType
    <3>3. CASE RegisterPids(Handler, S) \/ EnforcePids(Handler, S)
      BY <3>3, HalfType, Zenon
    <3> QED  BY <2>3, <3>1, <3>2, <3>3, Zenon
  <2>5. UNCHANGED <<ring, lost, scan, unscanned, envVars>> /\ (post' = post \/ post' = <<>>)
    BY <1>2, Zenon DEF registerExec, enforceExec
  <2> QED  BY <2>4, <2>5, Zenon DEF DaemonType, envVars
<1>3. CASE onSessionEnded \/ onMemberExit \/ \E w \in Workers : OnboardStep(w)
  <2>1. UNCHANGED <<ring, lost, daemonVars, envVars>>
    BY <1>3, Zenon DEF onSessionEnded, onMemberExit, OnboardStep
  <2>2. thin' \subseteq Tids
    BY <1>3, Zenon DEF onSessionEnded, onMemberExit, OnboardStep, DropPids, DaemonType
  <2> QED  BY <2>1, <2>2, Zenon DEF DaemonType, daemonVars, envVars
<1>4. ASSUME NEW w \in Workers, Announces(w) PROVE DaemonType'
  <2>0. job[w].pc = "announce" /\ UNCHANGED <<ring, lost, post, unscanned, envVars>>
    BY <1>4, Zenon DEF Announces, onNewSession, EnforceSession, RegisterDescendants, armLiveDescendants
  <2>1. sess[job[w].sid].root \in Tids
    BY <2>0, LifecycleAssumption, Zenon DEF Callbacks, Rooted
  <2>2. Scans
    <3>1. UNCHANGED scan \/ \E S \in (SUBSET Tids) \cup {NoScan} : scan' = [scan EXCEPT ![w] = S]
      BY <1>4, WalkType, Zenon DEF Announces, onNewSession, EnforceSession, RegisterDescendants, armLiveDescendants
    <3>2. ASSUME NEW S \in (SUBSET Tids) \cup {NoScan}, scan' = [scan EXCEPT ![w] = S] PROVE Scans
      BY <3>2, ScanType, Zenon
    <3> QED  BY <3>1, <3>2, Zenon DEF DaemonType
  <2> HIDE DEF Scans
  <2>3. PICK S \in SUBSET Tids : RegisterPids(w, S) \/ EnforcePids(w, S)
    <3> DEFINE members == {sess[job[w].sid].root} \cup Listed(job[w].sid)
    <3>1. members \in SUBSET Tids /\ members \cup Descendants(sess[job[w].sid].root) \in SUBSET Tids
      BY <2>1, WalkType, Zenon
    <3>2. scan[w] # NoScan => scan[w] \in SUBSET Tids
      BY Zenon DEF DaemonType
    <3> QED  BY <1>4, <3>1, <3>2, Zenon DEF Announces, onNewSession, EnforceSession, RegisterDescendants, armLiveDescendants
  <2>4. half' \in [Workers \cup {Sweeper} -> SUBSET Tids] /\ thin' \subseteq Tids
    BY <2>3, HalfType, Zenon
  <2> QED  BY <2>0, <2>2, <2>4, Zenon DEF Scans, DaemonType, envVars
<1>5. ASSUME NEW p \in Tids, scanProc(p) PROVE DaemonType'
  BY <1>5, Zenon DEF scanProc, DaemonType, envVars
<1>6. CASE Sweep
  <2>1. ASSUME NEW s \in Ids, reArmScan(s) PROVE SweepSet(s) \in SUBSET Tids
    <3>1. sess[s].root \in Tids
      BY <2>1, LifecycleAssumption, Zenon DEF reArmScan, Rooted
    <3> QED  BY <3>1, WalkType, Zenon DEF SweepSet
  <2>2. PICK S \in (SUBSET Tids) \cup {NoScan} : scan' = [scan EXCEPT ![Sweeper] = S]
    BY <1>6, <2>1, Zenon DEF Sweep, reArm, reArmScan
  <2>3. Scans
    BY Zenon, <2>2, ScanType
  <2> HIDE DEF Scans
  <2>4. UNCHANGED <<ring, lost, post, unscanned, envVars>>
    BY <1>6, Zenon DEF Sweep, reArm, reArmScan
  <2>5. half' \in [Workers \cup {Sweeper} -> SUBSET Tids] /\ thin' \subseteq Tids
    <3>1. UNCHANGED <<half, thin>> \/ (scan[Sweeper] # NoScan /\ EnforcePids(Sweeper, scan[Sweeper]))
      BY <1>6, Zenon DEF Sweep, reArm, reArmScan
    <3>2. scan[Sweeper] # NoScan => scan[Sweeper] \in SUBSET Tids
      BY Zenon DEF DaemonType
    <3> QED  BY <3>1, <3>2, HalfType, Zenon DEF DaemonType
  <2> QED  BY <2>3, <2>4, <2>5, Zenon DEF Scans, DaemonType, envVars
<1> QED  BY <1>1, <1>2, <1>3, <1>4, <1>5, <1>6, Zenon DEF HandleSyscalls, Bootstrap, Announces

\* The daemon's types over every step.
LEMMA DaemonTypeStep ==
  ASSUME KTypeOK, DaemonType, Rooted, Callbacks, [LNext]_lvars
  PROVE  DaemonType'
<1>1. CASE UNCHANGED lvars
  BY <1>1, Zenon DEF lvars, DaemonType, daemonVars, envVars
<1> QED  BY <1>1, DaemonTypeKernel, DaemonTypeSteps, Zenon DEF LNext
-----------------------------------------------------------------------------
(* The callbacks and the cgroup keys.                                      *)

\* A session gets a pid for its root when it is created, and keeps one.
LEMMA RootedStep ==
  ASSUME MInv, Rooted, [Section]_mvars
  PROVE  Rooted'
<1>1. \A t \in Ids : \/ sess'[t].root \in Pids
                     \/ sess'[t].root = sess[t].root /\ sess'[t].state = sess[t].state
  BY SectionEffect, Zenon DEF SessionEffect
<1> QED  BY <1>1, Zenon DEF Rooted

\* A session a callback runs for neither vanishes from byID nor revives.
LEMMA CallbacksStep ==
  ASSUME MInv, Callbacks, [Section]_mvars
  PROVE  Callbacks'
<1>0. SessionEffect /\ JobEffect
  BY SectionEffect, Zenon
<1>1. \A t \in Ids : sess[t].state = "ended" => sess'[t].state = "ended"
  BY EndedStep, Zenon
<1>2. \A t \in Ids : sess[t].state # "none" => sess'[t].state # "none"
  BY <1>0, Zenon DEF SessionEffect, Keeps, Ends, Begins, Indexes
<1>3. ASSUME NEW t \in Ids, sess[t].state # "none", sess[t].state = "active" => t \in byID,
             sess'[t].state = "active"
      PROVE  t \in byID'
  <2>1. sess[t].state = "active"
    BY <1>0, <1>3, Zenon DEF SessionEffect, Keeps, Ends, Begins, Indexes
  <2> QED  BY <1>0, <1>3, <2>1, Zenon DEF SessionEffect
<1> SUFFICES ASSUME NEW w \in Workers
             PROVE  /\ job'[w].pc = "announce" =>
                         /\ job'[w].sid \in Ids /\ sess'[job'[w].sid].state # "none"
                         /\ sess'[job'[w].sid].state = "active" => job'[w].sid \in byID'
                    /\ job'[w].pc = "ended" => job'[w].sid \in Ids /\ sess'[job'[w].sid].state = "ended"
  BY Zenon DEF Callbacks
<1>4. CASE job'[w] = job[w]
  BY <1>1, <1>2, <1>3, <1>4, Zenon DEF Callbacks
<1>5. CASE job'[w].pc \notin {"announce", "ended"}
  BY <1>5, Zenon
<1>6. CASE \E t \in Ids : Indexes(t, w)
  BY <1>6, Zenon DEF Indexes
<1>7. CASE job'[w].pc = "ended" /\ job'[w].sid \in Ids /\ Ends(job'[w].sid)
  BY <1>7, Zenon DEF Ends
<1>8. CASE job'[w].pc = "memberExit"
  BY <1>8, Zenon
<1> QED  BY <1>0, <1>4, <1>5, <1>6, <1>7, <1>8, Zenon DEF JobEffect

\* A walk of the descendants is part of an announcement.
LEMMA ScanHeldStep ==
  ASSUME MInv, DaemonType, ScanHeld, Shape
  PROVE  ScanHeld'
<1> SUFFICES ASSUME NEW w \in Workers, scan'[w] # NoScan PROVE job'[w].pc = "announce"
  BY Zenon DEF ScanHeld
<1>1. CASE EnforceSession(w)
  BY <1>1, Zenon DEF EnforceSession, mvars
<1>2. ~armLiveDescendants(w)
  BY Zenon DEF armLiveDescendants, DaemonType
<1>3. CASE scan'[w] = scan[w]
  <2>1. job[w].pc = "announce"
    BY <1>3, Zenon DEF ScanHeld
  <2>2. ~onSessionEnded \/ w # Handler
    BY <2>1, Zenon DEF onSessionEnded
  <2> QED  BY <1>2, <2>1, <2>2, Zenon DEF Shape
<1> QED  BY <1>1, <1>2, <1>3, Zenon DEF Shape

\* How the cgroup keys move: bits are added, or onSessionEnded deletes the key
\* of a cgroup in which byID has no other active session.
LEMMA KeysStep ==
  ASSUME MInv, KTypeOK, Callbacks, Shape, NEW s \in byID, sess[s].state = "active", sess[s].cgroup # NoCgroup,
         SigFlags \subseteq sessions[sess[s].cgroup]
  PROVE  SigFlags \subseteq sessions'[sess[s].cgroup]
<1> DEFINE c == sess[s].cgroup
<1> Handler \in Workers
  BY Zenon DEF Workers
<1>0. MTypeOK /\ sessions \in [Cgroups -> FlagWords] /\ s \in Ids
  BY Zenon DEF MInv, MTypeOK, KTypeOK
<1>1. c \in Cgroups
  BY Zenon, <1>0, SessionCgroup
<1>2. ASSUME NEW w \in Workers, onNewSession(w) \/ EnforceSession(w) PROVE SigFlags \subseteq sessions'[c]
  <2> DEFINE d == sess[job[w].sid].cgroup
  <2>1. \/ sessions' = sessions
        \/ sessions' = [sessions EXCEPT ![d] = Armed(@)]
        \/ sessions' = [sessions EXCEPT ![d] = Registered(@)]
    BY <1>2, Zenon DEF onNewSession, EnforceSession
  <2> HIDE DEF d
  <2> QED  BY <1>0, <1>1, <2>1, Zenon DEF Armed, Registered
<1>3. CASE onSessionEnded
  <2> DEFINE t == job[Handler].sid
             d == sess[t].cgroup
  <2>1. t # s
    BY <1>3, Zenon DEF onSessionEnded, Callbacks
  <2>2. c = d => CgroupHasActiveSession(d, t)
    BY <2>1, Zenon DEF CgroupHasActiveSession
  <2>3. sessions' = IF d = NoCgroup \/ CgroupHasActiveSession(d, t) THEN sessions
                    ELSE [sessions EXCEPT ![d] = {}]
    BY <1>3, Zenon DEF onSessionEnded
  <2> HIDE DEF d, t
  <2> QED  BY Zenon, <1>0, <1>1, <2>2, <2>3
<1> QED  BY <1>2, <1>3, Zenon DEF Shape

\* A session that is active and known after a step was so before, or has just
\* been indexed; its cgroup does not change.
LEMMA KnownBefore ==
  ASSUME MInv, [Section]_mvars, NEW s \in Ids, s \in byID', sess'[s].state = "active"
  PROVE  \/ s \in byID /\ sess[s].state = "active" /\ sess'[s].cgroup = sess[s].cgroup
         \/ \E w \in Workers : Indexes(s, w)
  BY SectionEffect, Zenon DEF SessionEffect, Keeps, Ends, Begins

\* The key an announcement wrote stays while it walks the descendants.
LEMMA AnnouncedStep ==
  ASSUME MInv, KTypeOK, DaemonType, Callbacks, ScanHeld, Announced, Shape
  PROVE  Announced'
<1> SUFFICES ASSUME NEW w \in Workers, job'[w].pc = "announce", scan'[w] # NoScan,
                    sess'[job'[w].sid].state = "active", sess'[job'[w].sid].cgroup # NoCgroup
             PROVE  SigFlags \subseteq sessions'[sess'[job'[w].sid].cgroup]
  BY Zenon DEF Announced
<1> DEFINE s == job'[w].sid
<1>0. sessions \in [Cgroups -> FlagWords] /\ MTypeOK /\ [Section]_mvars
  BY Zenon DEF KTypeOK, MInv, Shape
<1>1. CASE EnforceSession(w)
  <2>1. sess' = sess /\ job' = job /\ s \in Ids
    BY <1>1, Zenon DEF EnforceSession, mvars, Callbacks
  <2>2. sess[s].cgroup \in Cgroups /\ sess[s].cgroup # NoCgroup
    BY <1>0, <2>1, SessionCgroup, Zenon
  <2>3. sessions' = [sessions EXCEPT ![sess[s].cgroup] = Armed(@)]
    BY <1>1, <2>1, <2>2, Zenon DEF EnforceSession
  <2> QED  BY <1>0, <2>1, <2>2, <2>3, Zenon DEF Armed
<1>2. CASE scan'[w] = scan[w]
  <2>1. job[w].pc = "announce" /\ ~armLiveDescendants(w)
    BY <1>2, Zenon DEF ScanHeld, armLiveDescendants, DaemonType
  <2>2. job'[w] = job[w]
    BY <2>1, Zenon DEF Shape, onSessionEnded
  <2>3. s \in Ids /\ sess[s].state # "none" /\ (sess[s].state = "active" => s \in byID)
    BY <2>1, <2>2, Zenon DEF Callbacks
  <2>4. sess[s].state = "active" /\ s \in byID /\ sess'[s].cgroup = sess[s].cgroup
    BY <1>0, <2>3, SectionEffect, Zenon DEF SessionEffect, Keeps, Ends, Begins, Indexes
  <2>5. SigFlags \subseteq sessions[sess[s].cgroup]
    BY <1>2, <2>1, <2>2, <2>4, Zenon DEF Announced
  <2> QED  BY <2>4, <2>5, KeysStep, Zenon
<1>3. ~armLiveDescendants(w)
  BY Zenon DEF armLiveDescendants, DaemonType
<1> QED  BY <1>1, <1>2, <1>3, Zenon DEF Shape

\* No section, callback or teardown takes the key of an onboarded session.
LEMMA ArmedStep ==
  ASSUME MInv, KTypeOK, DaemonType, Callbacks, Announced, ActiveCgroupArmed, Shape
  PROVE  ActiveCgroupArmed'
<1> SUFFICES ASSUME NEW s \in Ids, s \in byID', sess'[s].state = "active", sess'[s].cgroup # NoCgroup,
                    \A w \in Workers : job'[w].pc = "announce" => job'[w].sid # s
             PROVE  SigFlags \subseteq sessions'[sess'[s].cgroup]
  BY Zenon DEF ActiveCgroupArmed, Onboarded
<1>0. [Section]_mvars
  BY Zenon DEF Shape
<1>1. s \in byID /\ sess[s].state = "active" /\ sess'[s].cgroup = sess[s].cgroup
  BY <1>0, KnownBefore DEF Indexes
<1>2. SigFlags \subseteq sessions[sess[s].cgroup]
  <2>1. CASE Onboarded(s)
    BY <1>1, <2>1, Zenon DEF ActiveCgroupArmed
  <2>2. ASSUME NEW w \in Workers, job[w].pc = "announce", job[w].sid = s
        PROVE  SigFlags \subseteq sessions[sess[s].cgroup]
    <3>1. armLiveDescendants(w)
      BY <2>2, Zenon DEF Shape, onSessionEnded
    <3> QED  BY <1>1, <2>2, <3>1, Zenon DEF armLiveDescendants, Announced
  <2> QED  BY <1>1, <2>1, <2>2, Zenon DEF Onboarded
<1> QED  BY Zenon, <1>1, <1>2, KeysStep

\* The daemon starts with no session and no key.
LEMMA LInitInv == LInit => LInv
<1> SUFFICES ASSUME LInit PROVE LInv
  BY Zenon
<1>1. MInv
  BY MInitInv, Zenon DEF LInit
<1>2. KTypeOK
  <2>1. alive \subseteq Tids /\ tree \subseteq Tids
    BY LifecycleAssumption, Zenon DEF LInit
  <2>2. /\ tgid \in [Tids -> Tids] /\ parent \in [Tids -> Tids \cup {Init1}]
        /\ image \in [Tids -> SUBSET Signs] /\ pending \in [Tids -> SUBSET (SUBSET Signs)]
    BY Zenon DEF LInit, Signs
  <2>3. cgroup \in [Tids -> Cgroups]
    BY LifecycleAssumption, Zenon DEF LInit
  <2>4. /\ pids \in [Tids -> FlagWords] /\ sessions \in [Cgroups -> FlagWords]
        /\ faulted \in BOOLEAN /\ shed \subseteq Tids /\ checked \subseteq Tids
    BY Zenon DEF LInit, FlagWords
  <2> QED  BY <2>1, <2>2, <2>3, <2>4, Zenon DEF KTypeOK
<1>3. DaemonType
  <2>1. births \in 0..MaxBirths /\ execs \in 0..MaxExecs
    BY LifecycleAssumption DEF LInit
  <2>2. ring \in Seq(Records) /\ Len(ring) <= RingMax
    BY LifecycleAssumption DEF LInit
  <2>3. scan \in [Workers \cup {Sweeper} -> (SUBSET Tids) \cup {NoScan}]
    BY Zenon DEF LInit
  <2>4. lost \in BOOLEAN /\ post = <<>> /\ unscanned \subseteq ScanProc
    BY Zenon DEF LInit
  <2>5. half \in [Workers \cup {Sweeper} -> SUBSET Tids] /\ thin \subseteq Tids /\ cut \subseteq Pids
    BY Zenon DEF LInit
  <2> QED  BY <2>1, <2>2, <2>3, <2>4, <2>5, Zenon DEF DaemonType
<1>4. \A s \in Ids : sess[s].state = "none"
  BY Zenon DEF LInit, MInit, Unused
<1>5. \A w \in Workers : job[w].pc = "idle" /\ scan[w] = NoScan
  BY Zenon DEF LInit, MInit, IdleJob
<1>6. Rooted /\ Callbacks /\ ScanHeld /\ Announced /\ ActiveCgroupArmed
  BY <1>4, <1>5, Zenon DEF Rooted, Callbacks, ScanHeld, Announced, ActiveCgroupArmed, Onboarded
<1> QED  BY <1>1, <1>2, <1>3, <1>6, Zenon DEF LInv

\* LInv over every step.
LEMMA LNextInv == LInv /\ [LNext]_lvars => LInv'
<1> SUFFICES ASSUME LInv, [LNext]_lvars PROVE LInv'
  BY Zenon
<1> USE DEF LInv
<1>1. Shape /\ [Section]_mvars
  BY StepShape, Zenon DEF Shape
<1>2. MInv' /\ Rooted' /\ Callbacks'
  BY <1>1, SectionInv, RootedStep, CallbacksStep, Zenon
<1>3. KTypeOK' /\ DaemonType'
  BY KTypeStep, DaemonTypeStep, Zenon
<1>4. ScanHeld' /\ Announced' /\ ActiveCgroupArmed'
  BY <1>1, ScanHeldStep, AnnouncedStep, ArmedStep, Zenon
<1> QED  BY <1>2, <1>3, <1>4, Zenon

\* LInv holds in every reachable state.
LEMMA LAlwaysInv == LSpec => []LInv
  BY LInitInv, LNextInv, PTL DEF LSpec
-----------------------------------------------------------------------------
(* Types of kernel, manager and daemon together: the daemon's writes keep   *)
(* every word of both maps a monitored one or absent, and the ring never    *)
(* holds more than its size.                                                *)
THEOREM LTypeCorrect == LSpec => []LTypeOK
<1>1. LInv => LTypeOK
  <2> SUFFICES ASSUME LInv PROVE LTypeOK
    BY Zenon
  <2>1. KTypeOK /\ MTypeOK /\ DaemonType
    BY Zenon DEF LInv, MInv
  <2>2. \A i \in 1..Len(ring) : ring[i] \in Records
    BY <2>1 DEF DaemonType
  <2>3. \A r \in Records : r.op \in {"exec", "exit"} /\ r.pid \in Pids /\ r.cgroup \in Cgroups
                             /\ r.signs \in SUBSET Signs
    BY LifecycleAssumption, Zenon DEF Records
  <2>4. Len(post) <= 1
    <3>1. CASE post = <<>>
      BY <3>1
    <3>2. ASSUME NEW r, post = <<r>> PROVE Len(post) <= 1
      BY <3>2
    <3> QED  BY <2>1, <3>1, <3>2, Zenon DEF DaemonType
  <2> QED  BY <2>1, <2>2, <2>3, <2>4, Zenon DEF LTypeOK, DaemonType
<1> QED  BY <1>1, LAlwaysInv, PTL

(* Ending one session never disarms the cgroup of another that is           *)
(* onboarded, whatever the interleaving of handler, startup scan and sweep  *)
(* and however many records the ring drops                                  *)
(* (cmd/agentknox/daemon.go:673-677, internal/session/manager.go:624-628).  *)
THEOREM ActiveCgroupArmedAlways == LSpec => []ActiveCgroupArmed
  BY LAlwaysInv, PTL DEF LInv

(* The lookups of the manager stay sound when kernel, ring and daemon drive *)
(* it: a pid or a root pid leads only to an active session it belongs to,   *)
(* and byID holds exactly the bounded history of the ended ones             *)
(* (internal/session/manager.go:470-476, 511-535).                          *)
THEOREM IndexesLive == LSpec => [](PidIndexLive /\ RootIndexLive /\ HistoryIsByID)
  BY LAlwaysInv, PTL DEF LInv, MInv

(* .. and nothing writes to a session once it has ended                     *)
(* (internal/session/manager.go:267, 291, 304, 308, 521).                   *)
THEOREM EndedStaysFinal == LSpec => EndedIsFinal
<1>1. LInv /\ [LNext]_lvars =>
        [\A s \in Ids : sess[s].state = "ended" => sess'[s] = sess[s]]_mvars
  <2> SUFFICES ASSUME LInv, [LNext]_lvars, NEW s \in Ids, sess[s].state = "ended"
               PROVE  sess'[s] = sess[s]
    BY Zenon
  <2>1. [Section]_mvars
    BY StepShape, Zenon DEF Shape, LInv
  <2> QED  BY <2>1, EndedStep, Zenon DEF LInv
<1> QED  BY <1>1, LAlwaysInv, PTL DEF LSpec, EndedIsFinal
-----------------------------------------------------------------------------
(* What the words of ak_session_pids say.                                  *)

\* A key that says less than the signature is in the hands of a goroutine that is
\* registering it, or was left short by one.  The sweep only enforces.
ShortKeys ==
    /\ \A k \in Tids : Short(pids[k]) => k \in thin \/ BeingRegistered(k)
    /\ half[Sweeper] = {}

\* What a hook leaves in key j: the word it had, none, a full one, or a copy.
Taken(j) == pids'[j] = pids[j] \/ ~Short(pids'[j]) \/ InMaps(pids'[j])

\* A hook's store, of a full word or of one it read in a map.
LEMMA StoredTaken ==
  ASSUME KTypeOK, NEW k \in Tids, NEW word, ~Short(word) \/ InMaps(word), StoreOrCount(k, word)
  PROVE  \A j \in Tids : Taken(j)
<1>1. pids' = pids \/ pids' = [pids EXCEPT ![k] = word]
  BY Zenon DEF StoreOrCount
<1>2. \A j \in Tids : pids'[j] = pids[j] \/ pids'[j] = word
  BY <1>1, Zenon DEF KTypeOK
<1> QED  BY <1>2, Zenon DEF Taken

\* The hooks copy a word that is there, or store the signature's.
LEMMA KernelTaken ==
  ASSUME KTypeOK, Kernel
  PROVE  \A j \in Tids : Taken(j)
<1>0. \A c \in Cgroups : InMaps(sessions[c])
  BY Zenon DEF InMaps
<1>s. ~Short(SigFlags) /\ ~Short({})
  BY Zenon DEF Short
<1>u. UNCHANGED pids => \A j \in Tids : Taken(j)
  BY Zenon DEF Taken
<1>i. \A p \in Tids : InMaps(Inherited(p))
  BY Zenon DEF InMaps, Inherited
<1>t. \A t \in Tids : tgid[t] \in Tids /\ cgroup[tgid[t]] \in Cgroups
  BY Zenon DEF KTypeOK
<1>1. ASSUME NEW t \in Tids, NEW c \in Tids, ak_proc_fork(t, c) \/ ak_proc_fork_thread(t, c)
      PROVE  \A j \in Tids : Taken(j)
  <2>1. UNCHANGED pids \/ StoreOrCount(c, Inherited(tgid[t]))
    BY <1>1, Zenon DEF ak_proc_fork, ak_proc_fork_thread
  <2> QED  BY <1>u, <1>i, <1>t, <2>1, StoredTaken, Zenon
<1>2. ASSUME NEW t \in Tids, NEW signs, ak_execve(t, signs)
      PROVE  \A j \in Tids : Taken(j)
  <2>p. PICK p \in Tids : p = tgid[t]
    BY <1>t, Zenon
  <2>1. \/ UNCHANGED pids \/ StoreOrCount(p, SigFlags)
        \/ StoreOrCount(p, sessions[cgroup[p]])
        \/ parent[p] \in Tids /\ StoreOrCount(p, Inherited(parent[p]))
    BY <1>2, <2>p, Zenon DEF ak_execve
  <2> QED  BY <1>0, <1>s, <1>u, <1>i, <1>t, <2>p, <2>1, StoredTaken, Zenon
<1>3. ASSUME NEW t \in Tids, ak_lsm_bprm_allow(t)
      PROVE  \A j \in Tids : Taken(j)
  <2>p. PICK p \in Tids : p = tgid[t]
    BY <1>t, Zenon
  <2>1. PICK signs : UNCHANGED pids \/ StoreOrCount(p, BprmFlags(p, signs))
    BY <1>3, <2>p, Zenon DEF ak_lsm_bprm_allow
  <2>2. \/ BprmFlags(p, signs) = {} \/ BprmFlags(p, signs) = SigFlags
        \/ parent[p] \in Tids /\ BprmFlags(p, signs) = Inherited(parent[p])
    BY Zenon DEF BprmFlags
  <2> QED  BY <1>s, <1>i, <1>u, <2>1, <2>2, StoredTaken, Zenon
<1>4. ASSUME NEW t \in Tids, ak_proc_exit(t)
      PROVE  \A j \in Tids : Taken(j)
  <2>1. pids' = pids \/ pids' = [k \in Tids |-> IF k \in ExitKeys(t) THEN {} ELSE pids[k]]
    BY <1>4, Zenon DEF ak_proc_exit
  <2> QED  BY <1>u, <1>s, <2>1, Zenon DEF Taken
<1>5. ASSUME NEW t \in Tids, \/ \E c \in Tids : ForkUnseen(c, t) \/ ForkOutside(t)
                             \/ ak_lsm_bprm_refuse(t) \/ ExecFails(t) \/ ExecDone(t)
      PROVE  UNCHANGED pids
  BY <1>5, Zenon DEF ForkUnseen, ForkOutside, ak_lsm_bprm_refuse, ExecFails, ExecDone, mapVars
<1>6. CASE Fork
  BY <1>u, <1>1, <1>5, <1>6, Zenon DEF Fork
<1>7. ASSUME NEW t \in Tids, NEW signs \in ExecSigns, Execve(t, signs) PROVE \A j \in Tids : Taken(j)
  BY <1>2, <1>7, Zenon DEF Execve
<1>8. ASSUME NEW t \in Tids, Bprm(t) PROVE \A j \in Tids : Taken(j)
  BY <1>u, <1>3, <1>5, <1>8, Zenon DEF Bprm
<1>9. ASSUME NEW t \in Tids, Exit(t) PROVE \A j \in Tids : Taken(j)
  BY <1>4, <1>9, Zenon DEF Exit
<1> QED  BY <1>6, <1>7, <1>8, <1>9, Zenon DEF Kernel

\* What a hook leaves short is a copy, or was so before.
LEMMA KernelShort ==
  ASSUME KTypeOK, ShortKeys, Kernel
  PROVE  ShortKeys'
<1>1. Thinned /\ UNCHANGED half
  BY Zenon DEF Kernel, Fork, Execve, Bprm, Exit, daemonVars
<1> SUFFICES ASSUME NEW k \in Tids, Short(pids'[k]) PROVE k \in thin' \/ \E w \in Workers : k \in half'[w]
  BY <1>1, Zenon DEF ShortKeys, BeingRegistered, Short
<1>2. Taken(k)
  BY KernelTaken, Zenon
<1>3. CASE pids'[k] = pids[k]
  <2>1. k \in thin \/ \E w \in Workers : k \in half[w]
    BY <1>3, Zenon DEF ShortKeys, BeingRegistered, Short
  <2> QED  BY <1>1, <2>1, Zenon DEF Thinned
<1>4. CASE pids'[k] # pids[k] /\ InMaps(pids'[k])
  BY <1>1, <1>4, Zenon DEF Thinned
<1> QED  BY <1>2, <1>3, <1>4, Zenon DEF Taken

\* RegisterPID: what it leaves short is now its to enforce.
LEMMA RegisterShort ==
  ASSUME DaemonType, ShortKeys, NEW w \in Workers, NEW S, half[w] = {}, RegisterPids(w, S)
  PROVE  ShortKeys'
<1>1. half'[w] = S /\ (\A v \in Workers : v # w => half'[v] = half[v]) /\ half'[Sweeper] = {}
  BY LifecycleAssumption, Zenon DEF RegisterPids, DaemonType, ShortKeys
<1> SUFFICES ASSUME NEW k \in Tids, Short(pids'[k]) PROVE k \in thin' \/ \E v \in Workers : k \in half'[v]
  BY <1>1, Zenon DEF ShortKeys, BeingRegistered, Short
<1>2. k \in S \/ pids'[k] = pids[k]
  BY Zenon DEF RegisterPids
<1>3. CASE k \in S
  BY <1>1, <1>3, Zenon
<1>4. CASE pids'[k] = pids[k]
  <2>1. k \in thin \/ \E v \in Workers : v # w /\ k \in half[v]
    BY <1>4, Zenon DEF ShortKeys, BeingRegistered, Short
  <2> QED  BY <1>1, <2>1, Zenon DEF RegisterPids
<1> QED  BY <1>2, <1>3, <1>4, Zenon

\* EnforcePID: a key it was given is full now or absent, one it was not given and
\* had registered stays short.
LEMMA EnforceShort ==
  ASSUME DaemonType, ShortKeys, NEW w \in Workers \cup {Sweeper}, NEW S, EnforcePids(w, S)
  PROVE  ShortKeys'
<1>1. half'[w] = {} /\ (\A v \in Workers \cup {Sweeper} : v # w => half'[v] = half[v]) /\ half'[Sweeper] = {}
  BY Zenon DEF EnforcePids, DaemonType, ShortKeys
<1> SUFFICES ASSUME NEW k \in Tids, Short(pids'[k]) PROVE k \in thin' \/ \E v \in Workers : k \in half'[v]
  BY <1>1, Zenon DEF ShortKeys, BeingRegistered, Short
<1>2. pids'[k] = IF k \in S /\ Accepts(k) THEN Armed(pids[k]) ELSE pids[k]
  BY Zenon DEF EnforcePids
<1>3. ~Short(Armed(pids[k]))
  BY Zenon DEF Short, Armed
<1>4. pids'[k] = pids[k] /\ k \notin S
  BY <1>2, <1>3, Zenon DEF Short, Accepts
<1>5. k \in thin \/ \E v \in Workers : k \in half[v]
  BY <1>4, Zenon DEF ShortKeys, BeingRegistered, Short
<1> QED  BY <1>1, <1>4, <1>5, Zenon DEF EnforcePids

\* A deleted key is absent, not short.
LEMMA DropShort ==
  ASSUME ShortKeys, UNCHANGED half, (\E S : DropPids(S)) \/ UNCHANGED <<pids, thin>>
  PROVE  ShortKeys'
<1> SUFFICES ASSUME NEW k \in Tids, Short(pids'[k]) PROVE k \in thin' \/ \E v \in Workers : k \in half'[v]
  BY Zenon DEF ShortKeys, BeingRegistered, Short
<1>1. pids'[k] = pids[k] /\ (k \in thin => k \in thin')
  BY Zenon DEF DropPids, Short
<1> QED  BY <1>1, Zenon DEF ShortKeys, BeingRegistered, Short

\* The words over every step.
LEMMA ShortStep ==
  ASSUME LInv, ShortKeys, [LNext]_lvars
  PROVE  ShortKeys'
<1> Handler \in Workers /\ Scanner \in Workers
  BY Zenon DEF Workers
<1>0. DaemonType /\ KTypeOK
  BY Zenon DEF LInv
<1>1. CASE Kernel
  BY <1>0, <1>1, KernelShort, Zenon
<1>2. ASSUME NEW w \in Workers, onNewSession(w) \/ RegisterDescendants(w) PROVE ShortKeys'
  <2>1. half[w] = {} /\ \E S : RegisterPids(w, S)
    BY <1>2, Zenon DEF onNewSession, RegisterDescendants
  <2> QED  BY <1>0, <2>1, RegisterShort, Zenon
<1>3. ASSUME NEW w \in Workers, EnforceSession(w) \/ armLiveDescendants(w) PROVE ShortKeys'
  <2>1. \E S : EnforcePids(w, S)
    BY <1>3, Zenon DEF EnforceSession, armLiveDescendants
  <2> QED  BY <1>0, <2>1, EnforceShort, Zenon
<1>4. CASE onSessionEnded \/ onMemberExit
  BY <1>4, DropShort, Zenon DEF onSessionEnded, onMemberExit, daemonVars
<1>5. CASE registerExec
  BY <1>0, <1>5, RegisterShort, DropShort, Zenon DEF registerExec
<1>6. CASE enforceExec
  BY <1>0, <1>6, EnforceShort, Zenon DEF enforceExec
<1>7. CASE Sweep
  BY <1>0, <1>7, EnforceShort, DropShort, Zenon DEF Sweep, reArm, reArmScan, kvars, mapVars
<1>8. ASSUME NEW w \in Workers, OnboardStep(w) PROVE ShortKeys'
  BY <1>8, DropShort, Zenon DEF OnboardStep, Onboard, kvars, mapVars, daemonVars
<1>9. CASE handleExec \/ handleExit \/ (\E p \in Tids : scanProc(p)) \/ UNCHANGED lvars
  <2>1. UNCHANGED <<pids, thin, half>>
    BY <1>9, Zenon DEF handleExec, handleExit, scanProc, lvars, kvars, mapVars, daemonVars
  <2> QED  BY <2>1, DropShort, Zenon
<1> QED  BY <1>1, <1>2, <1>3, <1>4, <1>5, <1>6, <1>7, <1>8, <1>9, Zenon
         DEF LNext, HandleSyscalls, Bootstrap

(* A process in the cgroup of an onboarded session is confined, whatever    *)
(* late teardowns deleted: its cgroup has its word, and a key of its own    *)
(* that shadows it says less only from RegisterPID to EnforcePID, or when   *)
(* it was copied from such a key (bpf/helpers.bpf.h:254-260;                *)
(* cmd/agentknox/daemon.go:673-696, 709-713, 894-895).                      *)
THEOREM SessionConfinedAlways == LSpec => []SessionConfined
<1>1. LInit => ShortKeys
  <2> SUFFICES ASSUME LInit PROVE ShortKeys
    BY Zenon
  <2>1. (\A k \in Tids : pids[k] = {}) /\ half[Sweeper] = {}
    BY Zenon DEF LInit
  <2> QED  BY <2>1, Zenon DEF ShortKeys, Short
<1>2. LInv /\ ShortKeys /\ [LNext]_lvars => ShortKeys'
  BY ShortStep, Zenon
<1>3. LInv /\ ShortKeys => SessionConfined
  <2> SUFFICES ASSUME LInv, ShortKeys, NEW s \in Ids, Onboarded(s), sess[s].cgroup # NoCgroup,
                      NEW p \in Processes, cgroup[p] = sess[s].cgroup
               PROVE  SigFlags \subseteq ak_session_flags(p) \/ BeingRegistered(p) \/ p \in thin
    BY Zenon DEF SessionConfined
  <2>1. SigFlags \subseteq sessions[cgroup[p]]
    BY Zenon DEF LInv, ActiveCgroupArmed
  <2>2. p \in Tids
    BY Zenon DEF LInv, KTypeOK, Processes
  <2> QED  BY <2>1, <2>2, Zenon DEF ShortKeys, Short, ak_session_flags
<1> QED  BY <1>1, <1>2, <1>3, LAlwaysInv, PTL DEF LSpec
-----------------------------------------------------------------------------
(* Whose key it is, when no agent was there before the daemon.             *)

\* Without a startup scan only the handler ever onboards.
LEMMA OneOnboardsStep ==
  ASSUME LInv, OneOnboards, [LNext]_lvars
  PROVE  OneOnboards'
<1> Handler \in Workers /\ Scanner \in Workers
  BY Zenon DEF Workers
<1>0. Shape /\ [Section]_mvars /\ MInv /\ SessionEffect /\ JobEffect
  BY StepShape, SectionEffect, Zenon DEF LInv, Shape
<1>1. unscanned' = {}
  BY Zenon DEF LNext, Kernel, Fork, Execve, Bprm, Exit, HandleSyscalls, Bootstrap, Sweep, handleExec,
        registerExec, enforceExec, handleExit, onSessionEnded, onMemberExit, OnboardStep, onNewSession,
        EnforceSession, RegisterDescendants, armLiveDescendants, scanProc, reArm, reArmScan, lvars, daemonVars, OneOnboards
<1>2. job'[Scanner] = job[Scanner]
  <2>1. CASE UNCHANGED mvars
    BY <2>1, Zenon DEF mvars
  <2>2. ASSUME NEW j, job' = [job EXCEPT ![Handler] = j] \/ job' = job
        PROVE  job'[Scanner] = job[Scanner]
    BY <2>2, ManagerAssumption, Zenon DEF LInv, MInv, MTypeOK
  <2>3. CASE HandleSyscalls
    <3>1. CASE \/ registerExec \/ enforceExec
               \/ onNewSession(Handler) \/ EnforceSession(Handler) \/ RegisterDescendants(Handler)
      BY <2>1, <3>1, Zenon DEF registerExec, enforceExec, onNewSession, EnforceSession, RegisterDescendants
    <3>2. CASE handleExec \/ OnboardStep(Handler)
      BY <2>2, <3>2, Zenon DEF handleExec, OnboardStep, Onboard, OnExecFold, OnExec, OnExecParent,
            createSessionFold, createSession, createSessionIndex, placeInCgroup
    <3>3. CASE handleExit
      BY <2>1, <2>2, <3>3, Zenon DEF handleExit, OnExitAdopt, OnExitEnd, OnExitMember
    <3>4. CASE onSessionEnded \/ onMemberExit \/ armLiveDescendants(Handler)
      BY <2>2, <3>4, Zenon DEF onSessionEnded, onMemberExit, armLiveDescendants, exitCallback, announce
    <3> QED  BY <2>3, <3>1, <3>2, <3>3, <3>4, Zenon DEF HandleSyscalls
  <2>4. ~Bootstrap
    BY Zenon DEF Bootstrap, scanProc, OnboardStep, Onboard, onNewSession, EnforceSession,
           RegisterDescendants, armLiveDescendants, OnExecParent,
           createSessionFold, createSession, createSessionIndex, placeInCgroup, OneOnboards
  <2>5. CASE Kernel \/ Sweep \/ UNCHANGED lvars
    BY <2>1, <2>5, Zenon DEF Kernel, Fork, Execve, Bprm, Exit, Sweep, reArm, reArmScan, lvars
  <2> QED  BY <2>3, <2>4, <2>5, Zenon DEF LNext
<1>3. ASSUME job'[Handler].pc = "announce"
      PROVE  job'[Handler].sid \in byID' /\ sess'[job'[Handler].sid].state = "active"
  <2>1. CASE job'[Handler] = job[Handler]
    <3> DEFINE s == job[Handler].sid
    <3>1. s \in byID /\ s \in Ids /\ sess[s].state = "active"
      BY <1>3, <2>1, Zenon DEF OneOnboards, LInv, Callbacks
    <3>2. ~Ends(s)
      BY <1>0, <1>3, <3>1, Zenon DEF SessionEffect
    <3>3. sess'[s].state = "active"
      BY <1>0, <3>1, <3>2, Zenon DEF SessionEffect, Keeps, Begins, Indexes
    <3> QED  BY <1>0, <2>1, <3>1, <3>3, Zenon DEF SessionEffect
  <2>2. CASE \E t \in Ids : Indexes(t, Handler)
    BY <2>2, Zenon DEF Indexes
  <2> QED  BY <1>0, <1>3, <2>1, <2>2, Zenon DEF JobEffect
<1> QED  BY <1>1, <1>2, <1>3, Zenon DEF OneOnboards

\* A key loses its last session only to a teardown that deletes it.
LEMMA KeyOwnedStep ==
  ASSUME LInv, OneOnboards, CgroupKeyOwned, [LNext]_lvars
  PROVE  CgroupKeyOwned'
<1> Handler \in Workers /\ Workers = {Handler, Scanner}
  BY Zenon DEF Workers
<1>0. /\ Shape /\ [Section]_mvars /\ MInv /\ MTypeOK /\ SessionEffect /\ JobEffect /\ Callbacks
      /\ sessions \in [Cgroups -> FlagWords] /\ OneOnboards'
  BY StepShape, SectionEffect, OneOnboardsStep, Zenon DEF LInv, MInv, Shape, KTypeOK
<1> SUFFICES ASSUME NEW c \in Cgroups, sessions'[c] # {}
             PROVE  \/ \E s \in byID' : sess'[s].state = "active" /\ sess'[s].cgroup = c
                    \/ \E w \in Workers : job'[w].pc \in {"announce", "ended"}
                                            /\ sess'[job'[w].sid].cgroup = c
  BY Zenon DEF CgroupKeyOwned
<1> DEFINE Goal == \/ \E s \in byID' : sess'[s].state = "active" /\ sess'[s].cgroup = c
                   \/ \E w \in Workers : job'[w].pc \in {"announce", "ended"}
                                            /\ sess'[job'[w].sid].cgroup = c
\* An active owner stays, or the handler is about to tear it down.
<1>1. ASSUME NEW s \in byID, sess[s].state = "active", sess[s].cgroup = c PROVE Goal
  <2>0. s \in Ids
    BY <1>0, Zenon DEF MTypeOK
  <2>1. sess'[s].cgroup = c /\ (sess'[s].state = "active" \/ Ends(s))
    BY <1>0, <1>1, <2>0, Zenon DEF SessionEffect, Keeps, Ends, Begins, Indexes
  <2>2. CASE Ends(s)
    BY <1>0, <2>0, <2>1, <2>2, Zenon DEF SessionEffect
  <2>3. CASE sess'[s].state = "active"
    BY <1>0, <2>1, <2>3, Zenon DEF SessionEffect
  <2> QED  BY Zenon, <2>1, <2>2, <2>3
\* The handler is the owner.
<1>2. ASSUME job[Handler].pc \in {"announce", "ended"}, sess[job[Handler].sid].cgroup = c PROVE Goal
  <2> DEFINE s == job[Handler].sid
  <2>1. s \in Ids
    BY <1>0, <1>2, Zenon DEF Callbacks
  <2>2. CASE job[Handler].pc = "announce"
    BY <1>1, <1>2, <2>2, Zenon DEF OneOnboards
  <2>3. CASE job[Handler].pc = "ended" /\ job'[Handler] = job[Handler]
    <3>1. sess'[s] = sess[s]
      BY <1>0, <2>1, <2>3, EndedStep, Zenon DEF Callbacks
    <3> QED  BY Zenon, <1>2, <2>3, <3>1
  <2>4. CASE onSessionEnded
    <3>1. c # NoCgroup
      BY Zenon, ManagerAssumption, LifecycleAssumption
    <3>2. CgroupHasActiveSession(c, s)
      <4>1. sessions' = IF c = NoCgroup \/ CgroupHasActiveSession(c, s) THEN sessions
                        ELSE [sessions EXCEPT ![c] = {}]
        BY <1>2, <2>4, Zenon DEF onSessionEnded
      <4> QED  BY <1>0, <3>1, <4>1, Zenon
    <3> QED  BY <1>1, <3>2, Zenon DEF CgroupHasActiveSession
  <2> QED  BY <1>0, <1>2, <2>2, <2>3, <2>4, Zenon DEF Shape, armLiveDescendants
<1>3. CASE sessions[c] # {}
  <2>1. job[Scanner].pc = "idle"
    BY Zenon DEF OneOnboards
  <2> QED  BY <1>1, <1>2, <1>3, <2>1, Zenon DEF CgroupKeyOwned
\* A key is written by the onboarding of one of its sessions.
<1>4. CASE sessions[c] = {}
  <2>1. ~onSessionEnded
    BY <1>0, <1>4, Zenon DEF onSessionEnded
  <2>2. PICK w \in Workers : onNewSession(w) \/ EnforceSession(w)
    BY <1>0, <1>4, <2>1, Zenon DEF Shape
  <2> DEFINE d == sess[job[w].sid].cgroup
  <2>3. \/ sessions' = sessions
        \/ sessions' = [sessions EXCEPT ![d] = Armed(@)]
        \/ sessions' = [sessions EXCEPT ![d] = Registered(@)]
    BY <2>2, Zenon DEF onNewSession, EnforceSession
  <2>4. d = c
    BY Zenon, <1>0, <1>4, <2>3
  <2> QED  BY <2>2, <2>4, Zenon DEF onNewSession, EnforceSession, mvars
<1> QED  BY Zenon, <1>3, <1>4

(* A cgroup key outlives its sessions only while a callback is still        *)
(* running, provided no agent was there before the daemon: the callback of  *)
(* the startup scan may run after the session's teardown and leave a key    *)
(* behind (cmd/agentknox/daemon.go:673-688, 1449-1470).                     *)
THEOREM CgroupKeyOwnedAlways ==
  ASSUME ScanProc = {}
  PROVE  LSpec => []CgroupKeyOwned
<1>1. LInit => OneOnboards /\ CgroupKeyOwned
  <2> SUFFICES ASSUME LInit PROVE OneOnboards /\ CgroupKeyOwned
    BY Zenon
  <2>1. job[Handler].pc = "idle" /\ job[Scanner].pc = "idle" /\ unscanned = {}
    BY Zenon DEF LInit, MInit, IdleJob, Workers
  <2>2. \A c \in Cgroups : sessions[c] = {}
    BY Zenon DEF LInit
  <2> QED  BY <2>1, <2>2, Zenon DEF OneOnboards, CgroupKeyOwned
<1>2. LInv /\ OneOnboards /\ CgroupKeyOwned /\ [LNext]_lvars => (OneOnboards /\ CgroupKeyOwned)'
  BY OneOnboardsStep, KeyOwnedStep, Zenon
<1> QED  BY <1>1, <1>2, LAlwaysInv, PTL DEF LSpec
=============================================================================
