--------------------------- MODULE Membership_proof ---------------------------
(***************************************************************************)
(* The membership invariants of KernelMembership for every set of tasks,   *)
(* every map capacity and every signature mode, and the index invariants   *)
(* of SessionManager for every set of pids, cgroups and session ids and    *)
(* any interleaving of the two goroutines.                                 *)
(***************************************************************************)
EXTENDS KernelMembership, SessionManager, TLAPS

\* Userspace has not registered a cgroup, so the signature's flags are the only
\* words that reach the pid map.
Words == /\ sessions = [c \in Cgroups |-> {}]
         /\ \A k \in Tids : pids[k] = {} \/ pids[k] = SigFlags

\* A group number stays the number of its group, parents are processes, and a
\* number no process carries has no image.
Groups == /\ \A t \in alive : tgid[tgid[t]] = tgid[t]
          /\ \A p \in Processes : parent[p] \in Tids => parent[p] \in Processes
          /\ tree \subseteq Processes
          /\ \A p \in Tids \ Processes : image[p] = {}

\* Only live tasks are inside execve, each in one call, and only those inside it
\* have passed bprm.
Execing == /\ \A t \in Tids : pending[t] # {} => t \in alive
           /\ \A t \in Tids : \A a, b \in pending[t] : a = b
           /\ \A t \in checked : pending[t] # {}

\* A key belongs to a live task of a group that holds its key too: this is
\* what lets ak_proc_exit find the group's flags when a thread exits.
Keyed == shed = {} => \A k \in Tids : pids[k] # {} => k \in alive /\ pids[tgid[k]] # {}

\* TreeArmed, with the leader alive: the key looked up at a fork is there.
TreeKeyed == ~faulted /\ shed = {}
            => \A p \in tree : p \in alive /\ pids[p] # {}

\* An exec the LSM hook let through holds its key until the new image runs,
\* unless the leader left in between.
CheckedKeyed == "enforce" \in SigFlags =>
                  \A t \in checked : \A signs \in pending[t] :
                      "file" \in signs => pids[tgid[t]] # {} \/ tgid[t] \in shed

AgentFile == "enforce" \in SigFlags =>
                \A p \in Processes \ shed : "file" \in image[p] => pids[p] # {}

KInv == /\ KTypeOK /\ Words /\ Groups /\ Execing
        /\ Keyed /\ OnlyTreeArmed /\ TreeKeyed /\ CheckedKeyed /\ AgentFile

LEMMA SigFlagsWord == SigFlags \in FlagWords /\ SigFlags # {} /\ "monitor" \in SigFlags
  BY KernelAssumption, Zenon DEF FlagWords, Flags

\* The invariant holds before any agent runs.
LEMMA KInitInv == KInit => KInv
  BY Zenon, KernelAssumption
  DEF KInit, KInv, KTypeOK, Words, Groups, Execing, Keyed, OnlyTreeArmed, TreeKeyed,
      CheckedKeyed, AgentFile, Processes, FlagWords, Flags

\* What the accepted or counted store does to the map.
LEMMA StoreFacts ==
  ASSUME KTypeOK, NEW k \in Tids, StoreOrCount(k, SigFlags)
  PROVE  /\ pids' \in [Tids -> FlagWords] /\ faulted' \in BOOLEAN
         /\ \A j \in Tids : j # k => pids'[j] = pids[j]
         /\ pids'[k] = pids[k] \/ pids'[k] = SigFlags
         /\ faulted => faulted'
         /\ ~faulted' => pids'[k] = SigFlags
  BY SigFlagsWord, Zenon DEF StoreOrCount, KTypeOK

\* Any store of a word is a word: the types need nothing else of the invariant,
\* so they hold as well where the daemon writes to the maps.
LEMMA StoreType ==
  ASSUME KTypeOK, NEW k \in Tids, NEW flags \in FlagWords, StoreOrCount(k, flags)
  PROVE  pids' \in [Tids -> FlagWords] /\ faulted' \in BOOLEAN
  BY Zenon DEF StoreOrCount, KTypeOK

\* The types across a birth.
LEMMA KTypeBirth ==
  ASSUME KTypeOK, NEW c \in Tids,
         \/ ForkOutside(c)
         \/ \E t \in Tids : ak_proc_fork(t, c) \/ ForkUnseen(t, c) \/ ak_proc_fork_thread(t, c)
  PROVE  KTypeOK'
<1>1. CASE ForkOutside(c)
  BY <1>1 DEF ForkOutside, KTypeOK, mapVars
<1>2. ASSUME NEW t \in Tids, NewProcess(t, c), tree' \subseteq tree \cup {c},
             pids' \in [Tids -> FlagWords], faulted' \in BOOLEAN
      PROVE  KTypeOK'
  <2>1. tgid[t] \in Tids /\ cgroup[tgid[t]] \in Cgroups
    BY Zenon DEF KTypeOK
  <2> QED  BY <1>2, <2>1, Zenon DEF NewProcess, KTypeOK
<1>3. ASSUME NEW t \in Tids, ForkUnseen(t, c) PROVE KTypeOK'
  BY <1>2, <1>3, Zenon DEF ForkUnseen, KTypeOK
<1>4. ASSUME NEW t \in Tids, IF pids[tgid[t]] = {} THEN UNCHANGED <<pids, faulted>>
                             ELSE StoreOrCount(c, Inherited(tgid[t]))
      PROVE  pids' \in [Tids -> FlagWords] /\ faulted' \in BOOLEAN
  <2>1. Inherited(tgid[t]) \in FlagWords
    BY Zenon DEF Inherited, KTypeOK
  <2> QED  BY <1>4, <2>1, StoreType, Zenon DEF KTypeOK
<1>5. ASSUME NEW t \in Tids, ak_proc_fork(t, c) PROVE KTypeOK'
  <2>1. NewProcess(t, c) /\ tree' \subseteq tree \cup {c}
    BY <1>5, Zenon DEF ak_proc_fork
  <2>2. pids' \in [Tids -> FlagWords] /\ faulted' \in BOOLEAN
    BY <1>4, <1>5, Zenon DEF ak_proc_fork
  <2> QED  BY <1>2, <2>1, <2>2, Zenon
<1>6. ASSUME NEW t \in Tids, ak_proc_fork_thread(t, c) PROVE KTypeOK'
  <2>1. pids' \in [Tids -> FlagWords] /\ faulted' \in BOOLEAN
    BY <1>4, <1>6, Zenon DEF ak_proc_fork_thread
  <2> QED  BY <1>6, <2>1, Zenon DEF ak_proc_fork_thread, KTypeOK
<1> QED  BY <1>1, <1>3, <1>5, <1>6, Zenon

\* The types across the steps of execve.
LEMMA KTypeExec ==
  ASSUME KTypeOK, NEW t \in Tids,
         \/ \E signs \in SUBSET Signs : ak_execve(t, signs)
         \/ ak_lsm_bprm_refuse(t) \/ ak_lsm_bprm_allow(t) \/ ExecFails(t) \/ ExecDone(t)
  PROVE  KTypeOK'
<1> DEFINE p == tgid[t]
<1>0. p \in Tids
  BY Zenon DEF KTypeOK
<1>1. CASE ak_lsm_bprm_refuse(t) \/ ExecFails(t)
  BY <1>1, Zenon DEF ak_lsm_bprm_refuse, ExecFails, KTypeOK, mapVars, histVars
<1>2. ASSUME NEW signs \in SUBSET Signs, ak_execve(t, signs) PROVE KTypeOK'
  <2>1. SigFlags \in FlagWords /\ sessions[cgroup[p]] \in FlagWords
        /\ (parent[p] \in Tids => Inherited(parent[p]) \in FlagWords)
    BY <1>0, SigFlagsWord, Zenon DEF KTypeOK, Inherited
  <2>2. pids' \in [Tids -> FlagWords] /\ faulted' \in BOOLEAN
    <3>1. CASE UNCHANGED <<pids, faulted>>
      BY <3>1, Zenon DEF KTypeOK
    <3>2. CASE \E flags \in FlagWords : StoreOrCount(p, flags)
      BY <1>0, <3>2, StoreType, Zenon
    <3> QED  BY <1>2, <2>1, <3>1, <3>2, Zenon DEF ak_execve
  <2>3. tree' \subseteq Tids /\ shed' \subseteq Tids
    BY <1>0, <1>2, Zenon DEF ak_execve, JoinTree, Shed, KTypeOK
  <2>4. pending' \in [Tids -> SUBSET (SUBSET Signs)]
    BY <1>2, Zenon DEF ak_execve, KTypeOK
  <2> QED  BY <1>2, <2>2, <2>3, <2>4, Zenon DEF ak_execve, KTypeOK
<1>3. CASE ak_lsm_bprm_allow(t)
  <2>1. PICK signs \in pending[t] :
          LET want == BprmFlags(p, signs) IN
          /\ IF want = {} THEN UNCHANGED <<pids, faulted>> ELSE StoreOrCount(p, want)
          /\ tree' = JoinTree(p, "file" \in signs)
    BY <1>3, Zenon DEF ak_lsm_bprm_allow
  <2>3. BprmFlags(p, signs) \in FlagWords
    <3>1. {} \in FlagWords
      BY Zenon DEF FlagWords
    <3>2. parent[p] \in Tids => pids[parent[p]] \in FlagWords
      BY Zenon DEF KTypeOK
    <3> QED  BY <3>1, <3>2, SigFlagsWord, Zenon DEF BprmFlags, Inherited
  <2>4. pids' \in [Tids -> FlagWords] /\ faulted' \in BOOLEAN
    BY <1>0, <2>1, <2>3, StoreType, Zenon DEF KTypeOK
  <2>5. tree' \subseteq Tids /\ shed' \subseteq Tids /\ checked' \subseteq Tids
    BY <1>0, <1>3, <2>1, Zenon DEF JoinTree, Shed, ak_lsm_bprm_allow, KTypeOK
  <2>6. UNCHANGED <<alive, tgid, parent, cgroup, pending, image, sessions>>
    BY <1>3, Zenon DEF ak_lsm_bprm_allow
  <2> QED  BY <2>4, <2>5, <2>6, Zenon DEF KTypeOK
<1>4. CASE ExecDone(t)
  <2>1. PICK signs \in pending[t] : image' = [image EXCEPT ![p] = signs]
    BY <1>4, Zenon DEF ExecDone
  <2>2. signs \in SUBSET Signs
    BY Zenon DEF KTypeOK
  <2>3. image' \in [Tids -> SUBSET Signs]
    BY <2>1, <2>2, Zenon DEF KTypeOK
  <2>4. /\ alive' = (alive \ {t}) \cup {p} /\ tgid' = [tgid EXCEPT ![t] = t]
        /\ pending' = [pending EXCEPT ![t] = {}] /\ checked' = checked \ {t}
        /\ UNCHANGED <<parent, cgroup, pids, sessions, faulted, tree, shed>>
    BY <1>4, Zenon DEF ExecDone, mapVars, histVars
  <2> QED  BY <1>0, <2>3, <2>4, Zenon DEF KTypeOK
<1> QED  BY <1>1, <1>2, <1>3, <1>4, Zenon

\* The types across an exit.
LEMMA KTypeExit ==
  ASSUME KTypeOK, NEW t \in Tids, ak_proc_exit(t)
  PROVE  KTypeOK'
<1>1. {} \in FlagWords
  BY Zenon DEF FlagWords
<1>2. pids' \in [Tids -> FlagWords] /\ tgid' \in [Tids -> Tids]
      /\ pending' \in [Tids -> SUBSET (SUBSET Signs)]
  BY <1>1, Zenon DEF ak_proc_exit, KTypeOK
<1>3. /\ parent' \in [Tids -> Tids \cup {Init1}] /\ tree' \subseteq Tids
      /\ image' \in [Tids -> SUBSET Signs]
  BY Zenon DEF ak_proc_exit, KTypeOK
<1>4. alive' \subseteq Tids /\ shed' \subseteq Tids /\ checked' \subseteq Tids
      /\ UNCHANGED <<cgroup, sessions, faulted>>
  BY Zenon DEF ak_proc_exit, KTypeOK
<1> QED  BY <1>2, <1>3, <1>4, Zenon DEF KTypeOK

\* The types across any step of the kernel.
LEMMA KTypeNext ==
  ASSUME KTypeOK, KNext
  PROVE  KTypeOK'
  BY KTypeBirth, KTypeExec, KTypeExit, Zenon DEF KNext

\* A process born with the store it inherits, or with none when the parent is
\* not a member.
LEMMA ForkStep ==
  ASSUME KInv, NEW t \in Tids, NEW c \in Tids, ak_proc_fork(t, c)
  PROVE  KInv'
<1> DEFINE P == tgid[t]
<1>0. /\ P \in Tids /\ P \in Processes /\ c \notin alive /\ c \notin Processes /\ c # P
      /\ t \in alive
  BY Zenon DEF ak_proc_fork, NewProcess, Free, Processes, KInv, KTypeOK
<1>1. /\ pids' \in [Tids -> FlagWords] /\ faulted' \in BOOLEAN
      /\ \A j \in Tids : j # c => pids'[j] = pids[j]
      /\ pids'[c] = pids[c] \/ pids'[c] = SigFlags
      /\ faulted => faulted'
      /\ pids[P] = {} => pids'[c] = pids[c]
      /\ pids[P] # {} /\ ~faulted' => pids'[c] = SigFlags
  <2>1. CASE pids[P] = {}
    BY <2>1, <1>0, Zenon DEF ak_proc_fork, KInv, KTypeOK
  <2>2. CASE pids[P] # {}
    <3>1. pids[P] = SigFlags
      BY <2>2, <1>0, Zenon DEF KInv, Words
    <3> QED  BY <3>1, <2>2, <1>0, StoreFacts, Zenon DEF ak_proc_fork, Inherited, KInv
  <2> QED  BY <2>1, <2>2, Zenon
<1>2. /\ alive' = alive \cup {c} /\ tgid' = [tgid EXCEPT ![c] = c]
      /\ parent' = [parent EXCEPT ![c] = P] /\ image' = image
      /\ cgroup' = [cgroup EXCEPT ![c] = cgroup[P]]
      /\ tree' = IF P \in tree THEN tree \cup {c} ELSE tree \ {c}
      /\ pending' = pending /\ checked' = checked /\ sessions' = sessions /\ shed' = shed
  BY Zenon DEF ak_proc_fork, NewProcess
<1>3. Processes' = Processes \cup {c}
  BY <1>0, <1>2 DEF Processes, KInv, KTypeOK
<1>13. Processes \subseteq Tids /\ image[c] = {}
  BY <1>0 DEF KInv, Groups, Processes, KTypeOK
<1>4. KTypeOK'
  BY <1>0, <1>1, <1>2, Zenon DEF KInv, KTypeOK
<1>5. Words'
  BY <1>0, <1>1, <1>2, Zenon DEF KInv, Words
<1>6. Groups'
  BY <1>0, <1>2, <1>3 DEF KInv, Groups, KTypeOK, Processes
<1>7. Execing'
  BY <1>2, Zenon DEF KInv, Execing
<1>8. Keyed'
  BY <1>0, <1>1, <1>2, Zenon DEF KInv, Keyed, KTypeOK, Groups, Processes
<1>9. OnlyTreeArmed'
  BY <1>0, <1>1, <1>2, <1>3 DEF KInv, OnlyTreeArmed, Keyed, KTypeOK, Processes
<1>10. TreeKeyed'
  BY <1>0, <1>1, <1>2, SigFlagsWord, Zenon DEF KInv, TreeKeyed, KTypeOK
<1>11. AgentFile'
  BY <1>0, <1>1, <1>2, <1>3, <1>13, Zenon DEF KInv, AgentFile
<1>12. CheckedKeyed'
  BY <1>0, <1>1, <1>2, <1>13, ZenonT(30) DEF KInv, CheckedKeyed, Execing, KTypeOK, Processes
<1> QED  BY <1>4, <1>5, <1>6, <1>7, <1>8, <1>9, <1>10, <1>11, <1>12, Zenon DEF KInv

\* A process born with no store: of a parent no hook saw, or of an outsider.
LEMMA UntaggedBirthStep ==
  ASSUME KInv, NEW c \in Tids,
         ForkOutside(c) \/ \E t \in Tids : ForkUnseen(t, c)
  PROVE  KInv'
<1>1. /\ c \notin alive /\ c \notin Processes
      /\ alive' = alive \cup {c} /\ tgid' = [tgid EXCEPT ![c] = c]
      /\ cgroup' \in [Tids -> Cgroups] /\ image' = image
      /\ pending' = pending /\ checked' = checked /\ sessions' = sessions /\ shed' = shed
      /\ pids' = pids /\ faulted' = faulted
  BY DEF ForkOutside, ForkUnseen, NewProcess, Free, mapVars, KInv, KTypeOK
<1>2. \E p \in Processes \cup {Init1} : parent' = [parent EXCEPT ![c] = p]
  BY Zenon DEF ForkOutside, ForkUnseen, NewProcess, Processes
<1>3. tree' = tree \ {c}
  BY Zenon DEF ForkOutside, ForkUnseen
<1>4. Processes \subseteq Tids /\ Processes' = Processes \cup {c}
  BY <1>1 DEF Processes, KInv, KTypeOK
<1>5. KTypeOK'
  BY KTypeBirth, Zenon DEF KInv
<1>6. Words'
  BY <1>1, Zenon DEF KInv, Words
<1>7. Groups'
  BY <1>1, <1>2, <1>3, <1>4, KernelAssumption DEF KInv, Groups, KTypeOK, Processes
<1>8. Execing'
  BY <1>1, Zenon DEF KInv, Execing
<1>9. Keyed'
  BY <1>1, Zenon DEF KInv, Keyed, KTypeOK
<1>10. OnlyTreeArmed'
  BY <1>1, <1>3, <1>4, Zenon DEF KInv, OnlyTreeArmed, Keyed, KTypeOK
<1>11. TreeKeyed'
  BY <1>1, <1>3, Zenon DEF KInv, TreeKeyed, KTypeOK
<1>12. AgentFile'
  <2>1. image[c] = {}
    BY <1>1, Zenon DEF KInv, Groups
  <2> QED  BY <1>1, <1>4, <2>1, Zenon DEF KInv, AgentFile
<1>13. CheckedKeyed'
  BY <1>1, Zenon DEF KInv, CheckedKeyed, Execing, KTypeOK
<1> QED  BY <1>5, <1>6, <1>7, <1>8, <1>9, <1>10, <1>11, <1>12, <1>13, Zenon DEF KInv

\* A thread: the hook keys its tid with the group's word.
LEMMA ThreadStep ==
  ASSUME KInv, NEW t \in Tids, NEW c \in Tids, ak_proc_fork_thread(t, c)
  PROVE  KInv'
<1> DEFINE P == tgid[t]
<1>0. /\ P \in Tids /\ P \in Processes /\ c \notin alive /\ c \notin Processes /\ c # P
      /\ t \in alive
  BY Zenon DEF ak_proc_fork_thread, Free, Processes, KInv, KTypeOK
<1>1. /\ pids' \in [Tids -> FlagWords] /\ faulted' \in BOOLEAN
      /\ \A j \in Tids : j # c => pids'[j] = pids[j]
      /\ pids'[c] = pids[c] \/ pids'[c] = SigFlags
      /\ faulted => faulted'
      /\ pids[P] = {} => pids'[c] = pids[c]
  <2>1. CASE pids[P] = {}
    BY <2>1, <1>0, Zenon DEF ak_proc_fork_thread, KInv, KTypeOK
  <2>2. CASE pids[P] # {}
    <3>1. pids[P] = SigFlags
      BY <2>2, <1>0, Zenon DEF KInv, Words
    <3> QED  BY <3>1, <2>2, <1>0, StoreFacts, Zenon DEF ak_proc_fork_thread, Inherited, KInv
  <2> QED  BY <2>1, <2>2, Zenon
<1>2. /\ alive' = alive \cup {c} /\ tgid' = [tgid EXCEPT ![c] = P]
      /\ parent' = parent /\ cgroup' = cgroup /\ sessions' = sessions
      /\ pending' = pending /\ checked' = checked /\ image' = image /\ tree' = tree /\ shed' = shed
  BY Zenon DEF ak_proc_fork_thread
<1>3. Processes' = Processes
  BY <1>0, <1>2 DEF Processes, KInv, KTypeOK
<1>4. KTypeOK'
  BY <1>0, <1>1, <1>2, Zenon DEF KInv, KTypeOK
<1>5. Words'
  BY <1>0, <1>1, <1>2, Zenon DEF KInv, Words
<1>6. Groups'
  BY <1>0, <1>2, <1>3 DEF KInv, Groups, KTypeOK, Processes
<1>7. Execing'
  BY <1>2, Zenon DEF KInv, Execing
<1>8. Keyed'
  BY <1>0, <1>1, <1>2, Zenon DEF KInv, Keyed, KTypeOK, Groups, Processes
<1>9. OnlyTreeArmed'
  BY <1>0, <1>1, <1>2, <1>3 DEF KInv, OnlyTreeArmed, KTypeOK, Processes
<1>10. TreeKeyed'
  BY <1>0, <1>1, <1>2, SigFlagsWord, Zenon DEF KInv, TreeKeyed, KTypeOK, Groups
<1>11. AgentFile'
  <2>1. Processes \subseteq Tids
    BY DEF Processes, KInv, KTypeOK
  <2> QED  BY <1>0, <1>1, <1>2, <1>3, <2>1, Zenon DEF KInv, AgentFile
<1>12. CheckedKeyed'
  BY <1>0, <1>1, <1>2, ZenonT(30) DEF KInv, CheckedKeyed, Execing, KTypeOK, Processes
<1> QED  BY <1>4, <1>5, <1>6, <1>7, <1>8, <1>9, <1>10, <1>11, <1>12, Zenon DEF KInv

\* Every step of execve up to its end: the task set stays, only the key of the
\* caller's group may be written, with the signature's word, and the group joins
\* the tree only as an agent or as the child of a tree member.
ExecShape(t, p) ==
    /\ t \in alive /\ p = tgid[t]
    /\ alive' = alive /\ tgid' = tgid /\ parent' = parent /\ cgroup' = cgroup
    /\ sessions' = sessions /\ image' = image
    /\ pending' \in [Tids -> SUBSET (SUBSET Signs)]
    /\ \A q \in Tids : q # t => pending'[q] = pending[q]
    /\ checked' \subseteq checked \cup {t}
    /\ t \in checked' => pending'[t] # {}
    /\ \A a, b \in pending'[t] : a = b
    /\ pids' \in [Tids -> FlagWords] /\ faulted' \in BOOLEAN
    /\ \A q \in Tids : q # p => pids'[q] = pids[q]
    /\ pids'[p] = pids[p] \/ pids'[p] = SigFlags
    /\ pids[p] # {} => pids'[p] # {}
    /\ faulted => faulted'
    /\ tree' = tree \/ tree' = tree \cup {p}
    /\ shed \subseteq shed' /\ shed' \subseteq shed \cup {p}
    /\ p \notin alive /\ pids'[p] # pids[p] => p \in shed'

\* A step of an exec that only adds the group's key, or none, keeps the tree.
LEMMA ExecPreserves ==
  ASSUME KInv, NEW t \in Tids, NEW p \in Tids, ExecShape(t, p),
         shed' = {} /\ pids'[p] # {} => p \in tree',
         ~faulted' /\ shed' = {} /\ p \in tree' => p \in alive /\ pids'[p] # {},
         "enforce" \in SigFlags /\ t \in checked' =>
            \A signs \in pending'[t] : "file" \in signs => pids'[p] # {}
  PROVE  KInv'
<1>1. Processes' = Processes /\ Processes \subseteq Tids /\ p \in Processes /\ tgid[p] = p
  BY DEF ExecShape, Processes, KInv, KTypeOK, Groups
<1>2. KTypeOK'
  BY Zenon DEF ExecShape, KInv, KTypeOK
<1>3. Words'
  BY Zenon DEF ExecShape, KInv, Words, KTypeOK
<1>4. Groups'
  BY <1>1, Zenon DEF ExecShape, KInv, Groups
<1>5. Execing'
  BY Zenon DEF ExecShape, KInv, Execing, KTypeOK
<1>6. Keyed'
  <2>1. SUFFICES ASSUME shed' = {}, NEW k \in Tids, pids'[k] # {}
                 PROVE  k \in alive /\ pids'[tgid[k]] # {}
    BY Zenon DEF Keyed, ExecShape
  <2>2. shed = {} /\ tgid[k] \in Tids
    BY <2>1, Zenon DEF ExecShape, KInv, KTypeOK
  <2>3. CASE k = p
    BY <1>1, <2>1, <2>2, <2>3, Zenon DEF ExecShape, KInv, Keyed
  <2>4. CASE k # p
    BY <1>1, <2>1, <2>2, <2>4, Zenon DEF ExecShape, KInv, Keyed
  <2> QED  BY <2>3, <2>4, Zenon
<1>7. OnlyTreeArmed'
  BY <1>1, Zenon DEF ExecShape, KInv, OnlyTreeArmed
<1>8. TreeKeyed'
  BY Zenon DEF ExecShape, KInv, TreeKeyed, KTypeOK
<1>9. AgentFile'
  BY <1>1, Zenon DEF ExecShape, KInv, AgentFile, KTypeOK
<1>10. CheckedKeyed'
  <2>1. SUFFICES ASSUME "enforce" \in SigFlags, NEW x \in checked', NEW signs \in pending'[x],
                        "file" \in signs
                 PROVE  pids'[tgid[x]] # {} \/ tgid[x] \in shed'
    BY Zenon DEF CheckedKeyed, ExecShape
  <2>2. CASE x = t
    BY <2>1, <2>2, Zenon DEF ExecShape
  <2>3. CASE x # t
    <3>1. x \in checked /\ x \in Tids /\ signs \in pending[x] /\ tgid[x] \in Tids
      BY <2>1, <2>3, Zenon DEF ExecShape, KInv, KTypeOK
    <3>2. pids[tgid[x]] # {} \/ tgid[x] \in shed
      BY <2>1, <3>1, Zenon DEF KInv, CheckedKeyed
    <3> QED  BY <3>1, <3>2, Zenon DEF ExecShape
  <2> QED  BY <2>2, <2>3, Zenon
<1> QED  BY <1>2, <1>3, <1>4, <1>5, <1>6, <1>7, <1>8, <1>9, <1>10, Zenon DEF KInv

\* The parent whose key an exec inherits is in the tree, and a parent in the
\* tree has a key to inherit.
LEMMA ParentFacts ==
  ASSUME KInv, NEW p \in Processes
  PROVE  /\ parent[p] \in Tids /\ pids[parent[p]] # {} =>
                pids[parent[p]] = SigFlags /\ (shed = {} => parent[p] \in tree)
         /\ ~faulted /\ shed = {} /\ parent[p] \in tree =>
                parent[p] \in Tids /\ pids[parent[p]] # {}
  BY Zenon DEF KInv, KTypeOK, Words, Groups, OnlyTreeArmed, TreeKeyed

\* ak_execve keeps the invariant whichever of its three arms it takes.
LEMMA ExecveStep ==
  ASSUME KInv, NEW t \in Tids, NEW signs \in SUBSET Signs, ak_execve(t, signs)
  PROVE  KInv'
<1>p. PICK p \in Tids : p = tgid[t]
  BY Zenon DEF KInv, KTypeOK
<1>0. /\ t \in alive /\ pending[t] = {} /\ p \in Processes
      /\ sessions[cgroup[p]] = {} /\ pids[p] \in {{}, SigFlags}
  BY <1>p DEF ak_execve, Processes, KInv, KTypeOK, Words
<1>1. /\ pids' \in [Tids -> FlagWords] /\ faulted' \in BOOLEAN
      /\ \A q \in Tids : q # p => pids'[q] = pids[q]
      /\ pids'[p] = pids[p] \/ pids'[p] = SigFlags
      /\ pids[p] # {} => pids' = pids
      /\ faulted => faulted'
      /\ pids[p] = {} /\ pids'[p] # {} =>
            \/ "argv" \in signs
            \/ parent[p] \in Tids /\ pids[parent[p]] # {}
      /\ /\ ~faulted' /\ pids[p] = {}
         /\ "argv" \in signs \/ (parent[p] \in Tids /\ pids[parent[p]] # {})
         => pids'[p] = SigFlags
  <2>1. CASE pids[p] # {}
    BY <1>p, <2>1, Zenon DEF ak_execve, KInv, KTypeOK
  <2>2. CASE pids[p] = {} /\ "argv" \in signs
    BY <1>p, <2>2, StoreFacts, Zenon DEF ak_execve, KInv
  <2>3. CASE pids[p] = {} /\ "argv" \notin signs /\ parent[p] \in Tids /\ pids[parent[p]] # {}
    BY <1>p, <2>3, <1>0, ParentFacts, StoreFacts, Zenon DEF ak_execve, Inherited, KInv
  <2>4. CASE pids[p] = {} /\ "argv" \notin signs /\ ~(parent[p] \in Tids /\ pids[parent[p]] # {})
    BY <1>p, <2>4, <1>0, Zenon DEF ak_execve, KInv, KTypeOK
  <2> QED  BY <2>1, <2>2, <2>3, <2>4, Zenon
<1>2. /\ alive' = alive /\ tgid' = tgid /\ parent' = parent /\ cgroup' = cgroup
      /\ sessions' = sessions /\ image' = image /\ checked' = checked
      /\ pending' = [pending EXCEPT ![t] = {signs}]
      /\ tree' = IF "argv" \in signs \/ parent[p] \in tree THEN tree \cup {p} ELSE tree
      /\ shed' = IF pids'[p] # {} /\ p \notin alive THEN shed \cup {p} ELSE shed
  BY <1>p, Zenon DEF ak_execve, JoinTree, Shed
<1>3. t \notin checked
  BY <1>0, Zenon DEF KInv, Execing
<1>4. ExecShape(t, p)
  BY <1>p, <1>0, <1>1, <1>2, <1>3, SigFlagsWord, ZenonT(40) DEF ExecShape, KInv, KTypeOK
<1>5. shed' = {} /\ pids'[p] # {} => p \in tree'
  BY <1>0, <1>1, <1>2, ParentFacts, Zenon DEF KInv, OnlyTreeArmed
<1>6. ~faulted' /\ shed' = {} /\ p \in tree' => pids'[p] # {}
  BY <1>0, <1>1, <1>2, ParentFacts, SigFlagsWord, Zenon DEF KInv, TreeKeyed
<1>7. ~faulted' /\ shed' = {} /\ p \in tree' => p \in alive /\ pids'[p] # {}
  BY <1>2, <1>6, Zenon
<1> QED  BY <1>2, <1>3, <1>4, <1>5, <1>7, ExecPreserves, Zenon

\* A refused or failed exec changes neither the map's keys nor the tree.
LEMMA ExecAbortStep ==
  ASSUME KInv, NEW t \in Tids, ak_lsm_bprm_refuse(t) \/ ExecFails(t)
  PROVE  KInv'
<1>p. PICK p \in Tids : p = tgid[t]
  BY Zenon DEF KInv, KTypeOK
<1>1. /\ t \in alive /\ pids' = pids /\ tree' = tree /\ shed' = shed
      /\ alive' = alive /\ tgid' = tgid /\ parent' = parent /\ cgroup' = cgroup
      /\ sessions' = sessions /\ image' = image
      /\ pending' = [pending EXCEPT ![t] = {}]
      /\ faulted' \in BOOLEAN /\ (faulted => faulted')
  BY Zenon DEF ak_lsm_bprm_refuse, ExecFails, AtBprm, histVars, mapVars, KInv, KTypeOK
<1>2. checked' \subseteq checked /\ t \notin checked'
  BY Zenon DEF ak_lsm_bprm_refuse, ExecFails, AtBprm
<1>3. ExecShape(t, p)
  BY <1>p, <1>1, <1>2, Zenon DEF ExecShape, KInv, KTypeOK
<1>4. p \in Processes
  BY <1>p, <1>1, Zenon DEF Processes
<1>5. shed' = {} /\ pids'[p] # {} => p \in tree'
  BY <1>1, <1>4, Zenon DEF KInv, OnlyTreeArmed
<1>6. ~faulted' /\ shed' = {} /\ p \in tree' => p \in alive /\ pids'[p] # {}
  BY <1>1, Zenon DEF KInv, TreeKeyed
<1> QED  BY <1>2, <1>3, <1>5, <1>6, ExecPreserves, Zenon

\* The arming half of ak_lsm_bprm keeps the invariant when it lets the exec go.
LEMMA BprmAllowStep ==
  ASSUME KInv, NEW t \in Tids, ak_lsm_bprm_allow(t)
  PROVE  KInv'
<1>p. PICK p \in Tids : p = tgid[t]
  BY Zenon DEF KInv, KTypeOK
<1>1. PICK signs \in pending[t] :
        LET want == BprmFlags(p, signs) IN
        /\ ~BprmRefuses(p, want)
        /\ IF want = {} THEN UNCHANGED <<pids, faulted>>
                        ELSE StoreOrCount(p, want)
        /\ tree' = JoinTree(p, "file" \in signs)
  BY <1>p, Zenon DEF ak_lsm_bprm_allow
<1>2. /\ t \in alive /\ p \in Processes /\ sessions[cgroup[p]] = {}
      /\ pids[p] \in {{}, SigFlags} /\ signs \in SUBSET Signs
  BY <1>p, <1>1, Zenon DEF ak_lsm_bprm_allow, AtBprm, Processes, KInv, KTypeOK, Words
<1>3. BprmFlags(p, signs) =
        IF pids[p] # {} THEN {}
        ELSE IF "file" \in signs THEN SigFlags
        ELSE IF parent[p] \in Tids THEN pids[parent[p]]
        ELSE {}
  BY <1>2, SigFlagsWord, Zenon DEF BprmFlags, Inherited, ak_session_flags
<1>4. BprmFlags(p, signs) = {} \/ BprmFlags(p, signs) = SigFlags
  BY <1>2, <1>3, ParentFacts, Zenon
<1>5. /\ pids' \in [Tids -> FlagWords] /\ faulted' \in BOOLEAN
      /\ \A q \in Tids : q # p => pids'[q] = pids[q]
      /\ pids'[p] = pids[p] \/ pids'[p] = SigFlags
      /\ faulted => faulted'
      /\ BprmFlags(p, signs) = {} => pids' = pids
      /\ BprmFlags(p, signs) = SigFlags /\ ~faulted' => pids'[p] = SigFlags
      /\ BprmFlags(p, signs) = SigFlags /\ Accepts(p) => pids'[p] = SigFlags
  <2>1. CASE BprmFlags(p, signs) = {}
    BY <2>1, <1>1, SigFlagsWord, Zenon DEF KInv, KTypeOK
  <2>2. CASE BprmFlags(p, signs) = SigFlags
    <3>1. StoreOrCount(p, SigFlags)
      BY <2>2, <1>1, SigFlagsWord, Zenon
    <3> QED  BY <3>1, <2>2, StoreFacts, SigFlagsWord, Zenon DEF KInv, StoreOrCount, KTypeOK
  <2> QED  BY <1>4, <2>1, <2>2, Zenon
<1>6. /\ alive' = alive /\ tgid' = tgid /\ parent' = parent /\ cgroup' = cgroup
      /\ sessions' = sessions /\ image' = image /\ pending' = pending
      /\ checked' = checked \cup {t}
      /\ shed' = IF pids'[p] # {} /\ p \notin alive THEN shed \cup {p} ELSE shed
  BY <1>p, Zenon DEF ak_lsm_bprm_allow, Shed
<1>7. tree' = IF "file" \in signs \/ parent[p] \in tree THEN tree \cup {p} ELSE tree
  BY <1>1, Zenon DEF JoinTree
<1>8. ExecShape(t, p)
  <2>1. pending'[t] # {} /\ \A a, b \in pending'[t] : a = b
    BY <1>1, <1>6, Zenon DEF KInv, Execing
  <2>2. pending' \in [Tids -> SUBSET (SUBSET Signs)]
    BY <1>6, Zenon DEF KInv, KTypeOK
  <2>3. pids[p] # {} => pids'[p] # {}
    BY <1>5, SigFlagsWord, Zenon
  <2> QED  BY <1>p, <1>2, <1>5, <1>6, <1>7, <2>1, <2>2, <2>3, Zenon DEF ExecShape
<1>9. shed' = {} /\ pids'[p] # {} => p \in tree'
  BY <1>2, <1>3, <1>5, <1>6, <1>7, ParentFacts, Zenon DEF KInv, OnlyTreeArmed
<1>10. ~faulted' /\ shed' = {} /\ p \in tree' => pids'[p] # {}
  BY <1>2, <1>3, <1>4, <1>5, <1>6, <1>7, ParentFacts, SigFlagsWord, Zenon DEF KInv, TreeKeyed
<1>11. ~faulted' /\ shed' = {} /\ p \in tree' => p \in alive /\ pids'[p] # {}
  BY <1>6, <1>10, Zenon
<1>12. \A x \in pending'[t] : x = signs
  BY <1>6, <1>1, Zenon DEF KInv, Execing
<1>13. "enforce" \in SigFlags /\ "file" \in signs => pids'[p] # {}
  BY <1>1, <1>2, <1>3, <1>5, SigFlagsWord, Zenon DEF BprmRefuses
<1> QED  BY <1>8, <1>9, <1>11, <1>12, <1>13, ExecPreserves, Zenon

\* The hook finds the group's word whenever the exiting task has a key, so the
\* key goes; a member's leader that leaves early is what shed records.
LEMMA ExitStep ==
  ASSUME KInv, NEW t \in Tids, ak_proc_exit(t)
  PROVE  KInv'
<1> DEFINE P == tgid[t]
           last == \A x \in alive : tgid[x] = P => x = t
<1>0. /\ t \in alive /\ P \in Tids /\ P \in Processes /\ tgid[P] = P
      /\ last <=> Threads(P) = {t}
  BY Zenon DEF ak_proc_exit, Processes, Threads, KInv, KTypeOK, Groups
<1>1. /\ alive' = alive \ {t} /\ cgroup' = cgroup /\ sessions' = sessions
      /\ faulted' = faulted /\ checked' = checked \ {t}
      /\ pending' = [pending EXCEPT ![t] = {}]
  BY Zenon DEF ak_proc_exit
<1>a. tgid' = [tgid EXCEPT ![t] = t]
  BY Zenon DEF ak_proc_exit
<1>b. \A x \in alive' : tgid'[x] = tgid[x] /\ x \in alive /\ x # t /\ x \in Tids
  BY <1>1, <1>a, Zenon DEF KInv, KTypeOK
<1>2. parent' = IF last THEN [q \in Tids |-> IF q = P \/ parent[q] = P THEN Init1 ELSE parent[q]]
                ELSE parent
  BY <1>0, Zenon DEF ak_proc_exit
<1>3. /\ tree' = IF last THEN tree \ {P} ELSE tree
      /\ image' = IF last THEN [image EXCEPT ![P] = {}] ELSE image
  BY <1>0, Zenon DEF ak_proc_exit
<1>4. shed' = IF t = P /\ ~last /\ pids[t] # {} THEN shed \cup {t} ELSE shed
  BY <1>0, Zenon DEF ak_proc_exit
<1>5. pids' = IF pids[P] # {} THEN [pids EXCEPT ![t] = {}] ELSE pids
  <2>1. sessions[cgroup[P]] = {} /\ (pids[P] # {} => "monitor" \in pids[P])
    BY <1>0, SigFlagsWord, Zenon DEF KInv, Words, KTypeOK
  <2> QED  BY <2>1, Zenon DEF ak_proc_exit, ak_session_flags, ExitKeys, KInv, KTypeOK
<1>6. Processes' = IF last THEN Processes \ {P} ELSE Processes
  <2>1. Processes' = {tgid[x] : x \in alive \ {t}}
    BY <1>1, <1>b DEF Processes
  <2>2. CASE last
    BY <2>1, <2>2, Zenon DEF Processes
  <2>3. CASE ~last
    BY <1>0, <2>1, <2>3, Zenon DEF Processes
  <2> QED  BY <2>2, <2>3, Zenon
<1>7. Processes \subseteq Tids
  BY DEF Processes, KInv, KTypeOK
<1>c. ASSUME t \in Processes PROVE t = P
  <2>1. PICK x \in alive : tgid[x] = t
    BY <1>c, Zenon DEF Processes
  <2> QED  BY <2>1, Zenon DEF KInv, Groups
<1>8. KTypeOK'
  BY KTypeExit, Zenon DEF KInv
<1>9. Words'
  BY <1>1, <1>5, Zenon DEF KInv, Words, KTypeOK
<1>10. Groups'
  <2>1. \A x \in alive' : tgid'[tgid'[x]] = tgid'[x]
    <3>1. ASSUME NEW x \in alive' PROVE tgid'[tgid[x]] = tgid[x]
      <4>1. x \in alive /\ tgid[x] \in Tids /\ tgid[tgid[x]] = tgid[x]
        BY <1>b, <3>1, Zenon DEF KInv, Groups, KTypeOK
      <4> QED  BY <4>1, <1>a, Zenon DEF KInv, KTypeOK
    <3> QED  BY <3>1, <1>b, Zenon
  <2>2. \A p \in Processes' : parent'[p] \in Tids => parent'[p] \in Processes'
    BY <1>0, <1>2, <1>6, <1>7, KernelAssumption, Zenon DEF KInv, Groups, KTypeOK
  <2>3. tree' \subseteq Processes'
    BY <1>3, <1>6, Zenon DEF KInv, Groups
  <2>4. \A p \in Tids \ Processes' : image'[p] = {}
    BY <1>3, <1>6, Zenon DEF KInv, Groups, KTypeOK
  <2> QED  BY <2>1, <2>2, <2>3, <2>4, Zenon DEF Groups
<1>11. Execing'
  BY <1>1, Zenon DEF KInv, Execing, KTypeOK
<1>12. Keyed'
  <2>1. SUFFICES ASSUME shed' = {}, NEW k \in Tids, pids'[k] # {}
                 PROVE  k \in alive' /\ pids'[tgid'[k]] # {}
    BY Zenon DEF Keyed
  <2>2. shed = {} /\ pids[k] # {} /\ k \in alive /\ pids[tgid[k]] # {} /\ tgid[k] \in Tids
    BY <1>4, <1>5, <2>1, Zenon DEF KInv, Keyed, KTypeOK
  <2>3. k # t
    BY <1>5, <2>1, <2>2, Zenon DEF KInv, KTypeOK
  <2>4. k \in alive' /\ tgid'[k] = tgid[k]
    BY <1>1, <1>b, <2>2, <2>3, Zenon
  <2>5. tgid[k] # t
    <3>1. ASSUME tgid[k] = t PROVE FALSE
      <4>1. t = P
        BY <2>2, <3>1, Zenon DEF KInv, Groups
      <4>2. ~last
        BY <2>2, <2>3, <3>1, <4>1, Zenon
      <4> QED  BY <1>4, <2>1, <2>2, <3>1, <4>1, <4>2, Zenon
    <3> QED  BY <3>1, Zenon
  <2> QED  BY <1>5, <2>2, <2>4, <2>5, Zenon DEF KInv, KTypeOK
<1>13. OnlyTreeArmed'
  BY <1>0, <1>3, <1>4, <1>5, <1>6, <1>7, Zenon DEF KInv, OnlyTreeArmed, KTypeOK
<1>14. TreeKeyed'
  <2>1. \A p \in tree : tgid[p] = p
    BY Zenon DEF KInv, Groups, Processes
  <2> QED  BY <1>0, <1>1, <1>3, <1>4, <1>5, <2>1, Zenon DEF KInv, TreeKeyed, KTypeOK
<1>15. AgentFile'
  <2>1. SUFFICES ASSUME "enforce" \in SigFlags, NEW p \in Processes' \ shed', "file" \in image'[p]
                 PROVE  pids'[p] # {}
    BY Zenon DEF AgentFile
  <2>2. p \in Processes \ shed /\ p \in Tids
    BY <1>4, <1>6, <1>7, <2>1, Zenon
  <2>3. "file" \in image[p]
    BY <1>3, <1>6, <2>1, <2>2, Zenon DEF KInv, KTypeOK
  <2>4. pids[p] # {}
    BY <2>1, <2>2, <2>3, Zenon DEF KInv, AgentFile
  <2>5. p # t
    BY <1>4, <1>6, <1>c, <2>1, <2>2, <2>4, Zenon
  <2> QED  BY <1>5, <2>2, <2>4, <2>5, Zenon DEF KInv, KTypeOK
<1>16. CheckedKeyed'
  <2>1. SUFFICES ASSUME "enforce" \in SigFlags, NEW x \in checked', NEW signs \in pending'[x],
                        "file" \in signs
                 PROVE  pids'[tgid'[x]] # {} \/ tgid'[x] \in shed'
    BY Zenon DEF CheckedKeyed
  <2>2. x \in checked /\ x # t /\ x \in Tids /\ signs \in pending[x]
    BY <1>1, <2>1, Zenon DEF KInv, KTypeOK
  <2>3. x \in alive /\ tgid'[x] = tgid[x] /\ tgid[x] \in Tids /\ tgid[x] \in Processes
    BY <1>a, <2>2, Zenon DEF KInv, Execing, KTypeOK, Processes
  <2>4. pids[tgid[x]] # {} \/ tgid[x] \in shed
    BY <2>1, <2>2, Zenon DEF KInv, CheckedKeyed
  <2>5. CASE tgid[x] # t
    BY <1>4, <1>5, <2>3, <2>4, <2>5, Zenon DEF KInv, KTypeOK
  <2>6. CASE tgid[x] = t
    <3>1. t = P /\ ~last
      BY <1>c, <2>2, <2>3, <2>6, Zenon
    <3> QED  BY <1>4, <2>3, <2>4, <2>6, <3>1, Zenon
  <2> QED  BY <2>5, <2>6, Zenon
<1> QED  BY <1>8, <1>9, <1>10, <1>11, <1>12, <1>13, <1>14, <1>15, <1>16, Zenon DEF KInv

\* The new image runs under the group's number: a caller that was not the
\* leader had no key either, as long as no member was without its leader.
LEMMA ExecDoneStep ==
  ASSUME KInv, NEW t \in Tids, ExecDone(t)
  PROVE  KInv'
<1>p. PICK p \in Tids : p = tgid[t]
  BY Zenon DEF KInv, KTypeOK
<1>1. PICK signs \in pending[t] : image' = [image EXCEPT ![p] = signs]
  BY <1>p, Zenon DEF ExecDone
<1>2. /\ alive' = (alive \ {t}) \cup {p} /\ tgid' = [tgid EXCEPT ![t] = t]
      /\ pending' = [pending EXCEPT ![t] = {}] /\ checked' = checked \ {t}
      /\ parent' = parent /\ cgroup' = cgroup /\ pids' = pids /\ sessions' = sessions
      /\ faulted' = faulted /\ tree' = tree /\ shed' = shed
  BY <1>p, Zenon DEF ExecDone, mapVars, histVars
<1>3. /\ t \in checked /\ t \in alive /\ tgid[p] = p /\ p \in Processes
      /\ \A x \in alive : tgid[x] = p => x = t
  BY <1>p, Zenon DEF ExecDone, Threads, Processes, KInv, Groups
<1>4. p \in alive => p = t
  BY <1>3, Zenon
<1>5. /\ \A x \in Tids : x # t => tgid'[x] = tgid[x]
      /\ tgid'[p] = p /\ tgid'[t] = t
  BY <1>2, <1>3, Zenon DEF KInv, KTypeOK
<1>6. \A x \in alive' : x = p \/ (x \in alive /\ x # t /\ x \in Tids /\ tgid'[x] = tgid[x])
  BY <1>2, <1>5, Zenon DEF KInv, KTypeOK
<1>7. Processes \subseteq Tids /\ Processes' = Processes
  <2>1. Processes \subseteq Tids
    BY DEF Processes, KInv, KTypeOK
  <2>2. ASSUME NEW q \in Processes PROVE q \in Processes'
    <3>1. PICK x \in alive : tgid[x] = q
      BY Zenon DEF Processes
    <3>2. CASE q = p
      BY <1>2, <1>5, <3>2, Zenon DEF Processes
    <3>3. CASE q # p
      <4>1. x # t /\ x \in Tids
        BY <1>p, <3>1, <3>3, Zenon DEF KInv, KTypeOK
      <4> QED  BY <1>2, <1>5, <3>1, <4>1, Zenon DEF Processes
    <3> QED  BY <3>2, <3>3, Zenon
  <2>3. ASSUME NEW q \in Processes' PROVE q \in Processes
    <3>1. PICK x \in alive' : tgid'[x] = q
      BY Zenon DEF Processes
    <3> QED  BY <1>3, <1>5, <1>6, <3>1, Zenon DEF Processes
  <2> QED  BY <2>1, <2>2, <2>3, Zenon
<1>8. KTypeOK'
  BY KTypeExec, Zenon DEF KInv
<1>9. Words'
  BY <1>2, Zenon DEF KInv, Words
<1>10. Groups'
  <2>1. ASSUME NEW x \in alive' PROVE tgid'[tgid'[x]] = tgid'[x]
    <3>1. CASE x = p
      BY <1>5, <3>1, Zenon
    <3>2. CASE x # p
      <4>1. x \in alive /\ x # t /\ tgid'[x] = tgid[x] /\ tgid[x] \in Tids
            /\ tgid[tgid[x]] = tgid[x]
        BY <1>6, <3>2, Zenon DEF KInv, Groups, KTypeOK
      <4> QED  BY <1>5, <4>1, Zenon
    <3> QED  BY <3>1, <3>2, Zenon
  <2>2. \A q \in Tids \ Processes' : image'[q] = {}
    BY <1>1, <1>3, <1>7, Zenon DEF KInv, Groups, KTypeOK
  <2> QED  BY <1>2, <1>7, <2>1, <2>2, Zenon DEF KInv, Groups
<1>11. Execing'
  <2>1. ASSUME NEW x \in Tids, pending'[x] # {} PROVE x \in alive'
    BY <1>2, <2>1, Zenon DEF KInv, Execing, KTypeOK
  <2>2. \A x \in Tids : \A a, b \in pending'[x] : a = b
    BY <1>2, ZenonT(30) DEF KInv, Execing, KTypeOK
  <2>3. \A x \in checked' : pending'[x] # {}
    BY <1>2, Zenon DEF KInv, Execing, KTypeOK
  <2> QED  BY <2>1, <2>2, <2>3, Zenon DEF Execing
<1>12. Keyed'
  <2>1. SUFFICES ASSUME shed = {}, NEW k \in Tids, pids[k] # {}
                 PROVE  k \in alive' /\ pids[tgid'[k]] # {}
    BY <1>2, Zenon DEF Keyed
  <2>2. k \in alive /\ pids[tgid[k]] # {} /\ tgid[k] \in Tids /\ tgid[k] \in alive
    BY <2>1, Zenon DEF KInv, Keyed, KTypeOK
  <2>3. CASE k = t
    <3>1. p = t
      BY <1>p, <1>4, <2>2, <2>3, Zenon
    <3> QED  BY <1>2, <1>5, <2>1, <2>3, <3>1, Zenon
  <2>4. CASE k # t
    BY <1>2, <1>5, <2>2, <2>4, Zenon
  <2> QED  BY <2>3, <2>4, Zenon
<1>13. OnlyTreeArmed'
  BY <1>2, <1>7, Zenon DEF KInv, OnlyTreeArmed
<1>14. TreeKeyed'
  <2>1. SUFFICES ASSUME ~faulted, shed = {}, NEW q \in tree PROVE q \in alive'
    BY <1>2, Zenon DEF KInv, TreeKeyed
  <2>2. q \in alive /\ q \in Processes
    BY <2>1, Zenon DEF KInv, TreeKeyed, Groups
  <2>3. q = t => p = t
    BY <1>p, <2>2, Zenon DEF KInv, Groups, Processes
  <2> QED  BY <1>2, <2>2, <2>3, Zenon
<1>15. CheckedKeyed'
  <2>1. SUFFICES ASSUME "enforce" \in SigFlags, NEW x \in checked \ {t}, NEW y \in pending'[x],
                        "file" \in y
                 PROVE  pids[tgid'[x]] # {} \/ tgid'[x] \in shed
    BY <1>2, Zenon DEF CheckedKeyed
  <2>2. x \in Tids /\ x \in checked /\ y \in pending[x] /\ tgid'[x] = tgid[x]
    BY <1>2, <1>5, <2>1, Zenon DEF KInv, KTypeOK
  <2> QED  BY <2>1, <2>2, Zenon DEF KInv, CheckedKeyed
<1>16. AgentFile'
  <2>1. SUFFICES ASSUME "enforce" \in SigFlags, NEW q \in Processes \ shed, "file" \in image'[q]
                 PROVE  pids[q] # {}
    BY <1>2, <1>7, Zenon DEF AgentFile
  <2>2. q \in Tids
    BY <1>7, Zenon
  <2>3. CASE q = p
    <3>1. "file" \in signs
      BY <1>1, <2>1, <2>2, <2>3, Zenon DEF KInv, KTypeOK
    <3> QED  BY <1>p, <1>3, <2>1, <2>3, <3>1, Zenon DEF KInv, CheckedKeyed
  <2>4. CASE q # p
    BY <1>1, <2>1, <2>2, <2>4, Zenon DEF KInv, KTypeOK, AgentFile
  <2> QED  BY <2>3, <2>4, Zenon
<1> QED  BY <1>8, <1>9, <1>10, <1>11, <1>12, <1>13, <1>14, <1>15, <1>16, Zenon DEF KInv
-----------------------------------------------------------------------------
\* Every step keeps the invariant: one case per action.
LEMMA KNextInv == KInv /\ [KNext]_kvars => KInv'
<1> SUFFICES ASSUME KInv, [KNext]_kvars PROVE KInv'
  BY Zenon
<1>1. ASSUME NEW t \in Tids, NEW c \in Tids, ak_proc_fork(t, c) PROVE KInv'
  BY <1>1, ForkStep, Zenon
<1>2. ASSUME NEW t \in Tids, NEW c \in Tids, ForkUnseen(t, c) PROVE KInv'
  BY <1>2, UntaggedBirthStep, Zenon
<1>3. ASSUME NEW t \in Tids, NEW c \in Tids, ak_proc_fork_thread(t, c) PROVE KInv'
  BY <1>3, ThreadStep, Zenon
<1>4. ASSUME NEW t \in Tids, NEW signs \in SUBSET Signs, ak_execve(t, signs) PROVE KInv'
  BY <1>4, ExecveStep, Zenon
<1>5. ASSUME NEW t \in Tids, ak_lsm_bprm_refuse(t) \/ ExecFails(t) PROVE KInv'
  BY <1>5, ExecAbortStep, Zenon
<1>6. ASSUME NEW t \in Tids, ak_lsm_bprm_allow(t) PROVE KInv'
  BY <1>6, BprmAllowStep, Zenon
<1>10. ASSUME NEW t \in Tids, ExecDone(t) PROVE KInv'
  BY <1>10, ExecDoneStep, Zenon
<1>7. ASSUME NEW c \in Tids, ForkOutside(c) PROVE KInv'
  BY <1>7, UntaggedBirthStep, Zenon
<1>8. ASSUME NEW t \in Tids, ak_proc_exit(t) PROVE KInv'
  BY <1>8, ExitStep, Zenon
<1>9. CASE UNCHANGED kvars
  BY <1>9 DEF kvars, procVars, mapVars, histVars, KInv, KTypeOK, Words, Groups, Execing,
              Keyed, OnlyTreeArmed, TreeKeyed, CheckedKeyed, AgentFile, Processes
<1> QED  BY <1>1, <1>2, <1>3, <1>4, <1>5, <1>6, <1>7, <1>8, <1>9, <1>10, Zenon DEF KNext

\* The inductive invariant holds throughout.
LEMMA KAlwaysInv == KSpec => []KInv
  BY KInitInv, KNextInv, PTL DEF KSpec

(* Type correctness of the kernel's membership state (the maps hold only    *)
(* absent entries or words that carry MONITOR).                             *)
THEOREM KTypeCorrect == KSpec => []KTypeOK
  BY KAlwaysInv, PTL DEF KInv

(* Fork, reparenting and exec never shed the tag (bpf/process.bpf.c:90-93): *)
(* TreeArmed for every number of tasks and every map capacity.              *)
THEOREM TreeArmedAlways == KSpec => []TreeArmed
<1>1. KInv => TreeArmed
  BY Zenon DEF KInv, TreeKeyed, TreeArmed
<1> QED  BY <1>1, KAlwaysInv, PTL

(* A member's flags never reach a process outside the tree, pid reuse       *)
(* included (bpf/process.bpf.c:151-152).                                    *)
THEOREM OnlyTreeArmedAlways == KSpec => []OnlyTreeArmed
<1>1. KInv => OnlyTreeArmed
  BY Zenon DEF KInv
<1> QED  BY <1>1, KAlwaysInv, PTL

(* The per-task delete balances both kinds of birth (bpf/process.bpf.c:     *)
(* 147-153) as long as no member has been without its leader task.          *)
THEOREM KeysBalancedAlways == KSpec => []KeysBalanced
<1>1. KInv => KeysBalanced
  BY Zenon DEF KInv, Keyed, KeysBalanced
<1> QED  BY <1>1, KAlwaysInv, PTL

(* A full map refuses an enforce-mode agent file instead of running it      *)
(* outside its envelope (bpf/enforcer.bpf.c:180-190), whichever thread      *)
(* calls execve and whatever happens to the others, for every process that  *)
(* has not been without its leader task.                                    *)
THEOREM NoUnarmedAgentFileAlways == KSpec => []NoUnarmedAgentFile
<1>1. ASSUME KInv PROVE NoUnarmedAgentFile
  <2>1. Processes \subseteq Tids
    BY <1>1 DEF Processes, KInv, KTypeOK
  <2> QED  BY <1>1, <2>1, Zenon DEF KInv, Words, AgentFile, NoUnarmedAgentFile, ak_session_flags
<1> QED  BY <1>1, KAlwaysInv, PTL
-----------------------------------------------------------------------------

\* A goroutine past classify holds an exec; between createSession's two lock
\* sections it also holds a session nobody else can reach.
Building(w) == job[w].pc \in {"place", "index"}

Jobs ==
    /\ \A w \in Workers : job[w].pc = "classify" => job[w].ev \in Exec
    /\ \A w \in Workers : Building(w) =>
          /\ job[w].ev \in Exec /\ job[w].sid \in Ids
          /\ sess[job[w].sid].state = "active"
          /\ sess[job[w].sid].root = job[w].ev.pid
          /\ sess[job[w].sid].members[job[w].ev.pid] > 0
          /\ job[w].sid \notin byID
    /\ \A v, w \in Workers : Building(v) /\ Building(w) /\ v # w => job[v].sid # job[w].sid

\* Only sessions that were indexed are known.
Known == /\ \A s \in byID : sess[s].state # "none"
         /\ \A p \in Pids : byRootPID[p] # NoSession => byRootPID[p] \in byID
         /\ \A c \in CgroupIds : byCgroup[c] # NoSession =>
               byCgroup[c] \in byID \/ sess[byCgroup[c]].state = "ended"

\* The history lists ended sessions, each once, all of them known.
HistoryOK ==
    /\ \A i \in 1..Len(history) : sess[history[i]].state = "ended" /\ history[i] \in byID
    /\ \A i, j \in 1..Len(history) : history[i] = history[j] => i = j

MInv == /\ MTypeOK /\ Jobs /\ Known /\ HistoryOK
        /\ PidIndexLive /\ RootIndexLive /\ HistoryIsByID
-----------------------------------------------------------------------------
\* An unused session and an idle goroutine are well-typed.
LEMMA UnusedType == Unused \in Session /\ IdleJob \in Job /\ IdleJob.pc = "idle"
  BY Zenon DEF Unused, Session, NoMembers, IdleJob, Job, PCs, CgroupIds

\* The invariant holds of the empty manager.
LEMMA MInitInv == MInit => MInv
<1> SUFFICES ASSUME MInit PROVE MInv
  BY Zenon
<1>1. MTypeOK
  BY UnusedType DEF MInit, MTypeOK
<1>2. \A s \in Ids : sess[s].state = "none"
  BY Zenon DEF MInit, Unused
<1>3. Jobs
  BY UnusedType, Zenon DEF MInit, Jobs, Building
<1>4. Known /\ PidIndexLive /\ RootIndexLive
  BY Zenon DEF MInit, Known, PidIndexLive, RootIndexLive
<1>5. HistoryOK /\ HistoryIsByID
  BY <1>2, ManagerAssumption DEF MInit, HistoryOK, HistoryIsByID
<1> QED  BY <1>1, <1>3, <1>4, <1>5, Zenon DEF MInv

\* A step that leaves the sessions and the indexes alone and brings no
\* goroutine to a new construction.
LEMMA JobStep ==
  ASSUME MInv, UNCHANGED <<sess, indexVars, history>>, job' \in [Workers -> Job],
         \A w \in Workers : \/ job'[w].pc \notin {"classify", "place", "index"}
                            \/ job'[w].pc = "classify" /\ job'[w].ev \in Exec
                            \/ /\ Building(w) /\ job'[w].pc = "index"
                               /\ job'[w].ev = job[w].ev /\ job'[w].sid = job[w].sid
                            \/ job'[w] = job[w]
  PROVE  MInv'
<1>1. MTypeOK'
  BY Zenon DEF MInv, MTypeOK, indexVars
<1>2. Jobs'
  BY DEF MInv, Jobs, Building, indexVars
<1>3. Known' /\ HistoryOK' /\ PidIndexLive' /\ RootIndexLive' /\ HistoryIsByID'
  BY DEF MInv, Known, HistoryOK, PidIndexLive, RootIndexLive, HistoryIsByID, indexVars
<1> QED  BY <1>1, <1>2, <1>3, Zenon DEF MInv

\* What addMemberLocked does to a session it is allowed to touch.
LEMMA AddMember ==
  ASSUME MTypeOK, NEW s \in Ids, NEW p \in Pids,
         addMemberLocked(s, p) \/ UNCHANGED <<sess, pidIndex>>
  PROVE  /\ sess' \in [Ids -> Session] /\ pidIndex' \in [Pids -> Ids \cup {NoSession}]
         /\ \A t \in Ids : sess'[t].state = sess[t].state /\ sess'[t].root = sess[t].root
                            /\ sess'[t].cgroup = sess[t].cgroup
         /\ \A t \in Ids : t # s => sess'[t] = sess[t]
         /\ \A t \in Ids, q \in Pids : sess[t].members[q] > 0 => sess'[t].members[q] > 0
         /\ \A q \in Pids : pidIndex'[q] # pidIndex[q] =>
               q = p /\ pidIndex'[q] = s /\ sess'[s].members[q] > 0
<1>0. sess \in [Ids -> Session] /\ pidIndex \in [Pids -> Ids \cup {NoSession}]
  BY Zenon DEF MTypeOK
<1>1. CASE UNCHANGED <<sess, pidIndex>>
  BY <1>0, <1>1, Zenon
<1>2. CASE sess' = [sess EXCEPT ![s].members[p] = @ + 1]
           /\ pidIndex' = [pidIndex EXCEPT ![p] = s]
  <2> DEFINE m == [sess[s].members EXCEPT ![p] = @ + 1]
             r == [sess[s] EXCEPT !.members = m]
  <2>1. sess[s] \in Session /\ sess[s].members \in [Pids -> Nat]
    BY <1>0, Zenon DEF Session
  <2>2. /\ m \in [Pids -> Nat] /\ m[p] > 0
        /\ \A q \in Pids : sess[s].members[q] > 0 => m[q] > 0
    BY <2>1
  <2>3. r \in Session /\ r.state = sess[s].state /\ r.root = sess[s].root /\ r.members = m
        /\ r.cgroup = sess[s].cgroup
    BY <2>1, <2>2, Zenon DEF Session
  <2>4. sess' = [sess EXCEPT ![s] = r]
    BY <1>2, Zenon
  <2> HIDE DEF r, m
  <2>5. /\ sess' \in [Ids -> Session] /\ sess'[s] = r
        /\ \A t \in Ids : t # s => sess'[t] = sess[t]
    BY <1>0, <2>3, <2>4, Zenon
  <2>6. pidIndex' \in [Pids -> Ids \cup {NoSession}] /\ pidIndex'[p] = s
        /\ \A q \in Pids : q # p => pidIndex'[q] = pidIndex[q]
    BY <1>0, <1>2, Zenon
  <2> QED  BY <2>2, <2>3, <2>5, <2>6, Zenon
<1> QED  BY <1>1, <1>2, Zenon DEF addMemberLocked

\* addMemberLocked on an active known session keeps the invariant, whether or
\* not the calling goroutine returns to idle in the same section.
LEMMA AddMemberStep ==
  ASSUME MInv, NEW s \in byID, sess[s].state = "active", NEW p \in Pids,
         addMemberLocked(s, p) \/ UNCHANGED <<sess, pidIndex>>,
         UNCHANGED <<byID, byRootPID, byCgroup, history>>,
         job' = job \/ \E w \in Workers : job' = [job EXCEPT ![w] = IdleJob]
  PROVE  MInv'
<1>0. s \in Ids /\ MTypeOK
  BY Zenon DEF MInv, MTypeOK
<1>1. /\ sess' \in [Ids -> Session] /\ pidIndex' \in [Pids -> Ids \cup {NoSession}]
      /\ \A t \in Ids : sess'[t].state = sess[t].state /\ sess'[t].root = sess[t].root
      /\ \A t \in Ids, q \in Pids : sess[t].members[q] > 0 => sess'[t].members[q] > 0
      /\ \A q \in Pids : pidIndex'[q] # pidIndex[q] =>
            q = p /\ pidIndex'[q] = s /\ sess'[s].members[q] > 0
  BY <1>0, AddMember, Zenon
<1>2. /\ job' \in [Workers -> Job]
      /\ \A w \in Workers : job'[w] = job[w] \/ job'[w].pc = "idle"
  BY UnusedType, Zenon DEF MInv, MTypeOK
<1>3. MTypeOK'
  BY <1>1, <1>2, Zenon DEF MInv, MTypeOK
<1>4. Jobs'
  BY <1>1, <1>2 DEF MInv, Jobs, Building, Exec
<1>5. Known' /\ HistoryOK' /\ RootIndexLive' /\ HistoryIsByID'
  <2>1. \A i \in 1..Len(history) : history[i] \in Ids
    BY DEF MInv, MTypeOK
  <2>2. HistoryOK' /\ HistoryIsByID'
    BY <1>1, <2>1, Zenon DEF MInv, HistoryOK, HistoryIsByID
  <2>3. Known' /\ RootIndexLive'
    BY <1>1, SMTT(30) DEF MInv, MTypeOK, Known, RootIndexLive
  <2> QED  BY <2>2, <2>3, Zenon
<1>6. PidIndexLive'
  BY <1>0, <1>1 DEF MInv, MTypeOK, PidIndexLive
<1> QED  BY <1>3, <1>4, <1>5, <1>6, Zenon DEF MInv
-----------------------------------------------------------------------------
\* The first section of OnExec, whether it folds the pid in or goes on.
LEMMA OnExecStep ==
  ASSUME MInv, NEW w \in Workers, NEW e \in Exec, OnExecFold(w, e) \/ OnExec(w, e)
  PROVE  MInv'
<1>0. e.cgroup \in CgroupIds /\ e.pid \in Pids
  BY Zenon DEF Exec
<1>1. CASE OnExecFold(w, e)
  <2>1. byCgroup[e.cgroup] \in byID /\ sess[byCgroup[e.cgroup]].state = "active"
    BY <1>0, <1>1, Zenon DEF OnExecFold, InManagedCgroup, Active, MInv, Known
  <2> QED  BY <1>0, <1>1, <2>1, AddMemberStep, Zenon DEF OnExecFold
<1>2. CASE OnExec(w, e)
  <2> DEFINE j == [IdleJob EXCEPT !.pc = "classify", !.ev = e]
  <2>1. j \in Job /\ j.pc = "classify" /\ j.ev = e
    BY Zenon DEF IdleJob, Job, PCs
  <2>2. job' = [job EXCEPT ![w] = j] /\ UNCHANGED <<sess, indexVars, history>>
    BY <1>2, Zenon DEF OnExec
  <2> HIDE DEF j
  <2>3. job' \in [Workers -> Job] /\ \A v \in Workers : job'[v] = IF v = w THEN j ELSE job[v]
    BY <2>1, <2>2, Zenon DEF MInv, MTypeOK
  <2> QED  BY <2>1, <2>2, <2>3, JobStep, Zenon
<1> QED  BY <1>1, <1>2, Zenon

\* OnExec of a child of a member folds it in.
LEMMA OnExecParentStep ==
  ASSUME MInv, NEW w \in Workers, OnExecParent(w)
  PROVE  MInv'
<1>0. job[w].ev \in Exec
  BY Zenon DEF MInv, Jobs, OnExecParent
<1>1. job[w].ev.pid \in Pids /\ job[w].ev.ppid \in Pids \cup {NoPid}
  BY <1>0, Zenon DEF Exec
<1> DEFINE p == job[w].ev.ppid
<1>2. CASE p # NoPid /\ Active(pidIndex[p])
  <2>1. pidIndex[p] \in byID /\ sess[pidIndex[p]].state = "active"
    BY <1>1, <1>2, Zenon DEF Active, MInv, PidIndexLive
  <2> QED  BY <1>1, <1>2, <2>1, AddMemberStep, Zenon DEF OnExecParent
<1>3. CASE ~(p # NoPid /\ Active(pidIndex[p]))
  <2>1. UNCHANGED <<sess, indexVars, history>> /\ job' = [job EXCEPT ![w] = IdleJob]
    BY <1>3, Zenon DEF OnExecParent, indexVars
  <2> QED  BY <2>1, JobStep, UnusedType, Zenon DEF MInv, MTypeOK
<1> QED  BY <1>2, <1>3, Zenon

\* The idempotency check of createSession that finds a session.
LEMMA CreateFoldStep ==
  ASSUME MInv, NEW w \in Workers, createSessionFold(w)
  PROVE  MInv'
<1>0. job[w].ev \in Exec
  BY Zenon DEF MInv, Jobs, createSessionFold
<1> DEFINE e == job[w].ev
<1>1. e.pid \in Pids /\ e.cgroup \in CgroupIds
  BY <1>0, Zenon DEF Exec
<1>2. CASE Active(byRootPID[e.pid])
  <2>1. UNCHANGED <<sess, indexVars, history>> /\ job' = [job EXCEPT ![w] = IdleJob]
    BY <1>2, Zenon DEF createSessionFold, indexVars
  <2> QED  BY <2>1, JobStep, UnusedType, Zenon DEF MInv, MTypeOK
<1>3. CASE ~Active(byRootPID[e.pid])
  <2>1. byCgroup[e.cgroup] \in byID /\ sess[byCgroup[e.cgroup]].state = "active"
    BY <1>1, <1>3, Zenon DEF createSessionFold, InManagedCgroup, Active, MInv, Known
  <2> QED  BY <1>1, <1>3, <2>1, AddMemberStep, Zenon DEF createSessionFold
<1> QED  BY <1>2, <1>3, Zenon

\* The first critical section of createSession: a fresh session, not indexed.
LEMMA CreateStep ==
  ASSUME MInv, NEW w \in Workers, NEW s \in Ids, createSession(w, s)
  PROVE  MInv'
<1> DEFINE e == job[w].ev
           r == [state |-> "active", root |-> e.pid, cgroup |-> e.cgroup,
                 managed |-> FALSE, members |-> [NoMembers EXCEPT ![e.pid] = 1]]
           j == [job[w] EXCEPT !.pc = "place", !.sid = s]
<1>0. /\ job[w].ev \in Exec /\ sess[s].state = "none"
      /\ sess' = [sess EXCEPT ![s] = r] /\ job' = [job EXCEPT ![w] = j]
      /\ UNCHANGED <<byID, byRootPID, byCgroup, pidIndex, history>>
  BY Zenon DEF MInv, Jobs, createSession, indexVars
<1>1. e.pid \in Pids /\ e.cgroup \in CgroupIds
  BY <1>0, Zenon DEF Exec
<1>2. [NoMembers EXCEPT ![e.pid] = 1] \in [Pids -> Nat]
      /\ [NoMembers EXCEPT ![e.pid] = 1][e.pid] > 0
  BY <1>1 DEF NoMembers
<1>3. r \in Session /\ r.state = "active" /\ r.root = e.pid /\ r.members[e.pid] > 0
  BY <1>1, <1>2, Zenon DEF Session
<1>4. job[w] \in Job
  BY Zenon DEF MInv, MTypeOK
<1>5. j \in Job /\ j.pc = "place" /\ j.sid = s /\ j.ev = e
  BY <1>4, Zenon DEF Job, PCs
<1> HIDE DEF r, j
<1>6. sess' \in [Ids -> Session] /\ sess'[s] = r
      /\ \A t \in Ids : t # s => sess'[t] = sess[t]
  BY <1>0, <1>3, Zenon DEF MInv, MTypeOK
<1>7. job' \in [Workers -> Job] /\ job'[w] = j
      /\ \A v \in Workers : v # w => job'[v] = job[v]
  BY <1>0, <1>5, Zenon DEF MInv, MTypeOK
<1>8. MTypeOK'
  BY <1>0, <1>6, <1>7, Zenon DEF MInv, MTypeOK
<1>9. \A t \in Ids : sess[t].state # "none" => t # s
  BY <1>0, Zenon
<1>10. s \notin byID
  BY <1>0, Zenon DEF MInv, Known
<1>11. Jobs'
  <2>0. Jobs /\ UNCHANGED byID
    BY <1>0, Zenon DEF MInv
  <2>1. \A v \in Workers : v # w /\ Building(v) => job[v].sid # s
    BY <2>0, <1>0, Zenon DEF Jobs
  <2>2. \A v \in Workers : job'[v].pc = "classify" => job'[v].ev \in Exec
    BY <2>0, <1>5, <1>7 DEF Jobs
  <2>3. \A v \in Workers : Building(v)' => v = w \/ (v # w /\ Building(v) /\ job'[v] = job[v])
    BY <1>7, Zenon DEF Building
  <2>4. \A v \in Workers : Building(v)' =>
          /\ job'[v].ev \in Exec /\ job'[v].sid \in Ids
          /\ sess'[job'[v].sid].state = "active"
          /\ sess'[job'[v].sid].root = job'[v].ev.pid
          /\ sess'[job'[v].sid].members[job'[v].ev.pid] > 0
          /\ job'[v].sid \notin byID'
    <3> SUFFICES ASSUME NEW v \in Workers, Building(v)'
                 PROVE  /\ job'[v].ev \in Exec /\ job'[v].sid \in Ids
                        /\ sess'[job'[v].sid].state = "active"
                        /\ sess'[job'[v].sid].root = job'[v].ev.pid
                        /\ sess'[job'[v].sid].members[job'[v].ev.pid] > 0
                        /\ job'[v].sid \notin byID'
      BY Zenon
    <3>1. CASE v = w
      BY <3>1, <2>0, <1>0, <1>3, <1>5, <1>6, <1>7, <1>10, Zenon
    <3>2. CASE v # w /\ Building(v) /\ job'[v] = job[v]
      <4>1. job[v].sid # s /\ job[v].sid \in Ids
        BY <3>2, <2>0, <2>1, Zenon DEF Jobs
      <4>2. sess'[job[v].sid] = sess[job[v].sid]
        BY <4>1, <1>6, Zenon
      <4> QED  BY <3>2, <4>2, <2>0, Zenon DEF Jobs
    <3> QED  BY <2>3, <3>1, <3>2, Zenon
  <2>5. \A u, v \in Workers : Building(u)' /\ Building(v)' /\ u # v => job'[u].sid # job'[v].sid
    BY <2>0, <2>1, <2>3, <1>5, <1>7, ZenonT(40) DEF Jobs
  <2> QED  BY <2>2, <2>4, <2>5, Zenon DEF Jobs
<1>12. Known' /\ PidIndexLive' /\ RootIndexLive'
  BY <1>0, <1>6, <1>9, <1>10 DEF MInv, MTypeOK, Known, PidIndexLive, RootIndexLive
<1>13. \A i \in 1..Len(history) : history[i] \in Ids
  BY DEF MInv, MTypeOK
<1>14. HistoryOK' /\ HistoryIsByID'
  BY <1>0, <1>3, <1>6, <1>13 DEF MInv, HistoryOK, HistoryIsByID
<1> QED  BY <1>8, <1>11, <1>12, <1>14, Zenon DEF MInv

\* The placement outside the lock changes the goroutine's own state only.
LEMMA PlaceStep ==
  ASSUME MInv, NEW w \in Workers, NEW ok \in BOOLEAN, placeInCgroup(w, ok)
  PROVE  MInv'
<1> DEFINE j == [job[w] EXCEPT !.pc = "index", !.placed = ok]
<1>1. job[w] \in Job /\ Building(w)
  BY Zenon DEF MInv, MTypeOK, placeInCgroup, Building
<1>2. j \in Job /\ j.pc = "index" /\ j.ev = job[w].ev /\ j.sid = job[w].sid
  BY <1>1, Zenon DEF Job, PCs
<1>3. job' = [job EXCEPT ![w] = j] /\ UNCHANGED <<sess, indexVars, history>>
  BY Zenon DEF placeInCgroup
<1> HIDE DEF j
<1>4. job' \in [Workers -> Job] /\ \A v \in Workers : job'[v] = IF v = w THEN j ELSE job[v]
  BY <1>2, <1>3, Zenon DEF MInv, MTypeOK
<1> QED  BY <1>1, <1>2, <1>3, <1>4, JobStep, Zenon

\* The second critical section of createSession indexes an active session.
LEMMA IndexStep ==
  ASSUME MInv, NEW w \in Workers, createSessionIndex(w)
  PROVE  MInv'
<1> DEFINE e == job[w].ev
           s == job[w].sid
           g == IF job[w].placed THEN s ELSE sess[s].cgroup
           r == [sess[s] EXCEPT !.cgroup = g, !.managed = job[w].placed]
           j == [job[w] EXCEPT !.pc = "announce"]
<1>1. /\ e \in Exec /\ s \in Ids /\ s \notin byID
      /\ sess[s].state = "active" /\ sess[s].root = e.pid /\ sess[s].members[e.pid] > 0
  BY Zenon DEF MInv, Jobs, Building, createSessionIndex
<1>2. sess[s] \in Session /\ job[w] \in Job /\ e.pid \in Pids
  BY <1>1, Zenon DEF MInv, MTypeOK, Exec
<1>3. g \in CgroupIds /\ job[w].placed \in BOOLEAN
  BY <1>1, <1>2, Zenon DEF Session, Job, CgroupIds
<1>4. /\ r \in Session /\ r.state = "active" /\ r.root = e.pid
      /\ r.members = sess[s].members
  BY <1>1, <1>2, <1>3, Zenon DEF Session
<1>5. j \in Job /\ j.pc = "announce"
  BY <1>2, Zenon DEF Job, PCs
<1>6. /\ sess' = [sess EXCEPT ![s] = r] /\ job' = [job EXCEPT ![w] = j]
      /\ byID' = byID \cup {s}
      /\ byRootPID' = [byRootPID EXCEPT ![e.pid] = s]
      /\ pidIndex' = [pidIndex EXCEPT ![e.pid] = s]
      /\ byCgroup' = [c \in CgroupIds |->
                        IF c = g \/ (c = e.cgroup /\ c # NoCgroup) THEN s ELSE byCgroup[c]]
      /\ history' = history
  BY Zenon DEF createSessionIndex
<1> HIDE DEF r, j, g
<1>7. sess' \in [Ids -> Session] /\ sess'[s] = r
      /\ \A t \in Ids : t # s => sess'[t] = sess[t]
  BY <1>1, <1>4, <1>6, Zenon DEF MInv, MTypeOK
<1>8. job' \in [Workers -> Job] /\ job'[w] = j
      /\ \A v \in Workers : v # w => job'[v] = job[v]
  BY <1>5, <1>6, Zenon DEF MInv, MTypeOK
<1>9. MTypeOK'
  BY <1>1, <1>2, <1>6, <1>7, <1>8, Zenon DEF MInv, MTypeOK
<1>10. \A t \in Ids : sess'[t].state = sess[t].state /\ sess'[t].root = sess[t].root
                       /\ sess'[t].members = sess[t].members
  BY <1>1, <1>4, <1>7, Zenon
<1>11. Jobs'
  <2>1. \A v \in Workers : Building(v)' => v # w /\ Building(v) /\ job[v].sid # s
    BY <1>5, <1>8, Zenon DEF MInv, Jobs, Building, createSessionIndex
  <2> QED  BY <1>5, <1>6, <1>8, <1>10, <2>1 DEF MInv, Jobs, Building
<1>12. Known'
  <2>1. \A c \in CgroupIds : byCgroup'[c] = s \/ byCgroup'[c] = byCgroup[c]
    BY Zenon, <1>6
  <2> QED  BY <1>1, <1>2, <1>6, <1>10, <2>1 DEF MInv, MTypeOK, Known
<1>13. PidIndexLive' /\ RootIndexLive'
  <2>1. PidIndexLive'
    BY <1>1, <1>2, <1>6, <1>10, Zenon DEF MInv, MTypeOK, PidIndexLive
  <2>2. RootIndexLive'
    BY <1>1, <1>2, <1>6, <1>10 DEF MInv, MTypeOK, RootIndexLive
  <2> QED  BY <2>1, <2>2, Zenon
<1>14. HistoryOK' /\ HistoryIsByID'
  <2>1. \A i \in 1..Len(history) : history[i] \in Ids
    BY DEF MInv, MTypeOK
  <2> QED  BY <1>1, <1>6, <1>10, <2>1 DEF MInv, HistoryOK, HistoryIsByID
<1> QED  BY <1>9, <1>11, <1>12, <1>13, <1>14, Zenon DEF MInv

\* A goroutine that is done returns to idle and changes nothing else.
LEMMA ReturnStep ==
  ASSUME MInv, NEW w \in Workers, job' = [job EXCEPT ![w] = IdleJob],
         UNCHANGED <<sess, indexVars, history>>
  PROVE  MInv'
  BY JobStep, UnusedType, Zenon DEF MInv, MTypeOK
-----------------------------------------------------------------------------
\* What an exit that is looked up finds.
LEMMA ExitFinds ==
  ASSUME MInv, NEW pid \in Pids, ExitReady(pid)
  PROVE  LET s == pidIndex[pid] IN
         /\ s \in Ids /\ s \in byID /\ sess[s] \in Session /\ sess[s].state = "active"
         /\ sess[s].members \in [Pids -> Nat]
         /\ \A w \in Workers : Building(w) => job[w].sid # s
  BY Zenon DEF ExitReady, MInv, MTypeOK, PidIndexLive, Jobs, Building, Session

\* OnExit of a root that a surviving process of the cgroup replaces.
LEMMA AdoptStep ==
  ASSUME MInv, NEW pid \in Pids, NEW adopt \in Pids, OnExitAdopt(pid, adopt)
  PROVE  MInv'
<1> DEFINE s == pidIndex[pid]
           new == pidIndex[adopt] = NoSession
           kept == WithoutMember(sess[s].members, pid)
           m == IF new THEN [kept EXCEPT ![adopt] = @ + 1] ELSE kept
           r == [sess[s] EXCEPT !.root = adopt, !.members = m]
<1>1. /\ s \in Ids /\ s \in byID /\ sess[s] \in Session /\ sess[s].state = "active"
      /\ sess[s].members \in [Pids -> Nat]
      /\ \A w \in Workers : Building(w) => job[w].sid # s
  BY ExitFinds, Zenon DEF OnExitAdopt
<1>2. adopt # pid /\ sess[s].root = pid
  BY Zenon DEF OnExitAdopt, IsRoot
<1>3. /\ kept \in [Pids -> Nat]
      /\ \A q \in Pids : q # pid => kept[q] = sess[s].members[q]
  BY <1>1 DEF WithoutMember
<1>4. /\ m \in [Pids -> Nat] /\ (new => m[adopt] > 0)
      /\ \A q \in Pids : q # pid /\ sess[s].members[q] > 0 => m[q] > 0
  BY <1>3
<1>5. r \in Session /\ r.state = "active" /\ r.root = adopt /\ r.members = m
  BY <1>1, <1>4, Zenon DEF Session
<1>6. /\ sess' = [sess EXCEPT ![s] = r]
      /\ pidIndex' = [pidIndex EXCEPT ![pid] = NoSession, ![adopt] = IF new THEN s ELSE @]
      /\ byRootPID' = [byRootPID EXCEPT ![pid] = NoSession, ![adopt] = s]
      /\ UNCHANGED <<byID, byCgroup, history, job>>
  BY Zenon DEF OnExitAdopt, Reroot
<1> HIDE DEF r, m, kept
<1>7. sess' \in [Ids -> Session] /\ sess'[s] = r
      /\ \A t \in Ids : t # s => sess'[t] = sess[t]
  BY <1>1, <1>5, <1>6, Zenon DEF MInv, MTypeOK
<1>8. MTypeOK'
  BY <1>1, <1>6, <1>7, Zenon DEF MInv, MTypeOK
<1>9. \A t \in Ids : sess'[t].state = sess[t].state
  BY <1>1, <1>5, <1>7, Zenon
<1>10. Jobs'
  BY <1>1, <1>6, <1>7, Zenon DEF MInv, Jobs, Building
<1>11. Known'
  BY <1>1, <1>2, <1>6, <1>9 DEF MInv, MTypeOK, Known
<1>12. PidIndexLive'
  <2>1. /\ pidIndex'[pid] = NoSession
        /\ pidIndex'[adopt] = IF new THEN s ELSE pidIndex[adopt]
        /\ \A q \in Pids : q # pid /\ q # adopt => pidIndex'[q] = pidIndex[q]
    BY <1>2, <1>6, Zenon DEF MInv, MTypeOK
  <2>2. \A q \in Pids : pidIndex'[q] # NoSession =>
          /\ pidIndex'[q] \in Ids /\ q # pid
          /\ (pidIndex'[q] = pidIndex[q] \/ (q = adopt /\ new /\ pidIndex'[q] = s))
    BY <1>1, <2>1, Zenon DEF MInv, MTypeOK
  <2> SUFFICES ASSUME NEW q \in Pids, pidIndex'[q] # NoSession
               PROVE  /\ sess'[pidIndex'[q]].state = "active" /\ pidIndex'[q] \in byID'
                      /\ sess'[pidIndex'[q]].members[q] > 0
    BY Zenon DEF PidIndexLive
  <2>3. CASE q = adopt /\ new /\ pidIndex'[q] = s
    BY <1>1, <1>4, <1>5, <1>6, <1>7, <2>3
  <2>4. CASE pidIndex'[q] = pidIndex[q]
    <3>1. /\ sess[pidIndex[q]].state = "active" /\ pidIndex[q] \in byID
          /\ sess[pidIndex[q]].members[q] > 0
      BY <2>4, Zenon DEF MInv, PidIndexLive
    <3>2. CASE pidIndex[q] = s
      <4>1. sess'[pidIndex'[q]] = r
        BY <1>7, <2>4, <3>2, Zenon
      <4>2. q # pid /\ sess[s].members[q] > 0
        BY <2>2, <3>1, <3>2, Zenon
      <4>3. m[q] > 0
        BY <1>4, <4>2, Zenon
      <4> QED  BY <1>5, <1>6, <2>4, <3>1, <4>1, <4>3
    <3>3. CASE pidIndex[q] # s
      BY <1>6, <1>7, <2>2, <2>4, <3>1, <3>3
    <3> QED  BY <3>2, <3>3, Zenon
  <2> QED  BY <2>2, <2>3, <2>4, Zenon
<1>13. RootIndexLive'
  <2>1. \A q \in Pids : byRootPID'[q] # NoSession =>
          (q = adopt /\ byRootPID'[q] = s)
          \/ (q # pid /\ q # adopt /\ byRootPID'[q] = byRootPID[q] /\ byRootPID[q] \in Ids)
    BY <1>2, <1>6, Zenon DEF MInv, MTypeOK
  <2> QED  BY <1>2, <1>5, <1>7, <2>1 DEF MInv, RootIndexLive
<1>14. HistoryOK' /\ HistoryIsByID'
  <2>1. \A i \in 1..Len(history) : history[i] \in Ids
    BY DEF MInv, MTypeOK
  <2> QED  BY <1>6, <1>9, <2>1, Zenon DEF MInv, HistoryOK, HistoryIsByID
<1> QED  BY <1>8, <1>10, <1>11, <1>12, <1>13, <1>14, Zenon DEF MInv

\* OnExit of a root that ends its session and moves it to the history.
LEMMA EndStep ==
  ASSUME MInv, NEW pid \in Pids, OnExitEnd(pid)
  PROVE  MInv'
<1> DEFINE s == pidIndex[pid]
           h == Append(history, s)
           evict == Len(h) > HistoryMax
           r == [sess[s] EXCEPT !.state = "ended"]
           j == [IdleJob EXCEPT !.pc = "ended", !.sid = s]
<1>1. /\ s \in Ids /\ s \in byID /\ sess[s] \in Session /\ sess[s].state = "active"
      /\ \A w \in Workers : Building(w) => job[w].sid # s
  BY ExitFinds, Zenon DEF OnExitEnd
<1>2. sess[s].root = pid /\ sess[s].cgroup \in CgroupIds
  BY <1>1, Zenon DEF OnExitEnd, IsRoot, Session
<1>3. r \in Session /\ r.state = "ended"
  BY <1>1, Zenon DEF Session
<1>4. j \in Job /\ j.pc = "ended"
  BY <1>1, Zenon DEF IdleJob, Job, PCs
<1>5. /\ sess' = [sess EXCEPT ![s] = r]
      /\ pidIndex' = [p \in Pids |-> IF sess[s].members[p] > 0 THEN NoSession ELSE pidIndex[p]]
      /\ byRootPID' = [byRootPID EXCEPT ![pid] = NoSession]
      /\ byCgroup' = [byCgroup EXCEPT ![sess[s].cgroup] = NoSession]
      /\ history' = IF evict THEN Tail(h) ELSE h
      /\ byID' = IF evict THEN byID \ {Head(h)} ELSE byID
      /\ job' = [job EXCEPT ![Handler] = j]
  BY Zenon DEF OnExitEnd, DropMembers, HistoryOver
<1> HIDE DEF r, j
<1>6. sess' \in [Ids -> Session] /\ sess'[s] = r
      /\ \A t \in Ids : t # s => sess'[t] = sess[t]
  BY <1>1, <1>3, <1>5, Zenon DEF MInv, MTypeOK
<1>7. job' \in [Workers -> Job]
      /\ \A v \in Workers : job'[v] = job[v] \/ job'[v].pc = "ended"
  BY <1>4, <1>5, Zenon DEF MInv, MTypeOK, Workers
<1>8. history \in Seq(Ids) /\ h \in Seq(Ids) /\ Len(h) = Len(history) + 1
      /\ h[Len(h)] = s /\ \A i \in 1..Len(history) : h[i] = history[i]
  BY <1>1 DEF MInv, MTypeOK
\* h lists ended sessions, each once, and s is the newest of them.
<1>9. /\ \A i \in 1..Len(h) : h[i] \in Ids /\ sess'[h[i]].state = "ended" /\ h[i] \in byID
      /\ \A i, k \in 1..Len(h) : h[i] = h[k] => i = k
  <2>1. \A i \in 1..Len(history) : history[i] \in Ids /\ history[i] # s
    BY <1>1, <1>8 DEF MInv, HistoryOK
  <2> QED  BY <1>1, <1>3, <1>6, <1>8, <2>1 DEF MInv, HistoryOK
<1>10. /\ Head(h) = h[1] /\ Tail(h) \in Seq(Ids) /\ Len(Tail(h)) = Len(h) - 1
       /\ \A i \in 1..Len(Tail(h)) : Tail(h)[i] = h[i + 1]
       /\ 1 \in 1..Len(h)
  <2>1. ASSUME NEW S, NEW q \in Seq(S), Len(q) \in Nat \ {0}
        PROVE  /\ Head(q) = q[1] /\ Tail(q) \in Seq(S) /\ Len(Tail(q)) = Len(q) - 1
               /\ \A i \in 1..Len(Tail(q)) : Tail(q)[i] = q[i + 1]
               /\ 1 \in 1..Len(q)
    <3>1. 1 \in 1..Len(q) /\ Head(q) = q[1]
      BY <2>1
    <3>2. Tail(q) \in Seq(S) /\ Len(Tail(q)) = Len(q) - 1
      BY <2>1
    <3>3. \A i \in 1..Len(Tail(q)) : Tail(q)[i] = q[i + 1]
      BY <2>1, <3>2
    <3> QED BY <3>1, <3>2, <3>3, Zenon
  <2>2. Len(h) \in Nat \ {0}
    BY <1>8
  <2> QED BY <1>8, <2>1, <2>2, Zenon
<1>11. history' \in Seq(Ids) /\ Len(history') <= HistoryMax
  BY <1>5, <1>8, <1>10, ManagerAssumption DEF MInv, HistoryIsByID
<1>12. MTypeOK'
  BY <1>1, <1>5, <1>6, <1>7, <1>11, Zenon DEF MInv, MTypeOK
<1>13. byID' \subseteq byID /\ \A t \in byID \ byID' : sess'[t].state = "ended"
  BY <1>5, <1>9, <1>10
<1>14. Jobs'
  BY <1>6, <1>7, <1>1, <1>13 DEF MInv, Jobs, Building
<1>15. PidIndexLive'
  <2> SUFFICES ASSUME NEW q \in Pids, pidIndex'[q] # NoSession
               PROVE  /\ sess'[pidIndex'[q]].state = "active" /\ pidIndex'[q] \in byID'
                      /\ sess'[pidIndex'[q]].members[q] > 0
    BY Zenon DEF PidIndexLive
  <2>1. pidIndex'[q] = pidIndex[q] /\ pidIndex[q] # s /\ pidIndex[q] \in Ids
    BY <1>5, Zenon DEF MInv, MTypeOK, PidIndexLive
  <2>2. /\ sess[pidIndex[q]].state = "active" /\ pidIndex[q] \in byID
        /\ sess[pidIndex[q]].members[q] > 0
    BY <2>1, Zenon DEF MInv, PidIndexLive
  <2> QED  BY <1>6, <1>13, <2>1, <2>2, Zenon
<1>16. RootIndexLive' /\ \A q \in Pids : byRootPID'[q] # NoSession => byRootPID'[q] \in byID'
  <2>1. \A q \in Pids : byRootPID'[q] # NoSession =>
          byRootPID'[q] = byRootPID[q] /\ byRootPID[q] \in Ids /\ byRootPID[q] # s
    BY <1>2, <1>5, Zenon DEF MInv, MTypeOK, RootIndexLive
  <2> QED  BY <1>6, <1>13, <2>1 DEF MInv, RootIndexLive, Known
<1>17. Known'
  <2>1. \A c \in CgroupIds : byCgroup'[c] # NoSession =>
          byCgroup'[c] = byCgroup[c] /\ byCgroup[c] \in Ids
    BY <1>2, <1>5, Zenon DEF MInv, MTypeOK
  <2>2. \A t \in Ids : /\ sess[t].state = "ended" => sess'[t].state = "ended"
                       /\ sess[t].state # "none" => sess'[t].state # "none"
    BY <1>3, <1>6, Zenon
  <2>3. \A c \in CgroupIds : byCgroup'[c] # NoSession =>
          byCgroup'[c] \in byID' \/ sess'[byCgroup'[c]].state = "ended"
    BY <1>13, <2>1, <2>2, Zenon DEF MInv, Known
  <2>4. \A t \in byID' : sess'[t].state # "none"
    BY <1>13, <2>2, Zenon DEF MInv, MTypeOK, Known
  <2> QED  BY <1>16, <2>3, <2>4, Zenon DEF Known
<1>18. HistoryOK'
  <2>1. CASE evict
    <3>1. history' = Tail(h) /\ byID' = byID \ {h[1]}
      BY <1>5, <1>10, <2>1, Zenon
    <3>2. \A i \in 1..Len(Tail(h)) : i + 1 \in 1..Len(h) /\ i + 1 # 1 /\ Tail(h)[i] = h[i + 1]
      BY <1>8, <1>10
    <3> HIDE DEF h
    <3>3. \A i \in 1..Len(Tail(h)) : sess'[Tail(h)[i]].state = "ended" /\ Tail(h)[i] \in byID'
      BY <1>9, <1>10, <3>1, <3>2
    <3>4. \A i, k \in 1..Len(Tail(h)) : Tail(h)[i] = Tail(h)[k] => i = k
      <4> SUFFICES ASSUME NEW i \in 1..Len(Tail(h)), NEW k \in 1..Len(Tail(h)),
                          h[i + 1] = h[k + 1]
                   PROVE  i = k
        BY <3>2, Zenon
      <4>1. i + 1 = k + 1
        BY <1>9, <3>2, Zenon
      <4> QED  BY <4>1, <1>10
    <3> QED  BY <3>1, <3>3, <3>4, Zenon DEF HistoryOK
  <2>2. CASE ~evict
    BY <1>5, <1>9, <2>2, Zenon DEF HistoryOK
  <2> QED  BY <2>1, <2>2, Zenon
<1>19. HistoryIsByID'
  <2>1. \A t \in Ids : sess'[t].state = "ended" =>
          (t \in byID <=> \E i \in 1..Len(h) : h[i] = t)
    BY <1>1, <1>6, <1>8 DEF MInv, HistoryIsByID
  <2>2. CASE ~evict
    BY <1>5, <1>11, <2>1, <2>2, Zenon DEF HistoryIsByID
  <2>3. CASE evict
    <3>1. \A t \in Ids : (\E i \in 1..Len(Tail(h)) : Tail(h)[i] = t)
                           <=> (\E i \in 1..Len(h) : i # 1 /\ h[i] = t)
      <4>1. ASSUME NEW t \in Ids, NEW i \in 1..Len(h), i # 1, h[i] = t
            PROVE  i - 1 \in 1..Len(Tail(h)) /\ Tail(h)[i - 1] = t
        BY <1>8, <1>10, <4>1
      <4>2. ASSUME NEW t \in Ids, NEW i \in 1..Len(Tail(h)), Tail(h)[i] = t
            PROVE  i + 1 \in 1..Len(h) /\ i + 1 # 1 /\ h[i + 1] = t
        BY <1>8, <1>10, <4>2
      <4> QED  BY Zenon, <4>1, <4>2
    <3>2. \A t \in Ids : sess'[t].state = "ended" =>
            (t \in byID' <=> \E i \in 1..Len(h) : i # 1 /\ h[i] = t)
      BY <1>5, <1>9, <1>10, <2>1, <2>3, Zenon
    <3> QED  BY <1>5, <1>11, <2>3, <3>1, <3>2, Zenon DEF HistoryIsByID
  <2> QED  BY <2>2, <2>3, Zenon
<1> QED  BY <1>12, <1>14, <1>15, <1>16, <1>17, <1>18, <1>19, Zenon DEF MInv

\* OnExit of a member that is not the root.
LEMMA MemberStep ==
  ASSUME MInv, NEW pid \in Pids, OnExitMember(pid)
  PROVE  MInv'
<1> DEFINE s == pidIndex[pid]
           m == WithoutMember(sess[s].members, pid)
           r == [sess[s] EXCEPT !.members = m]
           j == [IdleJob EXCEPT !.pc = "memberExit", !.gone = pid, !.sid = s]
<1>1. /\ s \in Ids /\ s \in byID /\ sess[s] \in Session /\ sess[s].state = "active"
      /\ sess[s].members \in [Pids -> Nat]
      /\ \A w \in Workers : Building(w) => job[w].sid # s
  BY ExitFinds, Zenon DEF OnExitMember
<1>2. m \in [Pids -> Nat] /\ \A q \in Pids : q # pid => m[q] = sess[s].members[q]
  BY <1>1 DEF WithoutMember
<1>3. r \in Session /\ r.state = "active" /\ r.root = sess[s].root /\ r.members = m
  BY <1>1, <1>2, Zenon DEF Session
<1>4. j \in Job /\ j.pc = "memberExit"
  BY <1>1, Zenon DEF IdleJob, Job, PCs
<1>5. /\ sess' = [sess EXCEPT ![s] = r] /\ pidIndex' = [pidIndex EXCEPT ![pid] = NoSession]
      /\ job' = [job EXCEPT ![Handler] = j]
      /\ UNCHANGED <<byID, byRootPID, byCgroup, history>>
  BY Zenon DEF OnExitMember
<1> HIDE DEF r, m, j
<1>6. sess' \in [Ids -> Session] /\ sess'[s] = r
      /\ \A t \in Ids : t # s => sess'[t] = sess[t]
  BY <1>1, <1>3, <1>5, Zenon DEF MInv, MTypeOK
<1>7. job' \in [Workers -> Job]
      /\ \A v \in Workers : job'[v] = job[v] \/ job'[v].pc = "memberExit"
  BY <1>4, <1>5, Zenon DEF MInv, MTypeOK, Workers
<1>8. MTypeOK'
  BY <1>5, <1>6, <1>7, Zenon DEF MInv, MTypeOK
<1>9. \A t \in Ids : sess'[t].state = sess[t].state /\ sess'[t].root = sess[t].root
  BY <1>1, <1>3, <1>6, Zenon
<1>10. Jobs'
  <2>1. \A v \in Workers : Building(v)' => job'[v] = job[v] /\ Building(v) /\ job[v].sid # s
    BY <1>1, <1>7, Zenon DEF Building
  <2>2. \A v \in Workers : job'[v].pc = "classify" => job'[v].ev \in Exec
    BY <1>7, Zenon DEF MInv, Jobs
  <2>3. \A v \in Workers : Building(v)' => sess'[job[v].sid] = sess[job[v].sid]
    BY <1>6, <2>1, Zenon DEF MInv, Jobs
  <2>4. Jobs
    BY Zenon DEF MInv
  <2>5. ASSUME NEW v \in Workers, Building(v)'
        PROVE  /\ job'[v].ev \in Exec /\ job'[v].sid \in Ids
               /\ sess'[job'[v].sid].state = "active"
               /\ sess'[job'[v].sid].root = job'[v].ev.pid
               /\ sess'[job'[v].sid].members[job'[v].ev.pid] > 0
               /\ job'[v].sid \notin byID'
    <3>1. job'[v] = job[v] /\ Building(v) /\ sess'[job[v].sid] = sess[job[v].sid] /\ byID' = byID
      BY <1>5, <2>1, <2>3, <2>5, Zenon
    <3> QED  BY <2>4, <3>1, Zenon DEF Jobs
  <2>6. \A v, u \in Workers : Building(v)' /\ Building(u)' /\ v # u => job'[v].sid # job'[u].sid
    <3> HIDE DEF Building
    <3> QED  BY <2>1, <2>4, Zenon DEF Jobs
  <2> QED  BY <2>2, <2>5, <2>6, Zenon DEF Jobs
<1>11. Known' /\ RootIndexLive'
  BY <1>5, <1>9 DEF MInv, MTypeOK, Known, RootIndexLive
<1>12. HistoryOK' /\ HistoryIsByID'
  <2>1. \A i \in 1..Len(history) : history[i] \in Ids
    BY DEF MInv, MTypeOK
  <2> QED  BY <1>5, <1>9, <2>1, Zenon DEF MInv, HistoryOK, HistoryIsByID
<1>13. PidIndexLive'
  <2> SUFFICES ASSUME NEW q \in Pids, pidIndex'[q] # NoSession
               PROVE  /\ sess'[pidIndex'[q]].state = "active" /\ pidIndex'[q] \in byID'
                      /\ sess'[pidIndex'[q]].members[q] > 0
    BY Zenon DEF PidIndexLive
  <2>1. q # pid /\ pidIndex'[q] = pidIndex[q] /\ pidIndex[q] \in Ids
    BY <1>5, Zenon DEF MInv, MTypeOK
  <2>2. /\ sess[pidIndex[q]].state = "active" /\ pidIndex[q] \in byID
        /\ sess[pidIndex[q]].members[q] > 0
    BY <2>1, Zenon DEF MInv, PidIndexLive
  <2>3. sess'[pidIndex[q]].members[q] = sess[pidIndex[q]].members[q]
    BY <1>2, <1>3, <1>6, <2>1, Zenon
  <2> QED  BY <1>5, <1>9, <2>1, <2>2, <2>3
<1> QED  BY <1>8, <1>10, <1>11, <1>12, <1>13, Zenon DEF MInv
-----------------------------------------------------------------------------
\* A critical section of the manager, or a callback's return, whatever the
\* callers' bounds.
Section ==
    \/ \E w \in Workers, e \in Exec : OnExecFold(w, e) \/ OnExec(w, e)
    \/ \E w \in Workers : \/ OnExecParent(w) \/ createSessionFold(w)
                          \/ (\E s \in Ids : createSession(w, s))
                          \/ (\E ok \in BOOLEAN : placeInCgroup(w, ok))
                          \/ createSessionIndex(w) \/ announce(w)
    \/ \E pid \in Pids : \/ \E adopt \in Pids : OnExitAdopt(pid, adopt)
                         \/ OnExitEnd(pid) \/ OnExitMember(pid)
    \/ exitCallback

\* The manager's own specification adds only bounds to its sections.
LEMMA NextIsSection == MNext => Section
  BY Zenon DEF MNext, Section

\* Every section keeps the invariant: one case per action.
LEMMA SectionInv == MInv /\ [Section]_mvars => MInv'
<1> SUFFICES ASSUME MInv, [Section]_mvars PROVE MInv'
  BY Zenon
<1>1. CASE UNCHANGED mvars
  BY <1>1, JobStep, Zenon DEF mvars, MInv, MTypeOK
<1>2. CASE \E w \in Workers, e \in Exec : OnExecFold(w, e) \/ OnExec(w, e)
  BY <1>2, OnExecStep, Zenon
<1>3. CASE \E w \in Workers : OnExecParent(w)
  BY <1>3, OnExecParentStep, Zenon
<1>4. CASE \E w \in Workers : createSessionFold(w)
  BY <1>4, CreateFoldStep, Zenon
<1>5. CASE \E w \in Workers, s \in Ids : createSession(w, s)
  BY <1>5, CreateStep, Zenon
<1>6. CASE \E w \in Workers, ok \in BOOLEAN : placeInCgroup(w, ok)
  BY <1>6, PlaceStep, Zenon
<1>7. CASE \E w \in Workers : createSessionIndex(w)
  BY <1>7, IndexStep, Zenon
<1>8. CASE (\E w \in Workers : announce(w)) \/ exitCallback
  BY <1>8, ReturnStep, Zenon DEF announce, exitCallback, Workers
<1>9. CASE \E pid, adopt \in Pids : OnExitAdopt(pid, adopt)
  BY <1>9, AdoptStep, Zenon
<1>10. CASE \E pid \in Pids : OnExitEnd(pid)
  BY <1>10, EndStep, Zenon
<1>11. CASE \E pid \in Pids : OnExitMember(pid)
  BY <1>11, MemberStep, Zenon
<1> QED
  BY <1>1, <1>2, <1>3, <1>4, <1>5, <1>6, <1>7, <1>8, <1>9, <1>10, <1>11, Zenon DEF Section

(* The inductive invariant holds in every reachable state of the manager.  *)
LEMMA MAlwaysInv == MSpec => []MInv
<1>1. MInv /\ [MNext]_mvars => MInv'
  BY SectionInv, NextIsSection, Zenon
<1> QED  BY <1>1, MInitInv, PTL DEF MSpec

(* Types: every index names a session id or nil, and the multiset of       *)
(* Members never goes below zero.                                          *)
THEOREM MTypeCorrect == MSpec => []MTypeOK
  BY MAlwaysInv, PTL DEF MInv

(* Whatever the interleaving of handleSyscalls and scanProc, a pid lookup  *)
(* returns only an active, known session that lists the pid.               *)
THEOREM PidIndexLiveAlways == MSpec => []PidIndexLive
  BY MAlwaysInv, PTL DEF MInv

(* The root index leads only to active sessions rooted at that very pid,   *)
(* also across root adoption.                                              *)
THEOREM RootIndexLiveAlways == MSpec => []RootIndexLive
  BY MAlwaysInv, PTL DEF MInv

(* byID keeps exactly the ended sessions of the bounded history, for every *)
(* historyMax including zero.                                              *)
THEOREM HistoryIsByIDAlways == MSpec => []HistoryIsByID
  BY MAlwaysInv, PTL DEF MInv

(* No operation writes to a session once it has ended.                     *)
LEMMA EndedStep ==
  ASSUME MInv, [Section]_mvars, NEW t \in Ids, sess[t].state = "ended"
  PROVE  sess'[t] = sess[t]
<1>1. CASE UNCHANGED sess
  BY <1>1, Zenon
<1>2. ASSUME NEW s \in Ids, sess[s].state = "active", NEW p \in Pids, addMemberLocked(s, p)
      PROVE  sess'[t] = sess[t]
  BY <1>2, AddMember DEF MInv
<1>3. ASSUME NEW s \in Ids, sess[s].state # "ended", NEW r, sess' = [sess EXCEPT ![s] = r]
      PROVE  sess'[t] = sess[t]
  BY <1>3, Zenon DEF MInv, MTypeOK
<1>4. ASSUME NEW w \in Workers, NEW e \in Exec, OnExecFold(w, e) PROVE sess'[t] = sess[t]
  <2>1. byCgroup[e.cgroup] \in Ids /\ sess[byCgroup[e.cgroup]].state = "active" /\ e.pid \in Pids
    BY <1>4, Zenon DEF OnExecFold, InManagedCgroup, Active, Exec, MInv, MTypeOK
  <2> QED  BY <1>2, <1>4, <2>1, Zenon DEF OnExecFold
<1>5. ASSUME NEW w \in Workers, OnExecParent(w) PROVE sess'[t] = sess[t]
  <2>1. job[w].ev \in Exec
    BY <1>5, Zenon DEF MInv, Jobs, OnExecParent
  <2> DEFINE p == job[w].ev.ppid
  <2>2. job[w].ev.pid \in Pids /\ p \in Pids \cup {NoPid}
    BY <2>1, Zenon DEF Exec
  <2>3. CASE p # NoPid /\ Active(pidIndex[p])
    <3>1. pidIndex[p] \in Ids /\ sess[pidIndex[p]].state = "active"
      BY <2>2, <2>3, Zenon DEF Active, MInv, MTypeOK
    <3> QED  BY <1>2, <1>5, <2>2, <2>3, <3>1, Zenon DEF OnExecParent
  <2>4. CASE ~(p # NoPid /\ Active(pidIndex[p]))
    BY <1>5, <2>4, Zenon DEF OnExecParent
  <2> QED  BY <2>3, <2>4, Zenon
<1>6. ASSUME NEW w \in Workers, createSessionFold(w) PROVE sess'[t] = sess[t]
  <2>1. job[w].ev \in Exec
    BY <1>6, Zenon DEF MInv, Jobs, createSessionFold
  <2> DEFINE e == job[w].ev
  <2>2. e.pid \in Pids /\ e.cgroup \in CgroupIds
    BY <2>1, Zenon DEF Exec
  <2>3. CASE Active(byRootPID[e.pid])
    BY <1>6, <2>3, Zenon DEF createSessionFold
  <2>4. CASE ~Active(byRootPID[e.pid])
    <3>1. byCgroup[e.cgroup] \in Ids /\ sess[byCgroup[e.cgroup]].state = "active"
      BY <1>6, <2>2, <2>4, Zenon DEF createSessionFold, InManagedCgroup, Active, MInv, MTypeOK
    <3> QED  BY <1>2, <1>6, <2>2, <2>4, <3>1, Zenon DEF createSessionFold
  <2> QED  BY <2>3, <2>4, Zenon
<1>7. ASSUME NEW w \in Workers, NEW s \in Ids, createSession(w, s) PROVE sess'[t] = sess[t]
  BY <1>7, Zenon DEF createSession, MInv, MTypeOK
<1>8. ASSUME NEW w \in Workers, createSessionIndex(w) PROVE sess'[t] = sess[t]
  <2>1. job[w].sid \in Ids /\ sess[job[w].sid].state = "active"
    BY <1>8, Zenon DEF createSessionIndex, MInv, Jobs, Building
  <2> QED  BY <1>3, <1>8, <2>1, Zenon DEF createSessionIndex, MInv, MTypeOK
<1>9. ASSUME NEW pid \in Pids,
             (\E adopt \in Pids : OnExitAdopt(pid, adopt)) \/ OnExitEnd(pid) \/ OnExitMember(pid)
      PROVE  sess'[t] = sess[t]
  <2>1. pidIndex[pid] \in Ids /\ sess[pidIndex[pid]].state = "active"
    BY <1>9, ExitFinds, Zenon DEF OnExitAdopt, OnExitEnd, OnExitMember
  <2> QED  BY <1>3, <1>9, <2>1, Zenon DEF OnExitAdopt, OnExitEnd, OnExitMember, MInv, MTypeOK
<1> QED
  BY Zenon, <1>1, <1>4, <1>5, <1>6, <1>7, <1>8, <1>9
  DEF Section, mvars, OnExec, placeInCgroup, announce, exitCallback

(* An ended session is never written again by any operation, at any point  *)
(* of any interleaving.                                                    *)
THEOREM EndedIsFinalAlways == MSpec => EndedIsFinal
<1>1. MInv /\ [MNext]_mvars =>
        [\A s \in Ids : sess[s].state = "ended" => sess'[s] = sess[s]]_mvars
  BY EndedStep, NextIsSection, Zenon
<1> QED  BY <1>1, MAlwaysInv, PTL DEF MSpec, EndedIsFinal
=============================================================================
