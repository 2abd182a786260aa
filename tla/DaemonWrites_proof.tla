-------------------------- MODULE DaemonWrites_proof --------------------------
(***************************************************************************)
(* What the daemon writes into the kernel's maps while the hooks read      *)
(* them.  The rules: what every reload and every late block keeps, for     *)
(* any policies.  The flag words and the posture: while neither a reload   *)
(* nor a registration writes the words, and ak_posture has room for the    *)
(* cgroup, a process that holds a secret cannot connect, whatever stale    *)
(* word the sweep or an action puts back.                                  *)
(***************************************************************************)
EXTENDS PolicyReload, SessionFlags, TLAPS

\* The maps agree with the loaded policy except while a reload replaces it.
Replacing == pc \in {"clear", "net", "install"}

ForceInv == ~Replacing => \A r \in KernelRules \ refused : r.map # "net" => r \in maps

\* What ClearRules will delete is named by a policy.
NamedInv ==
    /\ tracked \subseteq Named
    /\ \A r \in hand : r.map = "file" => KeyOf(r) \in Named
    /\ \A r \in hand : r.map = "net" => r.key \in Ips

\* An address observe has yet to deny has not expired.
GuardInv == \A ip \in guard : blocked[ip] = "fresh"

\* An egress deny the guard or a verdict answers for.
RunTime(r) ==
    \/ r.key \in Ips /\ blocked[r.key] # "none"
    \/ r.key \in evicting \cup late

\* By the time ClearRules is through, only those denies are left.
EgressInv == \A r \in maps : r.map = "net" =>
    \/ RunTime(r)
    \/ pc = "clear"
    \/ pc = "net" /\ r \in netKeys
    \/ ~Replacing /\ r \in KernelRules

PInv == PTypeOK /\ NamedInv /\ SelfKept /\ ForceInv /\ GuardInv /\ EgressInv

(* Every path entry a policy names has its key in Named.                    *)
LEMMA NamedKeys ==
    ASSUME NEW d \in Docs, NEW r \in d.kernel \cup d.late, r.map \in {"file", "dir"}
    PROVE  KeyOf(r) \in Named
BY DEF Named, TrackedKeys

(* The rules the engine holds are those of policies of Docs, so they are    *)
(* entries.                                                                 *)
LEMMA RulesTyped ==
    ASSUME PTypeOK
    PROVE  /\ KernelRules \subseteq Entry
           /\ LateRules \subseteq PathEntry \cup NetEntry
           /\ FQDNBlock \subseteq Ips
           /\ \A r \in KernelRules \cup LateRules :
                 \E d \in Docs : r \in d.kernel \cup d.late
<1>1. \A f \in LoadedFiles : loaded[f] \in Docs
  BY Zenon DEF PTypeOK, LoadedFiles
<1>2. \A d \in Docs : /\ d.kernel \subseteq Entry
                      /\ d.late \subseteq PathEntry \cup NetEntry
                      /\ d.fqdn \subseteq Ips
  BY ReloadAssumption, Zenon DEF DocType
<1> QED
  BY <1>1, <1>2, Zenon DEF KernelRules, LateRules, FQDNBlock

(* Entries of one map are told from those of another by the map field.      *)
LEMMA EntryFields ==
    /\ \A r \in Entry : r.map \in {"file", "dir", "net", "db"}
    /\ \A r \in Entry : r.map \in {"file", "dir"} => KeyOf(r) \in PathKey
    /\ \A r \in Entry : r.map = "net" <=> r \in NetEntry
    /\ \A r \in Entry : r.map = "file" => r \in PathEntry
    /\ \A r \in NetEntry : r.key \in Prefixes
    /\ \A r \in NetEntry : r.key \in Ips => r = ExactDeny(r.key)
    /\ \A ip \in Ips : /\ ExactDeny(ip) \in NetEntry
                       /\ ExactDeny(ip).map = "net" /\ ExactDeny(ip).key = ip
    /\ SelfRules \subseteq Entry
    /\ \A r \in SelfRules : r.map \in {"file", "dir"}
    /\ NetEntry \subseteq Entry /\ PathEntry \subseteq Entry
BY RuleMapsAssumption
   DEF Entry, PathEntry, NetEntry, DbEntry, KeyOf, PathKey, ExactDeny, SelfRules

\* The invariant holds of the maps startup begins with.
LEMMA InitInv == PInit => PInv
<1> SUFFICES ASSUME PInit PROVE PInv BY Zenon
<1> USE DEF PInit, RInit
<1>1. PTypeOK
  <2>1. dir \in [Files -> Docs \cup {Absent, Malformed, BadCidr}] BY Zenon
  <2>2. edits \in 0..MaxEdits /\ events \in 0..MaxEvents BY ReloadAssumption
  <2> QED BY <2>1, <2>2, Zenon DEF PTypeOK
<1>2. KernelRules = {} BY Zenon DEF KernelRules, LoadedFiles
<1>3. NamedInv /\ SelfKept BY Zenon DEF NamedInv, SelfKept
<1>4. ForceInv /\ GuardInv /\ EgressInv BY <1>2, Zenon DEF ForceInv, GuardInv, EgressInv
<1> QED BY <1>1, <1>3, <1>4, Zenon DEF PInv

(* Each action keeps the types.                                             *)
LEMMA TypeStep == PInv /\ [PNext]_pvars => PTypeOK'
<1> SUFFICES ASSUME PInv, [PNext]_pvars PROVE PTypeOK' BY Zenon
<1> USE DEF PInv, PTypeOK
<1> USE RulesTyped, EntryFields, ReloadAssumption
<1>1. CASE \E f \in Files, c \in Docs \cup {Absent, Malformed, BadCidr} : Edit(f, c)
  BY <1>1 DEF Edit, Watching, rvars, guardVars
<1>2. CASE watchEvent BY <1>2, Zenon DEF watchEvent, rvars, guardVars, missVars, boundVars
<1>3. CASE timerFires BY <1>3, Zenon DEF timerFires, rvars, guardVars, missVars, boundVars
<1>4. CASE watchDebounced BY <1>4, Zenon DEF watchDebounced, rvars, guardVars, missVars, boundVars
<1>5. CASE LoadPolicies
  <2>1. loaded' \in [Files -> Docs \cup {Absent}]
    <3>1. CASE CompileFails BY <1>5, <3>1, Zenon DEF LoadPolicies
    <3>2. CASE ~CompileFails
      <4>1. \A f \in Loadable : dir[f] \in Docs
        BY <3>2 DEF CompileFails, Loadable
      <4> QED BY <1>5, <3>2, <4>1 DEF LoadPolicies
    <3> QED BY <3>1, <3>2, Zenon
  <2> QED BY <1>5, <2>1, Zenon DEF LoadPolicies, Returned, rvars, guardVars, missVars, boundVars
<1>6. CASE clearStep
  BY <1>6, Zenon DEF clearStep, ClearRules, guardVars, missVars, boundVars
<1>7. CASE clearNetStep
  BY <1>7, Zenon DEF clearNetStep, ClearNet, guardVars, missVars, boundVars
<1>8. CASE installStep
  BY <1>8 DEF installStep, InstallRules, Accepted, TrackedKeys, Returned, guardVars, missVars, boundVars
<1>9. CASE bootStep
  BY <1>9, Zenon DEF bootStep, InstallSelfProtection, SelfRefused, guardVars, boundVars
<1>18. CASE ReadDirFails \/ watchAdd
  BY <1>18, Zenon DEF ReadDirFails, Returned, watchAdd, rvars, guardVars, missVars, boundVars
<1>10. CASE \E r \in Entry : evaluate(r)
  BY <1>10 DEF evaluate, HandlerFree, rvars, guardVars, watchVars, missVars
<1>11. CASE applyBlock
  BY <1>11 DEF applyBlock, NamedInv, addFileOp, BlockIP, rvars, guardVars, watchVars, missVars, boundVars
<1>12. CASE \E ip \in Ips : observe(ip)
  BY <1>12 DEF observe, HandlerFree, rvars, watchVars, missVars
<1>13. CASE observeBlock
  BY <1>13 DEF observeBlock, BlockIP, rvars, watchVars, missVars, boundVars
<1>14. CASE \E ip \in Ips : Expire(ip)
  BY <1>14 DEF Expire, rvars, watchVars, missVars, boundVars
<1>15. CASE sweep BY <1>15, Zenon DEF sweep, Forgotten, Evict, rvars, watchVars, missVars, boundVars
<1>16. CASE \E ip \in Ips : sweepUnblock(ip)
  BY <1>16 DEF sweepUnblock, UnblockIP, watchVars, missVars, boundVars
<1>17. CASE UNCHANGED pvars
  BY <1>17, Zenon DEF pvars, rvars, watchVars, guardVars, missVars, boundVars
<1> QED
  BY Zenon, <1>1, <1>2, <1>3, <1>4, <1>5, <1>6, <1>7, <1>8, <1>9, <1>10, <1>11, <1>12,
     <1>13, <1>14, <1>15, <1>16, <1>17, <1>18 DEF PNext, Watcher

(* The actions that touch neither the maps nor the loaded policy nor the    *)
(* handler's entry.                                                         *)
Aside ==
    \/ \E f \in Files, c \in Docs \cup {Absent, Malformed, BadCidr} : Edit(f, c)
    \/ watchEvent \/ timerFires \/ watchDebounced \/ ReadDirFails \/ watchAdd \/ UNCHANGED pvars

\* The file edits and the watcher's own steps touch no rule map.
LEMMA AsideStep ==
    Aside => /\ UNCHANGED <<maps, tracked, netKeys, loaded, booted, refused, hand,
                            guard, blocked, evicting, late, bare>>
             /\ pc' = pc \/ {pc, pc'} \cap {"clear", "net", "install"} = {}
BY DEF Aside, Edit, watchEvent, timerFires, watchDebounced, ReadDirFails, Returned, watchAdd, pvars, rvars,
       guardVars, missVars, watchVars

(* Self-protection is kept: what a reload deletes has a named key.          *)
LEMMA SelfStep == PInv /\ [PNext]_pvars => NamedInv' /\ SelfKept'
<1> SUFFICES ASSUME PInv, [PNext]_pvars PROVE NamedInv' /\ SelfKept' BY Zenon
<1> USE DEF PInv, NamedInv, SelfKept
<1>0. PTypeOK /\ maps \subseteq Entry /\ netKeys \subseteq NetEntry BY Zenon DEF PTypeOK
<1>a. \A r \in KernelRules \cup LateRules : r.map \in {"file", "dir"} => KeyOf(r) \in Named
  BY <1>0, RulesTyped, NamedKeys, Zenon
<1>1. CASE Aside BY <1>1, AsideStep
<1>2. CASE LoadPolicies BY <1>2, Zenon DEF LoadPolicies, rvars
<1>3. CASE clearStep
  BY <1>3, <1>0, EntryFields, Zenon DEF clearStep, ClearRules, Cleared, missVars
<1>4. CASE clearNetStep
  BY <1>4, <1>0, EntryFields, Zenon DEF clearNetStep, ClearNet, missVars
<1>5. CASE installStep
  <2>1. \A no : TrackedKeys(Accepted(KernelRules, no)) \subseteq Named
    BY <1>a, Zenon DEF TrackedKeys, Accepted
  <2> QED BY <1>5, <2>1, Zenon DEF installStep, InstallRules, missVars
<1>6. CASE bootStep BY <1>6, Zenon DEF bootStep, InstallSelfProtection
<1>7. CASE \E r \in Entry : evaluate(r)
  BY <1>7, <1>a DEF evaluate, rvars, watchVars, missVars
<1>8. CASE applyBlock
  BY <1>8, Zenon DEF applyBlock, addFileOp, BlockIP, rvars, watchVars, missVars
<1>9. CASE \E ip \in Ips : observe(ip) BY <1>9 DEF observe, rvars, watchVars, missVars
<1>10. CASE observeBlock BY <1>10, Zenon DEF observeBlock, BlockIP, rvars, watchVars, missVars
<1>11. CASE \E ip \in Ips : Expire(ip) BY <1>11 DEF Expire, rvars, watchVars, missVars
<1>12. CASE sweep BY <1>12, Zenon DEF sweep, rvars, watchVars, missVars
<1>13. CASE \E ip \in Ips : sweepUnblock(ip)
  BY <1>13, <1>0, EntryFields DEF sweepUnblock, UnblockIP, watchVars, missVars
<1> QED
  BY <1>1, <1>2, <1>3, <1>4, <1>5, <1>6, <1>7, <1>8, <1>9, <1>10, <1>11, <1>12,
     <1>13, Zenon DEF PNext, Watcher, Aside

(* Outside a reload the loaded rules stay in the maps: only egress denies   *)
(* are ever taken out there.                                                *)
LEMMA ForceStep == PInv /\ [PNext]_pvars => ForceInv'
<1> SUFFICES ASSUME PInv, [PNext]_pvars PROVE ForceInv' BY Zenon
<1> USE DEF PInv, ForceInv, Replacing, KernelRules, LoadedFiles
<1>0. PTypeOK /\ maps \subseteq Entry /\ netKeys \subseteq NetEntry BY Zenon DEF PTypeOK
<1>1. CASE Aside BY <1>1, AsideStep, Zenon
<1>2. CASE LoadPolicies BY <1>2, Zenon DEF LoadPolicies, rvars
<1>3. CASE clearStep BY <1>3, Zenon DEF clearStep
<1>4. CASE clearNetStep BY <1>4, Zenon DEF clearNetStep
<1>5. CASE installStep
  BY <1>5, Zenon DEF installStep, InstallRules, Accepted
<1>6. CASE bootStep BY <1>6, Zenon DEF bootStep, InstallSelfProtection
<1>7. CASE \E r \in Entry : evaluate(r) BY <1>7, Zenon DEF evaluate, rvars, watchVars
<1>8. CASE applyBlock
  BY <1>8, Zenon DEF applyBlock, addFileOp, BlockIP, rvars, watchVars
<1>9. CASE \E ip \in Ips : observe(ip) BY <1>9 DEF observe, rvars, watchVars
<1>10. CASE observeBlock BY <1>10, Zenon DEF observeBlock, BlockIP, rvars, watchVars
<1>11. CASE \E ip \in Ips : Expire(ip) BY <1>11 DEF Expire, rvars, watchVars
<1>12. CASE sweep BY <1>12, Zenon DEF sweep, rvars, watchVars
<1>13. CASE \E ip \in Ips : sweepUnblock(ip)
  BY <1>13, EntryFields DEF sweepUnblock, UnblockIP, watchVars
<1> QED
  BY <1>1, <1>2, <1>3, <1>4, <1>5, <1>6, <1>7, <1>8, <1>9, <1>10, <1>11, <1>12,
     <1>13, Zenon DEF PNext, Watcher, Aside

(* Every egress deny keeps an owner through reload, answer and eviction.    *)
LEMMA EgressStep == PInv /\ [PNext]_pvars => GuardInv' /\ EgressInv'
<1> SUFFICES ASSUME PInv, [PNext]_pvars PROVE GuardInv' /\ EgressInv' BY Zenon
<1> USE DEF PInv, GuardInv, EgressInv, RunTime, Replacing, KernelRules, LoadedFiles
<1>0. /\ PTypeOK /\ maps \subseteq Entry /\ netKeys \subseteq NetEntry
      /\ guard \subseteq Ips /\ blocked \in [Ips -> {"none", "fresh", "expired"}]
      /\ FQDNBlock \subseteq Ips
  BY RulesTyped, Zenon DEF PTypeOK
<1>1. CASE Aside BY <1>1, AsideStep
<1>2. CASE LoadPolicies BY <1>2 DEF LoadPolicies, Returned, rvars, guardVars
<1>3. CASE clearStep
  BY <1>3, Zenon DEF clearStep, ClearRules, guardVars
<1>4. CASE clearNetStep
  BY <1>4, Zenon DEF clearNetStep, ClearNet, guardVars
<1>5. CASE installStep
  BY <1>5, Zenon DEF installStep, InstallRules, Accepted, guardVars, Returned
<1>6. CASE bootStep
  BY <1>6, EntryFields DEF bootStep, InstallSelfProtection, guardVars
<1>7. CASE \E r \in Entry : evaluate(r) BY <1>7 DEF evaluate, rvars, watchVars, guardVars
<1>8. CASE applyBlock
  BY <1>8, EntryFields DEF applyBlock, NamedInv, addFileOp, BlockIP, rvars, watchVars, guardVars
<1>9. CASE \E ip \in Ips : observe(ip) BY <1>9, <1>0 DEF observe, rvars, watchVars
<1>10. CASE observeBlock
  BY <1>10, <1>0, EntryFields DEF observeBlock, BlockIP, rvars, watchVars
<1>11. CASE \E ip \in Ips : Expire(ip)
  <2>1. PICK ip \in Ips : Expire(ip) BY <1>11, Zenon
  <2>2. /\ ip \notin guard /\ blocked' = [blocked EXCEPT ![ip] = "expired"]
        /\ blocked[ip] = "fresh"
        /\ UNCHANGED <<maps, netKeys, pc, loaded, guard, evicting, late>>
    BY <2>1, Zenon DEF Expire, rvars, watchVars
  <2>3. \A i \in Ips : /\ i # ip => blocked'[i] = blocked[i]
                       /\ blocked[i] # "none" => blocked'[i] # "none"
    BY <1>0, <2>2, Zenon
  <2>4. GuardInv' BY <1>0, <2>2, <2>3, Zenon
  <2>5. \A r \in maps : RunTime(r) => RunTime(r)' BY <2>2, <2>3, Zenon
  <2>6. EgressInv'
    <3> HIDE DEF RunTime
    <3> QED BY <2>2, <2>5, Zenon
  <2> QED BY <2>4, <2>6, Zenon
<1>12. CASE sweep BY <1>12, <1>0 DEF sweep, Forgotten, Evict, rvars, watchVars
<1>13. CASE \E ip \in Ips : sweepUnblock(ip)
  BY <1>13, <1>0, EntryFields DEF sweepUnblock, UnblockIP, watchVars
<1> QED
  BY <1>1, <1>2, <1>3, <1>4, <1>5, <1>6, <1>7, <1>8, <1>9, <1>10, <1>11, <1>12,
     <1>13, Zenon DEF PNext, Watcher, Aside

\* The inductive invariant holds throughout.
LEMMA InvAlways == PSpec => []PInv
<1>1. PInit => PInv BY InitInv, Zenon
<1>2. PInv /\ [PNext]_pvars => PInv'
  BY TypeStep, SelfStep, ForceStep, EgressStep, Zenon DEF PInv
<1> QED BY <1>1, <1>2, PTL DEF PSpec

(* Type correctness of the rule maps and their writers.                     *)
THEOREM PTypeCorrect == PSpec => []PTypeOK
<1>1. PInv => PTypeOK BY Zenon DEF PInv
<1> QED BY <1>1, InvAlways, PTL

(* For every set of policies, files and own paths: no reload and no late    *)
(* block drops a self-protection entry that the kernel took and whose key   *)
(* no policy names (InstallSelfProtection, ClearRules).                     *)
THEOREM SelfKeptAlways == PSpec => []SelfKept
<1>1. PInv => SelfKept BY Zenon DEF PInv
<1> QED BY <1>1, InvAlways, PTL

(* Between reloads each path and table rule of the loaded policy is in the  *)
(* maps unless the kernel refused it (InstallRules, ClearRules).            *)
THEOREM RulesInForceAlways == PSpec => []RulesInForce
<1>1. PInv => RulesInForce BY Zenon DEF PInv, ForceInv, RulesInForce, Quiet, Replacing
<1> QED BY <1>1, InvAlways, PTL

(* Between reloads each egress deny belongs to the loaded policy, to a DNS  *)
(* answer in the guard's memory, to an eviction under way or to a verdict   *)
(* (observe, sweep, ClearRules, applyBlock).                                *)
THEOREM EgressOwnedAlways == PSpec => []EgressOwned
<1>1. PInv => EgressOwned
  BY Zenon DEF PInv, EgressInv, RunTime, EgressOwned, Quiet, Replacing
<1> QED BY <1>1, InvAlways, PTL
-----------------------------------------------------------------------------
(* The flag words and the posture.                                         *)

\* Every word there is enforces, and so does every word on its way.
WordsEnforce ==
    /\ "enforce" \in word[Cgroup]
    /\ \A k \in Keys : word[k] # {} => "enforce" \in word[k]
    /\ \A p \in Procs : hook[p].at = "pid" => "enforce" \in hook[p].flags
    /\ \A g \in Goroutines : rmw[g].op \in {"arm", "or"} => "enforce" \in rmw[g].cur \cup rmw[g].want

\* Once a secret is read the posture denies egress, and no Put outstanding
\* takes that back.
PostureHolds ==
    /\ secret # {} => "egress" \in posture
    /\ \A g \in Goroutines : rmw[g].op = "posture" => "egress" \in rmw[g].want

\* Neither a reload nor a registration is at work.
QuietShift == PostureKept /\ "handler" \notin shift

\* What every state satisfies, whoever is at work.
FIndInv == /\ FTypeOK
           /\ PostureKept => PostureHolds
           /\ QuietShift => WordsEnforce

\* Every state has the types the maps and the goroutines' locals have, with
\* no condition on which goroutines write (all of the daemon's writers).
LEMMA FlagTypeInit == FInit => FTypeOK
<1> USE FlagsAssumption
<1> SUFFICES ASSUME FInit PROVE FTypeOK
  BY Zenon
<1>1. NoHook \in Opens
  BY Zenon DEF NoHook, Opens
<1>2. NoWrite \in Writes
  BY Zenon DEF NoWrite, Keys, Writes
<1>3. Want \subseteq Bits
  BY Zenon DEF Want, Bits
<1>4. word \in [Keys -> SUBSET Bits]
  BY <1>3, Zenon DEF FInit
<1>5. hook \in [Procs -> Opens]
  BY <1>1, Zenon DEF FInit
<1>6. rmw \in [Goroutines -> Writes]
  BY <1>2, Zenon DEF FInit
<1>7. live \subseteq Procs /\ secret \subseteq live /\ posture \subseteq PostureBits
  BY Zenon DEF FInit, PostureBits
<1>8. denyCode \in BOOLEAN /\ owed \subseteq Procs /\ todo \subseteq Keys /\ shift \in Shifts
  BY Zenon DEF FInit
<1>9. forks \in 0..MaxForks /\ reloads \in 0..MaxReloads
  BY DEF FInit
<1>10. \A p \in Procs : hook[p].at = "none"
  BY Zenon DEF FInit, NoHook
<1> QED BY <1>4, <1>5, <1>6, <1>7, <1>8, <1>9, <1>10, Zenon DEF FTypeOK

\* The bits a word may hold, and the words the operators build.
LEMMA Words ==
    ASSUME FTypeOK
    PROVE  /\ Want \subseteq Bits
           /\ \A cur, want \in SUBSET Bits : \A code :
                ArmKey(cur, want, code) \in SUBSET Bits
           /\ \A k \in Keys, v \in SUBSET Bits : Stored(k, v) \in [Keys -> SUBSET Bits]
           /\ \A p \in Procs : ak_session_flags(p) \in SUBSET Bits
<1>1. Want \subseteq Bits
  BY Zenon DEF Want, Bits
<1>2. \A cur, want \in SUBSET Bits : \A code :
                ArmKey(cur, want, code) \in SUBSET Bits
  BY Zenon DEF ArmKey
<1>3. \A k \in Keys, v \in SUBSET Bits : Stored(k, v) \in [Keys -> SUBSET Bits]
  BY Zenon DEF Stored, FTypeOK
<1>4. \A p \in Procs : ak_session_flags(p) \in SUBSET Bits
  BY Zenon DEF ak_session_flags, FTypeOK, Keys
<1> QED BY <1>1, <1>2, <1>3, <1>4, Zenon

\* A Lookup by g leaves its record with the value read.
LEMMA LookupType ==
    ASSUME FTypeOK, NEW g \in Goroutines, NEW op \in {"arm", "or", "posture"}, NEW k \in Keys,
           NEW cur \in SUBSET Bits, NEW want \in SUBSET Bits,
           op = "posture" => cur \subseteq PostureBits /\ want \subseteq PostureBits,
           Lookup(g, op, k, cur, want)
    PROVE  rmw' \in [Goroutines -> Writes]
<1>1. [op |-> op, key |-> k, cur |-> cur, want |-> want] \in Writes
  BY Zenon DEF Writes
<1> QED BY <1>1, Zenon DEF Lookup, FTypeOK

\* Each step keeps the types.
LEMMA FlagTypeStep == FTypeOK /\ [FNext]_fvars => FTypeOK'
<1> SUFFICES ASSUME FTypeOK, [FNext]_fvars PROVE FTypeOK'
  BY Zenon
<1> USE FlagsAssumption
<1>0. NoHook \in Opens
  BY Zenon DEF NoHook, Opens
<1>1. \A p, c \in Procs, seen \in BOOLEAN : Fork(p, c, seen) => FTypeOK'
  <2> SUFFICES ASSUME NEW p \in Procs, NEW c \in Procs, NEW seen \in BOOLEAN, Fork(p, c, seen)
               PROVE FTypeOK'
    BY Zenon
  <2>1. word' \in [Keys -> SUBSET Bits]
    BY Words, Zenon DEF Fork, FTypeOK, Keys
  <2>2. live' \subseteq Procs /\ secret' \subseteq live' /\ forks' \in 0..MaxForks
    BY DEF Fork, FTypeOK
  <2> QED BY <2>1, <2>2, Zenon DEF Fork, FTypeOK, daemonVars
<1>2. ASSUME NEW p \in Procs, Exit(p) PROVE FTypeOK'
  BY <1>2 DEF Exit, FTypeOK, daemonVars, Keys, NoHook
<1>3. ASSUME NEW p \in Procs, fileOpen(p) PROVE FTypeOK'
  <2>1. [at |-> "pid", flags |-> ak_session_flags(p), posture |-> {}] \in Opens
    BY Words, Zenon DEF Opens
  <2> QED BY <1>3, <2>1, Zenon DEF fileOpen, FTypeOK, daemonVars
<1>4. ASSUME NEW p \in Procs, fileOpenPid(p) PROVE FTypeOK'
  <2>1. hook[p].flags \cup {"egress"} \in SUBSET Bits
    BY Zenon DEF FTypeOK, Bits, Opens
  <2>2. word' \in [Keys -> SUBSET Bits]
    BY <1>4, <2>1, Words, Zenon DEF fileOpenPid, Keys
  <2>3. hook' \in [Procs -> Opens]
    BY <1>4, Zenon DEF fileOpenPid, FTypeOK, Opens
  <2> QED BY <1>4, <2>2, <2>3, Zenon DEF fileOpenPid, FTypeOK, daemonVars
<1>5. ASSUME NEW p \in Procs, fileOpenPosture(p) PROVE FTypeOK'
  <2>1. p \in live
    BY <1>5, Zenon DEF fileOpenPosture, FTypeOK
  <2> QED BY <1>0, <1>5, <2>1, Zenon DEF fileOpenPosture, FTypeOK, daemonVars, PostureArmed, Opens, PostureBits
<1>6. ASSUME NEW g \in Goroutines, NEW k \in Keys, armKey(g, k) PROVE
        rmw' \in [Goroutines -> Writes]
        /\ UNCHANGED <<shift, kernelVars, word, posture>>
  <2>1. CASE NoPut(g)
    BY <2>1, Zenon DEF NoPut, FTypeOK
  <2>2. CASE Lookup(g, "arm", k, word[k], Want)
    <3>1. word[k] \in SUBSET Bits
      BY Zenon DEF FTypeOK
    <3>2. rmw' \in [Goroutines -> Writes]
      BY Zenon, <2>2, <3>1, Words, LookupType
    <3> QED BY <2>2, <3>2, Zenon DEF Lookup
  <2> QED BY <1>6, <2>1, <2>2, Zenon DEF armKey
<1>7. ASSUME NEW p \in Procs, Sweep(p) PROVE FTypeOK'
  BY <1>6, <1>7, Zenon DEF Sweep, FTypeOK, kernelVars, Keys
<1>8. ASSUME NEW p \in Procs, RegisterPID(p) PROVE FTypeOK'
  <2>1. CASE NoPut("handler")
    BY <1>8, <2>1, Zenon DEF RegisterPID, NoPut, FTypeOK, kernelVars
  <2>2. CASE Lookup("handler", "or", p, word[p], {"monitor"})
    <3>1. word[p] \in SUBSET Bits /\ {"monitor"} \in SUBSET Bits /\ p \in Keys
      BY Zenon DEF FTypeOK, Bits, Keys
    <3>2. rmw' \in [Goroutines -> Writes]
      BY <1>8, <2>2, <3>1, LookupType, Zenon DEF RegisterPID, Goroutines
    <3> QED BY <1>8, <2>2, <3>2, Zenon DEF RegisterPID, Lookup, FTypeOK, kernelVars
  <2> QED BY <1>8, <2>1, <2>2, Zenon DEF RegisterPID
<1>9. ASSUME NEW p \in Procs, EnforcePID(p) PROVE FTypeOK'
  BY <1>6, <1>9, Zenon DEF EnforcePID, FTypeOK, kernelVars, Keys
<1>10. ASSUME NEW p \in Procs, SetPidEgressDeny(p) PROVE FTypeOK'
  <2>1. word[p] \in SUBSET Bits /\ {"egress"} \in SUBSET Bits /\ p \in Keys
    BY Zenon DEF FTypeOK, Bits, Keys
  <2>2. rmw' \in [Goroutines -> Writes]
    BY <1>10, <2>1, LookupType, Zenon DEF SetPidEgressDeny, Goroutines
  <2> QED BY <1>10, <2>2, Zenon DEF SetPidEgressDeny, Lookup, FTypeOK, kernelVars
<1>11. ASSUME SetNetPosture PROVE FTypeOK'
  <2>1. posture \in SUBSET Bits /\ posture \cup {"egress"} \in SUBSET Bits /\ Root \in Keys
    BY Zenon DEF FTypeOK, Bits, PostureBits, Keys
  <2>3. posture \cup {"egress"} \subseteq PostureBits /\ posture \subseteq PostureBits
    BY Zenon DEF FTypeOK, PostureBits
  <2>2. rmw' \in [Goroutines -> Writes]
    BY <1>11, <2>1, <2>3, LookupType, Zenon DEF SetNetPosture, Goroutines
  <2> QED BY <1>11, <2>2, Zenon DEF SetNetPosture, Lookup, FTypeOK, kernelVars
<1>12. ASSUME NEW b \in BOOLEAN, SetDenyCode(b) PROVE FTypeOK'
  <2> DEFINE next == IF b THEN posture \cup {"code"} ELSE posture \ {"code"}
  <2>1. posture \in SUBSET Bits /\ next \in SUBSET Bits /\ Root \in Keys
    BY Zenon DEF FTypeOK, Bits, PostureBits, Keys
  <2>2. posture \subseteq PostureBits /\ next \subseteq PostureBits
    BY Zenon DEF FTypeOK, PostureBits
  <2>3. todo' \subseteq Keys /\ reloads' \in 0..MaxReloads /\ denyCode' \in BOOLEAN /\ owed' = owed
    BY <1>12 DEF SetDenyCode, FTypeOK, Keys
  <2>4. NoPut("watcher") \/ Lookup("watcher", "posture", Root, posture, next)
    BY <1>12, Zenon DEF SetDenyCode
  <2>5. rmw' \in [Goroutines -> Writes] /\ UNCHANGED <<shift, kernelVars, word, posture>>
    <3>1. CASE NoPut("watcher")
      BY <3>1, Zenon DEF NoPut, FTypeOK
    <3>2. CASE Lookup("watcher", "posture", Root, posture, next)
      <4> HIDE DEF next
      <4>1. rmw' \in [Goroutines -> Writes]
        BY <1>12, <2>1, <2>2, <3>2, LookupType, Zenon DEF SetDenyCode, Goroutines
      <4> QED BY <3>2, <4>1, Zenon DEF Lookup
    <3> QED BY <2>4, <3>1, <3>2, Zenon
  <2> QED BY <2>3, <2>5, Zenon DEF FTypeOK, kernelVars
<1>13. ASSUME NEW k \in Keys, EnforceSession(k) PROVE FTypeOK'
  BY <1>6, <1>13, Zenon DEF EnforceSession, FTypeOK, kernelVars
<1>14. ASSUME NEW g \in Goroutines, Put(g) PROVE FTypeOK'
  <2> DEFINE w == rmw[g]
  <2>1. w \in Writes
    BY Zenon DEF FTypeOK
  <2>2. w.key \in Keys /\ w.cur \in SUBSET Bits /\ w.want \in SUBSET Bits
        /\ (w.op = "posture" => w.want \subseteq PostureBits)
    BY <2>1, Zenon DEF Writes, Bits, PostureBits
  <2>3. /\ \A code : ArmKey(w.cur, w.want, code) \in SUBSET Bits
        /\ w.cur \cup w.want \in SUBSET Bits
    BY Zenon, <2>2, Words
  <2>4. /\ \A code : Stored(w.key, ArmKey(w.cur, w.want, code)) \in [Keys -> SUBSET Bits]
        /\ Stored(w.key, w.cur \cup w.want) \in [Keys -> SUBSET Bits]
    BY Zenon, <2>2, <2>3, Words
  <2>5. word' \in [Keys -> SUBSET Bits]
    <3>1. PICK code : word' = CASE w.op = "arm" -> Stored(w.key, ArmKey(w.cur, w.want, code))
                                [] w.op = "or" -> Stored(w.key, w.cur \cup w.want)
                                [] OTHER -> word
      BY <1>14, Zenon DEF Put
    <3> QED BY <2>4, <3>1, Zenon DEF FTypeOK
  <2>6. posture' \subseteq PostureBits
    BY <1>14, <2>2, Zenon DEF Put, FTypeOK
  <2>7. rmw' \in [Goroutines -> Writes]
    BY <1>14, Zenon DEF Put, FTypeOK, NoWrite, Writes, Keys
  <2> QED BY <1>14, <2>5, <2>6, <2>7, Zenon DEF Put, FTypeOK, kernelVars
<1>15. CASE UNCHANGED fvars
  BY <1>15, Zenon DEF fvars, kernelVars, daemonVars, FTypeOK
<1> QED BY <1>1, <1>2, <1>3, <1>4, <1>5, <1>7, <1>8, <1>9, <1>10, <1>11, <1>12, <1>13, <1>14, <1>15, Zenon
        DEF FNext

\* No step changes which goroutines are at work.
LEMMA ShiftFixed == [FNext]_fvars => shift' = shift
<1> SUFFICES ASSUME [FNext]_fvars PROVE shift' = shift
  BY Zenon
<1>1. ASSUME NEW g, NEW k, armKey(g, k) PROVE shift' = shift
  BY <1>1, Zenon DEF armKey, NoPut, Lookup
<1>2. ASSUME NEW p \in Procs, Exit(p) \/ fileOpen(p) \/ fileOpenPid(p) \/ fileOpenPosture(p)
      PROVE shift' = shift
  BY <1>2, Zenon DEF Exit, fileOpen, fileOpenPid, fileOpenPosture, daemonVars
<1>3. ASSUME NEW p \in Procs, Sweep(p) \/ RegisterPID(p) \/ EnforcePID(p) \/ SetPidEgressDeny(p)
      PROVE shift' = shift
  BY <1>1, <1>3, Zenon DEF Sweep, RegisterPID, EnforcePID, SetPidEgressDeny, NoPut, Lookup
<1>4. ASSUME NEW b \in BOOLEAN, SetDenyCode(b) \/ SetNetPosture PROVE shift' = shift
  BY <1>4, Zenon DEF SetDenyCode, SetNetPosture, NoPut, Lookup
<1>5. ASSUME NEW k \in Keys, EnforceSession(k) PROVE shift' = shift
  BY <1>1, <1>5, Zenon DEF EnforceSession
<1>6. ASSUME NEW g \in Goroutines, Put(g) PROVE shift' = shift
  BY <1>6, Zenon DEF Put
<1>7. ASSUME NEW p \in Procs, NEW c \in Procs, NEW seen \in BOOLEAN, Fork(p, c, seen)
      PROVE shift' = shift
  BY <1>7, Zenon DEF Fork, daemonVars
<1>8. CASE UNCHANGED fvars
  BY <1>8, Zenon DEF fvars, daemonVars
<1> QED BY <1>2, <1>3, <1>4, <1>5, <1>6, <1>7, <1>8, Zenon DEF FNext

\* The daemon's writes while PostureKept: an arm or an OR of a word leaves the
\* posture alone, and an action's Put of the posture has the egress bit.
LEMMA PostureStep ==
    ASSUME PostureKept, FTypeOK, PostureHolds, [FNext]_fvars PROVE PostureHolds'
<1> USE FlagsAssumption
<1>1. ASSUME \/ \E p, c \in Procs, seen \in BOOLEAN : Fork(p, c, seen)
             \/ \E p \in Procs : Exit(p) \/ fileOpen(p) \/ fileOpenPid(p)
             \/ UNCHANGED fvars
      PROVE PostureHolds'
  <2>1. UNCHANGED <<rmw, posture>> /\ (secret = {} => secret' = {})
    BY <1>1, Zenon DEF FTypeOK, Fork, Exit, fileOpen, fileOpenPid, fvars, kernelVars, daemonVars
  <2> QED BY <2>1, Zenon DEF PostureHolds
<1>2. ASSUME NEW p \in Procs, fileOpenPosture(p) PROVE PostureHolds'
  <2>1. "egress" \in posture'
    BY <1>2, Zenon DEF fileOpenPosture, PostureArmed, PostureKept
  <2> QED BY <1>2, <2>1, Zenon DEF PostureHolds, fileOpenPosture, daemonVars
<1>3. ASSUME NEW g \in Goroutines, NEW op \in {"arm", "or"}, NEW k, NEW cur, NEW want,
             NoPut(g) \/ Lookup(g, op, k, cur, want)
      PROVE PostureHolds'
  <2>1. UNCHANGED <<kernelVars, posture>> /\ op # "posture"
    BY <1>3, Zenon DEF NoPut, Lookup
  <2>2. \A h \in Goroutines : rmw'[h] = rmw[h] \/ rmw'[h].op = op
    <3>1. rmw' = rmw \/ rmw' = [rmw EXCEPT ![g] = [op |-> op, key |-> k, cur |-> cur, want |-> want]]
      BY <1>3, Zenon DEF NoPut, Lookup
    <3> QED BY <3>1 DEF FTypeOK
  <2> QED BY <2>1, <2>2, Zenon DEF PostureHolds, kernelVars
<1>4. ASSUME NEW p \in Procs, Sweep(p) \/ RegisterPID(p) \/ EnforcePID(p) \/ SetPidEgressDeny(p)
      PROVE PostureHolds'
  <2>1. \E g \in Goroutines, op \in {"arm", "or"} : \E cur, want : NoPut(g) \/ Lookup(g, op, p, cur, want)
    BY <1>4, Zenon DEF Sweep, RegisterPID, EnforcePID, SetPidEgressDeny, armKey, Goroutines
  <2> QED BY <1>3, <2>1, Zenon
<1>5. ASSUME SetNetPosture PROVE PostureHolds'
  BY <1>5 DEF PostureHolds, SetNetPosture, Lookup, FTypeOK, kernelVars
<1>6. ASSUME NEW g \in Goroutines, Put(g) PROVE PostureHolds'
  <2>1. \A h \in Goroutines : rmw'[h] = rmw[h] \/ rmw'[h] = NoWrite
    BY <1>6, Zenon DEF Put, FTypeOK
  <2> QED BY <1>6, <2>1 DEF PostureHolds, Put, kernelVars, NoWrite
<1>7. (\A b \in BOOLEAN : ~SetDenyCode(b)) /\ \A k \in Keys : ~EnforceSession(k)
  BY Zenon DEF PostureKept, SetDenyCode, EnforceSession
<1> QED BY <1>1, <1>2, <1>4, <1>5, <1>6, <1>7, Zenon DEF FNext

\* .. while QuietShift: only the sweep's arms and the actions' ORs.
LEMMA WordsStep ==
    ASSUME QuietShift, FTypeOK, WordsEnforce, [FNext]_fvars PROVE WordsEnforce'
<1> USE FlagsAssumption
<1>0. FTypeOK' /\ FTypeOK
  BY FlagTypeStep, Zenon
<1>a. "handler" \notin shift /\ "watcher" \notin shift
  BY Zenon DEF QuietShift, PostureKept
<1>w. "enforce" \in Want
  BY Zenon DEF Want
<1>f. \A p \in Procs : "enforce" \in ak_session_flags(p)
  BY Zenon DEF WordsEnforce, ak_session_flags, Keys
<1>1. ASSUME NEW p \in Procs, NEW c \in Procs, NEW seen \in BOOLEAN, Fork(p, c, seen)
      PROVE WordsEnforce'
  BY <1>0, <1>1, Zenon DEF WordsEnforce, Fork, Stored, FTypeOK, daemonVars, Keys
<1>2. ASSUME NEW p \in Procs, Exit(p) PROVE WordsEnforce'
  BY <1>0, <1>2, Zenon DEF WordsEnforce, Exit, FTypeOK, daemonVars, Keys
<1>3. ASSUME NEW p \in Procs, fileOpen(p) PROVE WordsEnforce'
  BY <1>0, <1>f, <1>3, Zenon DEF WordsEnforce, fileOpen, FTypeOK, daemonVars
<1>4. ASSUME NEW p \in Procs, fileOpenPid(p) PROVE WordsEnforce'
  <2>1. "enforce" \in hook[p].flags
    BY <1>4, Zenon DEF WordsEnforce, fileOpenPid
  <2>2. \A q \in Procs : hook'[q].at = "pid" => hook'[q] = hook[q]
    BY <1>0, <1>4, Zenon DEF fileOpenPid, FTypeOK
  <2> QED BY <1>0, <1>4, <2>1, <2>2, Zenon DEF WordsEnforce, fileOpenPid, Stored, FTypeOK, daemonVars, Keys
<1>5. ASSUME NEW p \in Procs, fileOpenPosture(p) PROVE WordsEnforce'
  BY <1>0, <1>5, Zenon DEF WordsEnforce, fileOpenPosture, FTypeOK, daemonVars, NoHook
<1>6. ASSUME NEW p \in Procs, Sweep(p) PROVE WordsEnforce'
  <2>1. NoPut("sweep") \/ Lookup("sweep", "arm", p, word[p], Want)
    BY <1>6, Zenon DEF Sweep, armKey
  <2>4. UNCHANGED <<kernelVars, word, posture>>
    BY <2>1, Zenon DEF NoPut, Lookup
  <2>5. ASSUME NEW h \in Goroutines
        PROVE  rmw'[h] = rmw[h] \/ (rmw'[h].op = "arm" /\ rmw'[h].want = Want)
    <3>1. CASE NoPut("sweep")
      BY <3>1, Zenon DEF NoPut
    <3>2. CASE Lookup("sweep", "arm", p, word[p], Want)
      BY <1>0, <3>2, Zenon DEF Lookup, FTypeOK
    <3> QED BY <2>1, <3>1, <3>2, Zenon
  <2> QED BY <1>w, <2>4, <2>5, Zenon DEF WordsEnforce, kernelVars
<1>7. ASSUME NEW p \in Procs, SetPidEgressDeny(p) PROVE WordsEnforce'
  <2>1. "enforce" \in word[p]
    BY <1>7, Zenon DEF WordsEnforce, SetPidEgressDeny, Keys
  <2> QED BY <1>0, <1>7, <2>1, Zenon DEF WordsEnforce, SetPidEgressDeny, Lookup, FTypeOK, kernelVars
<1>8. ASSUME SetNetPosture PROVE WordsEnforce'
  BY <1>0, <1>8, Zenon DEF WordsEnforce, SetNetPosture, Lookup, FTypeOK, kernelVars
<1>9. ASSUME NEW g \in Goroutines, Put(g) PROVE WordsEnforce'
  <2> DEFINE w == rmw[g]
  <2>1. w \in Writes /\ w.key \in Keys
    BY <1>0, Zenon DEF FTypeOK, Writes
  <2>2. w.op \in {"arm", "or"} =>
          /\ \A code : "enforce" \in ArmKey(w.cur, w.want, code)
          /\ "enforce" \in w.cur \cup w.want
    BY Zenon DEF WordsEnforce, ArmKey
  <2>3. \A h \in Goroutines : rmw'[h] = rmw[h] \/ rmw'[h] = NoWrite
    BY <1>0, <1>9, Zenon DEF Put, FTypeOK
  <2>4. \A k \in Keys : word'[k] = word[k] \/ "enforce" \in word'[k]
    <3>1. PICK code : word' = CASE w.op = "arm" -> Stored(w.key, ArmKey(w.cur, w.want, code))
                                [] w.op = "or" -> Stored(w.key, w.cur \cup w.want)
                                [] OTHER -> word
      BY <1>9, Zenon DEF Put
    <3> QED BY <1>0, <2>1, <2>2, <3>1, Zenon DEF Stored, FTypeOK
  <2>5. WordsEnforce'
    <3>1. "enforce" \in word'[Cgroup] /\ \A k \in Keys : word'[k] # {} => "enforce" \in word'[k]
      BY <2>4, Zenon DEF WordsEnforce, Keys
    <3>2. hook' = hook
      BY <1>9, Zenon DEF Put, kernelVars
    <3>3. \A h \in Goroutines : rmw'[h].op \in {"arm", "or"} =>
             "enforce" \in rmw'[h].cur \cup rmw'[h].want
      BY <2>3 DEF WordsEnforce, NoWrite
    <3> QED BY <3>1, <3>2, <3>3, Zenon DEF WordsEnforce
  <2> QED BY <2>5, Zenon
<1>10. CASE UNCHANGED fvars
  BY <1>0, <1>10, Zenon DEF WordsEnforce, fvars, kernelVars, daemonVars
<1>11. /\ \A p \in Procs : ~RegisterPID(p) /\ ~EnforcePID(p)
       /\ \A b \in BOOLEAN : ~SetDenyCode(b)
       /\ \A k \in Keys : ~EnforceSession(k)
  BY <1>a, Zenon DEF RegisterPID, EnforcePID, SetDenyCode, EnforceSession
<1>12. CASE FNext
  BY <1>1, <1>2, <1>3, <1>4, <1>5, <1>6, <1>7, <1>8, <1>9, <1>11, <1>12, Zenon DEF FNext
<1> QED BY <1>10, <1>12, Zenon

(* The flag words, the hooks in progress and the outstanding Puts of        *)
(* orFlags, armKey, SetPidEgressDeny and setPostureBit are well-typed.      *)
THEOREM FTypeCorrect == FSpec => []FTypeOK
<1>1. FInit => FTypeOK
  BY FlagTypeInit, Zenon
<1>2. FTypeOK /\ [FNext]_fvars => FTypeOK'
  BY FlagTypeStep, Zenon
<1> QED BY <1>1, <1>2, PTL DEF FSpec

(* With ak_posture never written back by a reload and with room in it, a    *)
(* process with a marked secret is refused every IPv4 and IPv6 connect but  *)
(* DNS by ak_lsm_socket_connect as long as its word says "enforce", and the *)
(* word does unless handleSyscalls registers, however the                   *)
(* read-modify-writes interleave.                                           *)
THEOREM SecretDeniedAlways == FSpec => []SecretDenied
<1>1. FInit => FIndInv
  <2> SUFFICES ASSUME FInit PROVE WordsEnforce /\ PostureHolds
    BY FlagTypeInit, Zenon DEF FIndInv
  <2>1. WordsEnforce
    BY FlagsAssumption, Zenon DEF FInit, WordsEnforce, Want, NoHook, NoWrite, Keys
  <2>2. PostureHolds
    BY Zenon DEF FInit, PostureHolds, NoWrite
  <2> QED BY <2>1, <2>2, Zenon
<1>2. FIndInv /\ [FNext]_fvars => FIndInv'
  <2> SUFFICES ASSUME FIndInv, [FNext]_fvars PROVE FIndInv'
    BY Zenon
  <2>1. FTypeOK'
    BY FlagTypeStep, Zenon DEF FIndInv
  <2>2. (PostureKept' => PostureKept) /\ (QuietShift' => QuietShift)
    BY ShiftFixed, Zenon DEF PostureKept, QuietShift
  <2> QED BY <2>1, <2>2, PostureStep, WordsStep, Zenon DEF FIndInv
<1>3. FIndInv => SecretDenied
  <2> SUFFICES ASSUME FIndInv, PostureKept, NEW p \in secret
               PROVE  /\ "enforce" \in ak_session_flags(p) => ConnectRefused(p, "inet")
                      /\ "handler" \notin shift => "enforce" \in ak_session_flags(p)
    BY Zenon DEF SecretDenied
  <2>1. "egress" \in posture
    BY Zenon DEF FIndInv, PostureHolds
  <2>2. p \in Keys
    BY Zenon DEF FIndInv, FTypeOK, Keys
  <2>3. "inet" # "dns" /\ "inet" # "other"
    OBVIOUS
  <2> QED BY <2>1, <2>2, <2>3, Zenon DEF FIndInv, QuietShift, WordsEnforce, ConnectRefused, ak_session_flags
<1> QED BY <1>1, <1>2, <1>3, PTL DEF FSpec
===============================================================================
