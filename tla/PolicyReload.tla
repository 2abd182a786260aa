----------------------------- MODULE PolicyReload -----------------------------
(***************************************************************************)
(* Who writes the rule maps: the policy directory and its hot-reload       *)
(* (applyPolicies and watchPolicies of cmd/agentknox/daemon.go), the       *)
(* per-event Block verdicts of the handler (act, applyBlock), and the      *)
(* dnsGuard, which turns DNS answers into egress denies and evicts them.   *)
(* Three goroutines run concurrently: the watcher, the handler, and the    *)
(* guard's sweep.                                                          *)
(***************************************************************************)
EXTENDS RuleMaps

CONSTANTS
    Files,      \* *.yaml files of the policy directory
    Docs,       \* policies a file may hold
    Absent,     \* no such file
    Malformed,  \* a file LoadFile rejects
    BadCidr,    \* a file that loads and then fails the compile
    Refusable,  \* entries the kernel may refuse, its map being full
    MaxEdits,   \* bound: changes of the policy directory
    MaxEvents   \* bound: verdicts and DNS answers the handler sees

\* kernel: entries deriveKernelRules compiles; late: entries a Block verdict
\* adds at run time; fqdn: addresses of names an fqdn rule blocks.
DocType == [kernel : SUBSET Entry, late : SUBSET (PathEntry \cup NetEntry),
            fqdn : SUBSET Ips]

ASSUME ReloadAssumption ==
    /\ Docs \subseteq DocType
    /\ Cardinality({Absent, Malformed, BadCidr}) = 3
    /\ {Absent, Malformed, BadCidr} \cap Docs = {}
    /\ Refusable \subseteq Entry
    /\ MaxEdits \in Nat /\ MaxEvents \in Nat

VARIABLES
    dir,        \* dir[f]: what file f holds
    loaded,     \* loaded[f]: the policy of f in Engine.rules, or Absent
    pc,         \* watcher: where applyPolicies stands
    booted,     \* Run has installed self-protection and started the goroutines
    event,      \* an fsnotify event waits
    timer,      \* the debounce timer runs
    debounced,  \* the debounced channel holds its one token
    refused,    \* entries the last InstallRules could not install
    hand,       \* {} or {e}: the entry the handler is about to install
    guard,      \* {} or {ip}: observe has recorded ip and not yet blocked it
    blocked,    \* dnsGuard.blocked: "none", "fresh" or "expired" per address
    evicting,   \* addresses sweep has forgotten and not yet unblocked
    late,       \* history: addresses denied by a verdict
    missed,     \* history: the directory has changed unseen, or could not be
                \* listed, since it was last loaded
    bare,       \* history: self-protection's entries that were not installed
    edits, events

watchVars == <<pc, booted, event, timer, debounced>>
guardVars == <<guard, blocked, evicting>>
missVars == <<missed, bare>>
boundVars == <<edits, events>>
pvars == <<rvars, dir, loaded, watchVars, refused, hand, guardVars, late, missVars, boundVars>>

\* Engine.kernelRules, and the verdicts of Engine.rules.
LoadedFiles == {f \in Files : loaded[f] # Absent}
KernelRules == UNION {loaded[f].kernel : f \in LoadedFiles}
LateRules   == UNION {loaded[f].late : f \in LoadedFiles}
FQDNBlock   == UNION {loaded[f].fqdn : f \in LoadedFiles}

PInit ==
    /\ RInit
    /\ dir \in [Files -> Docs \cup {Absent}]
    /\ loaded = [f \in Files |-> Absent]
    /\ pc = "load" /\ booted = FALSE
    /\ event = FALSE /\ timer = FALSE /\ debounced = FALSE
    /\ refused = {} /\ hand = {}
    /\ guard = {} /\ blocked = [ip \in Ips |-> "none"] /\ evicting = {}
    /\ late = {} /\ missed = FALSE /\ bare = {}
    /\ edits = 0 /\ events = 0
-----------------------------------------------------------------------------
(* The policy directory and the watcher.                                   *)

\* From w.Add on fsnotify reports changes; if that fails there is no watcher.
Watching == booted /\ pc \notin {"add", "ended"}

Edit(f, c) ==
    /\ edits < MaxEdits /\ edits' = edits + 1
    /\ c # dir[f]
    /\ dir' = [dir EXCEPT ![f] = c]
    /\ event' = Watching
    /\ missed' = (missed \/ (~Watching /\ pc # "load"))
    /\ UNCHANGED <<rvars, loaded, pc, booted, timer, debounced, refused, hand,
                   guardVars, late, bare, events>>

\* The select loop takes an event and (re)starts the timer.
watchEvent ==
    /\ booted /\ pc = "idle" /\ event
    /\ event' = FALSE /\ timer' = TRUE
    /\ UNCHANGED <<rvars, dir, loaded, pc, booted, debounced, refused, hand,
                   guardVars, late, missVars, boundVars>>

\* The timer fires: a non-blocking send into a channel of capacity one.
timerFires ==
    /\ timer
    /\ timer' = FALSE /\ debounced' = TRUE
    /\ UNCHANGED <<rvars, dir, loaded, pc, booted, event, refused, hand,
                   guardVars, late, missVars, boundVars>>

watchDebounced ==
    /\ booted /\ pc = "idle" /\ debounced
    /\ debounced' = FALSE /\ pc' = "load"
    /\ UNCHANGED <<rvars, dir, loaded, booted, event, timer, refused, hand,
                   guardVars, late, missVars, boundVars>>

\* Files LoadFile accepts.
Loadable == {f \in Files : dir[f] \notin {Absent, Malformed}}

\* Engine.Load fails, for all files, when one does not compile.
FailsOnAny == \E f \in Files : dir[f] \in {BadCidr, Malformed}
CompileFails == \E f \in Loadable : dir[f] = BadCidr

\* Where applyPolicies returns to.
Returned == IF booted THEN "idle" ELSE "self"

\* applyPolicies up to Engine.Load, which replaces the whole set or none of it.
LoadPolicies ==
    /\ pc = "load"
    /\ IF CompileFails
       THEN /\ pc' = Returned
            /\ UNCHANGED loaded
       ELSE /\ pc' = "clear"
            /\ loaded' = [f \in Files |-> IF f \in Loadable THEN dir[f] ELSE Absent]
    /\ missed' = FALSE
    /\ UNCHANGED <<rvars, dir, booted, event, timer, debounced, refused, hand,
                   guardVars, late, bare, boundVars>>

\* applyPolicies when os.ReadDir fails.
ReadDirFails ==
    /\ pc = "load" /\ pc' = Returned /\ missed' = TRUE
    /\ UNCHANGED <<rvars, dir, loaded, booted, event, timer, debounced, refused, hand,
                   guardVars, late, bare, boundVars>>

clearStep ==
    /\ pc = "clear" /\ ClearRules
    /\ pc' = "net"
    /\ UNCHANGED <<dir, loaded, booted, event, timer, debounced, refused, hand,
                   guardVars, late, missVars, boundVars>>

clearNetStep ==
    /\ pc = "net" /\ ClearNet
    /\ pc' = "install"
    /\ UNCHANGED <<dir, loaded, booted, event, timer, debounced, refused, hand,
                   guardVars, late, missVars, boundVars>>

installStep ==
    /\ pc = "install"
    /\ \E no \in SUBSET (KernelRules \cap Refusable) :
          InstallRules(KernelRules, no) /\ refused' = no
    /\ pc' = Returned
    /\ UNCHANGED <<dir, loaded, booted, event, timer, debounced, hand, guardVars,
                   late, missVars, boundVars>>

\* Run, after the first applyPolicies.
bootStep ==
    /\ pc = "self"
    /\ \E no \in SUBSET (SelfRules \cap Refusable) :
          InstallSelfProtection(no) /\ bare' = SelfRefused(no)
    /\ pc' = "add" /\ booted' = TRUE
    /\ UNCHANGED <<dir, loaded, event, timer, debounced, refused, hand, guardVars,
                   late, missed, boundVars>>

\* watchPolicies, up to its loop: fsnotify may not be available.
watchAdd ==
    /\ pc = "add" /\ pc' \in {"idle", "ended"}
    /\ UNCHANGED <<rvars, dir, loaded, booted, event, timer, debounced, refused, hand,
                   guardVars, late, missVars, boundVars>>
-----------------------------------------------------------------------------
(* The handler: Block verdicts and DNS answers, one event at a time.       *)

HandlerFree == booted /\ hand = {} /\ guard = {} /\ events < MaxEvents

\* EvaluateSyscall returns Block for an event that entry r describes.
evaluate(r) ==
    /\ HandlerFree /\ events' = events + 1
    /\ r \in KernelRules \cup LateRules
    /\ r.map = "file" \/ (r.map = "net" /\ r.key \in Ips)
    /\ hand' = {r}
    /\ UNCHANGED <<rvars, dir, loaded, watchVars, refused, guardVars, late, missVars, edits>>

\* act and applyBlock install what was decided; a path waits for mu.
applyBlock ==
    /\ \E r \in hand :
          \/ r.map = "file" /\ pc # "net" /\ addFileOp(r) /\ UNCHANGED late
          \/ r.map = "net" /\ BlockIP(r.key) /\ late' = late \cup {r.key}
          \/ r \in Refusable /\ UNCHANGED <<rvars, late>>
    /\ hand' = {}
    /\ UNCHANGED <<dir, loaded, watchVars, refused, guardVars, missVars, boundVars>>

\* observe: the expiry is set under the guard's lock, and an address that is
\* there already is taken to be denied already.
observe(ip) ==
    /\ HandlerFree /\ events' = events + 1
    /\ ip \in FQDNBlock
    /\ blocked' = [blocked EXCEPT ![ip] = "fresh"]
    /\ guard' = IF blocked[ip] = "none" THEN {ip} ELSE {}
    /\ UNCHANGED <<rvars, dir, loaded, watchVars, refused, hand, evicting, late, missVars, edits>>

observeBlock ==
    /\ \E ip \in guard : \/ BlockIP(ip)
                         \/ ExactDeny(ip) \in Refusable /\ UNCHANGED rvars
    /\ guard' = {}
    /\ UNCHANGED <<dir, loaded, watchVars, refused, hand, blocked, evicting, late,
                   missVars, boundVars>>

\* The expiry passes.  The least one, 40 seconds, is longer than observe takes.
Expire(ip) ==
    /\ blocked[ip] = "fresh" /\ ip \notin guard
    /\ blocked' = [blocked EXCEPT ![ip] = "expired"]
    /\ UNCHANGED <<rvars, dir, loaded, watchVars, refused, hand, guard, evicting,
                   late, missVars, boundVars>>

\* sweep: forget the expired under the lock ..
Forgotten == {ip \in Ips : blocked[ip] = "expired"}

EvictNone(S) == {}
Evict(S) == S

sweep ==
    /\ evicting = {} /\ Forgotten # {}
    /\ blocked' = [ip \in Ips |-> IF ip \in Forgotten THEN "none" ELSE blocked[ip]]
    /\ evicting' = Evict(Forgotten)
    /\ UNCHANGED <<rvars, dir, loaded, watchVars, refused, hand, guard, late, missVars, boundVars>>

\* .. and unblock them, one by one, after it.
sweepUnblock(ip) ==
    /\ ip \in evicting /\ UnblockIP(ip)
    /\ evicting' = evicting \ {ip}
    /\ UNCHANGED <<dir, loaded, watchVars, refused, hand, guard, blocked, late, missVars, boundVars>>
-----------------------------------------------------------------------------
Watcher == \/ watchEvent \/ timerFires \/ watchDebounced \/ LoadPolicies \/ ReadDirFails
           \/ clearStep \/ clearNetStep \/ installStep \/ bootStep \/ watchAdd

PNext ==
    \/ Watcher
    \/ \E f \in Files, c \in Docs \cup {Absent, Malformed, BadCidr} : Edit(f, c)
    \/ \E r \in Entry : evaluate(r)
    \/ \E ip \in Ips : observe(ip) \/ Expire(ip) \/ sweepUnblock(ip)
    \/ applyBlock \/ observeBlock \/ sweep

PSpec == PInit /\ [][PNext]_pvars

\* The watcher's goroutine and its timer run.
PFairSpec == PSpec /\ WF_pvars(Watcher)
-----------------------------------------------------------------------------
\* Type: the maps hold entries, and watcher, handler and guard are at one of
\* their steps.
PTypeOK ==
    /\ maps \subseteq Entry /\ tracked \subseteq PathKey /\ netKeys \subseteq NetEntry
    /\ dir \in [Files -> Docs \cup {Absent, Malformed, BadCidr}]
    /\ loaded \in [Files -> Docs \cup {Absent}]
    /\ pc \in {"idle", "load", "clear", "net", "install", "self", "add", "ended"}
    /\ booted \in BOOLEAN /\ event \in BOOLEAN /\ timer \in BOOLEAN
    /\ debounced \in BOOLEAN
    /\ refused \subseteq Entry /\ hand \subseteq PathEntry \cup NetEntry
    /\ guard \subseteq Ips /\ blocked \in [Ips -> {"none", "fresh", "expired"}]
    /\ evicting \subseteq Ips /\ late \subseteq Ips
    /\ missed \in BOOLEAN /\ bare \subseteq SelfRules
    /\ edits \in 0..MaxEdits /\ events \in 0..MaxEvents

\* Keys of the path maps some policy names.
Named == UNION {TrackedKeys(d.kernel \cup d.late) : d \in Docs}

(* Self-protection survives every reload as long as no policy names the     *)
(* protected path: neither the ClearRules of a reload nor a late block      *)
(* takes one of its entries out of the maps, but for those the kernel       *)
(* refused at the start (internal/enforce/enforce.go:246-283, 431-442).     *)
SelfKept == booted => \A r \in SelfRules \ bare : KeyOf(r) \in Named \/ r \in maps

(* internal/enforce/enforce.go:246-248: "Entries are tracked separately     *)
(* from user rules so a policy hot-reload (ClearRules) never drops          *)
(* self-protection."                                                        *)
SelfProtected == booted => SelfRules \subseteq maps

\* No reload is under way.
Quiet == booted /\ pc \in {"idle", "add", "ended"}

(* Between reloads every path and table rule of the loaded policy is in the *)
(* kernel's maps, except those the kernel refused, whatever was refused     *)
(* before them, and also after a reload that failed to compile and kept the *)
(* previous set (internal/enforce/enforce.go:312-316, 431-477;              *)
(* cmd/agentknox/daemon.go:1317-1329).                                      *)
RulesInForce ==
    Quiet => \A r \in KernelRules \ refused : r.map # "net" => r \in maps

(* Between reloads every egress deny has an owner that will let it go: a    *)
(* rule of the loaded policy, a DNS answer the guard still remembers or is  *)
(* just evicting, or a Block verdict.  A removed policy and a lapsed TTL    *)
(* leave no deny behind (internal/enforce/enforce.go:443-466;               *)
(* cmd/agentknox/dnsguard.go:53-116).                                       *)
EgressOwned ==
    Quiet => \A r \in maps : r.map = "net" =>
        \/ r \in KernelRules
        \/ r.key \in Ips /\ blocked[r.key] # "none"
        \/ r.key \in evicting \cup late

(* docs/workflow.md:263: on change the rules are "clear and reinstall       *)
(* atomically": no step takes out an entry that the loaded policy had and   *)
(* still has.                                                               *)
ReloadAtomic ==
    [][\A r \in maps : r \in KernelRules \cap KernelRules' => r \in maps']_pvars

(* getting-started/configuration.md:117: "A malformed file is logged with   *)
(* `policy load` and skipped, and the previously valid rule set stays in    *)
(* force."                                                                  *)
MalformedKeeps ==
    [][\A f \in Files : dir[f] = Malformed /\ loaded[f] # Absent
                           => loaded'[f] = loaded[f]]_pvars

(* getting-started/quickstart.md:216: a removed policy is "hot-reloaded     *)
(* away": between reloads the path maps hold nothing but self-protection    *)
(* and what the loaded policy blocks.                                       *)
NoStaleBlock ==
    Quiet => \A r \in maps : r.map = "file" => r \in SelfRules \cup KernelRules \cup LateRules

(* getting-started/configuration.md:191: DNS answers "install the resolved  *)
(* IPs into the kernel egress deny map, evicted when their TTL lapses": an  *)
(* address of a blocked name whose TTL has not lapsed is denied.            *)
DnsBlocked ==
    Quiet => \A ip \in FQDNBlock :
        blocked[ip] = "fresh" /\ ip \notin guard \cup evicting => ExactDeny(ip) \in maps

(* getting-started/configuration.md:190: a cidr rule is "Compiled into the  *)
(* kernel egress deny map (an LPM trie) for pre-blocking": between reloads  *)
(* the denies of the loaded policy are in the trie.                         *)
StaticEgress ==
    Quiet => \A r \in KernelRules \ refused : r.map = "net" => r \in maps

\* What the directory asks for, as far as it loads.
Wanted == [f \in Files |-> IF f \in Loadable THEN dir[f] ELSE Absent]

(* A change of the policy directory is never lost between the events, the   *)
(* restarted timer and the one-place channel: once the edits stop, the      *)
(* loaded policy becomes, and stays, what the directory holds, unless it    *)
(* does not compile, could not be listed, or has changed since applyPolicies *)
(* while nothing watched it (cmd/agentknox/daemon.go:1298-1320, 1351-1390). *)
ReloadConverges ==
    <>[](loaded = Wanted \/ missed \/ \E f \in Files : dir[f] = BadCidr)

(* Does not hold: every change of the directory is loaded, also one between *)
(* Run's applyPolicies and the watcher's w.Add, and every reload lists it.  *)
EditsLoaded == <>[](loaded = Wanted \/ \E f \in Files : dir[f] = BadCidr)
=============================================================================
