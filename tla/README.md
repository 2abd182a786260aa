# A TLA+ model of AgentKnox

AgentKnox watches and confines AI agents on a Linux host. Its BPF programs tag
the processes of an agent at birth, exec and exit and decide in LSM hooks what a
tagged process may do. A Go daemon turns the kernel's records into sessions,
arms and disarms the kernel's maps, and keeps them in step with a policy
directory; what it learns it writes to a log, streams to clients and forwards to
an aggregator. What can go wrong lies mostly between these parts: kernel and
daemon write the same maps without a common lock, tell each other of changes
through a ring that drops records, and outlive each other's view of a pid, a
cgroup, a file or a policy; and an event passes four queues and a disk before
anyone reads it. That is what is modelled here.

All source paths below are relative to the repository.

## Parts of the system

| Part | Source | Module | State |
|---|---|---|---|
| Kernel session membership | `bpf/process.bpf.c`, `bpf/enforcer.bpf.c` (arming half of `ak_lsm_bprm`), `bpf/helpers.bpf.h` | `KernelMembership` | all but `execveat` |
| Session manager | `internal/session/manager.go` | `SessionManager` | `OnExec`, `createSession`, `OnExit`, indexes |
| Onboarding, teardown, sweep, startup scan | `cmd/agentknox/daemon.go`, `internal/sensor/loader.go` | `AgentLifecycle` | exec and exit records |
| Rule maps | `internal/enforce/enforce.go` | `RuleMaps` | file, dir, net, table entries |
| Policy hot-reload, late Block verdicts | `cmd/agentknox/daemon.go` | `PolicyReload` | complete, the files being read in one step |
| DNS guard | `cmd/agentknox/dnsguard.go` | `PolicyReload` | complete |
| Flag words and posture | `internal/enforce/enforce.go`, `internal/sensor/loader.go`, `bpf/enforcer.bpf.c` | `SessionFlags` | all writers but teardown and onboarding |
| Path matching of the LSM hooks | `bpf/helpers.bpf.h`, `internal/enforce/enforce.go` | `PathRules` | whole and split paths |
| Provenance taint | `bpf/enforcer.bpf.c`, `internal/enforce/enforce.go`, `cmd/agentknox/daemon.go` | `Provenance` | write, rename, link, unlink, chmod, exec check |
| TLS, DNS and pipe capture | `bpf/semantic.bpf.c`, `bpf/network.bpf.c`, `bpf/stdio.bpf.c`, `internal/sensor/loader.go` | `WireCapture` | every probe with state |
| Database query block | `bpf/stdio.bpf.c`, `bpf/enforcer.bpf.c` | `QueryMatch`, `QueryBlock` | matcher, mark, `socket_sendmsg` |
| Exporter, write-ahead log, stream | `internal/export` | `Telemetry`, `LossyLog` | all but session snapshots |
| Forwarder, aggregator | `internal/forward`, `internal/aggregator` | `Telemetry` | all but the SQL store and queries |
| Policy verdicts, correlation, semantic sensor, tailer, archiver, userspace backend | `internal/policy`, `internal/correlate`, `internal/sensor`, `internal/rollout`, `internal/archive` | - | see the last section |
| TLS resolver, protocol parsers, configuration, generated code | `internal/resolver`, `internal/semantic`, `internal/config`, `protobuf`, `bpf/vmlinux.h` | - | see the last section |

`PROJECT.json` has the full list with the reason for each omission, the map from
definitions to source lines, and the hazards the properties are aimed at.

## Modules

Names of operations are those of the source. A module `X` has its instances for
TLC in `MCX`; the section on proofs says which module has its theorems. Definitions
that stand directly before a helper with a similar name and parameters
(`ExitKeysLeader` before `ExitKeys`) are wrong variants of it, kept to show that the
properties notice them.

**KernelMembership.** Tasks with a tid and a thread group, `pids` for `ak_session_pids`
and `sessions` for `ak_sessions`. A word is the set of its flags and the empty set is an
absent key. Actions: `ak_proc_fork` (which `ak_new_task` doubles),
`ak_proc_fork_thread`, `ForkUnseen` (a birth no hook sees, without the kprobe),
`ForkOutside`, `ak_execve` of any task at syscall entry, then `ak_lsm_bprm_allow` and
`ExecDone`, `ak_lsm_bprm_refuse` or `ExecFails`, and `ak_proc_exit`. A thread that execs
waits for the others of its group, the leader included, to exit, and takes over the
leader's number. Numbers are reused, and a full map refuses a new key. `tree` and `shed`
are history: who descends from an agent as far as a hook saw the births, and which
members have been without their leader task. In this module alone the daemon writes
nothing, so `ak_sessions` stays empty; `AgentLifecycle` adds those writes.

**SessionManager.** The sessions and the indexes `byID`, `byRootPID`,
`byCgroup`, `pidIndex` and `history`. One action is one critical section of
`Manager.mu`, so `createSession` is three (check, place, index) and
`handleSyscalls` and `scanProc` interleave between them; `job[w]` is where a
goroutine stands. The verdict of `classify` is part of the event.

**AgentLifecycle** extends both, with `Pids = Tids`. The kernel emits exec and exit
records into `ring`, which drops when full. `handleExec`, `registerExec`, `enforceExec`
and `handleExit` are `handleSyscalls`; `onNewSession`, `EnforceSession`,
`RegisterDescendants` and `armLiveDescendants` run as the callback of a new session,
`onSessionEnded` and `onMemberExit` as those of an exit, all outside the manager's lock.
`scanProc` is the startup scan and `reArmScan`, `reArm` the sweep, whose reading of
`/proc` and arming are separate steps. A pid is armed in two calls, `RegisterPids`
(MONITOR) and `EnforcePids`, with `half` between them. `thin` is history, the keys that
hooks copied from a word in between; `cut` too, the pids of sessions a thread's exit has
ended. Each call writes its words in one step; `SessionFlags` splits it.

**RuleMaps** and **PolicyReload.** An entry is one forbidden operation of one key.
`ClearRules` is two steps (path maps and table slots, then the trie keys its iteration
saw), because `BlockIP` and `UnblockIP` do not take the enforcer's lock. The daemon
starts with `LoadPolicies`, `bootStep` (self-protection) and `watchAdd`; edits come at
any time, and before `watchAdd` nobody hears of them. `missed` is history: the directory
was changed unwatched, or could not be listed, since it was last read. `bare` has the
self-protection entries the kernel refused. The watcher goes through event, timer,
one-place channel, `LoadPolicies`, `clearStep`, `clearNetStep`, `installStep`. The
handler decides (`evaluate`, `observe`) and installs (`applyBlock`, `observeBlock`) in
separate steps, and the guard's `sweep` forgets under its lock and unblocks after it. A
policy document is what it compiles to: kernel entries, run-time verdicts, blocked
addresses.

**SessionFlags.** One session in one cgroup. Each daemon write is a `Lookup` and a later
`Put` with the value read kept in `rmw`; the sensitive-read hook is `fileOpen`,
`fileOpenPid`, `fileOpenPosture`, and `ConnectRefused` is what `ak_lsm_socket_connect`
answers by destination: DNS and other address families pass, and a socket that is
connected stays so (`docs/threat-model.md:217-223`). `shift`, chosen at the start from
`Shifts`, says which of the daemon's writers run in a behaviour. `denyCode` is read
without a lock after the lookup, so `Put` may see its old or its new value.

**PathRules** is the algorithm by which the hooks match: `ak_forbidden` over a
path rendered by `bpf_d_path`, `ak_forbidden_split` over a parent and a name, and
`Forbidden`, what a rule set means. A key is the rendered path itself, as far as its
hash reads it: the daemon's `HashString` reads `HashMax` (256) bytes, the hooks the
whole path with a name cut at `AK_NAME_MAX`. The hash is taken to have no collisions.

**Provenance.** Names (`ent`), inodes, and the two taint maps: `pathTaint` for
`ak_taint_files`, `inoTaint` for `ak_taint_inode`. A write-open is five steps
(tracepoint, hook and lookup, path key, load, store), a rename or an exchange two, each
step a map access; the daemon's `TaintFile` and `TaintPersist` are `TaintLookup` and
`TaintPut` and learn of a write from an event emitted before it happens. `Evict` and
`Reclaim` are the LRU and the inode cache. A process outside the session only
renames. `wrote` and `named` are history.

**WireCapture.** One action per probe. A captured read is an entry probe that
stashes the caller's buffer under its thread and a return probe that reads it;
between them `RegisterPID`, `UnregisterPID`, `SetMcpArmed`, `EvictFd`, `Park`,
`Resume` and `Abandon` may happen. There are two kinds of return probe in the code:
those that test the session before they look at the stash (`ExitGated`) and those
that take the entry out first (`ExitTaking`). `suspect` is history: entries that
outlived their call. `work`, chosen at the start, says what a behaviour calls.
`ak_flags` is written by the kernel (`ak_connect`) and the daemon, each a read
and a later write in `rmw`.

**QueryMatch** is the matcher of outbound queries with its window and its four
slots, and `NamesTable` and `NamesCollection`, what it is meant to find. **QueryBlock** extends
`WireCapture`: `ak_stdio_write` and `ak_db_sendto` leave a mark for the process,
`ak_lsm_socket_sendmsg` of the same call consumes it; descriptors are closed and
reused while their marks stay.

**Telemetry.** An event is its number, which also stands for its time.
`enqueue`, `fanout`, `walLoop` are the exporter's goroutines; `AppendLine` and
`RotateAndAppend` are `append` with what `bufio` keeps back, a disk that fails in
the middle of a line, a flush or an open, and the retention of `pruneLocked`, which
may fail to list or to remove. A line that follows a piece of another is written 0.
`Recent` and `RecentReturns` are a replay call, whose read of the ring a `fanout` may
fall into (`raced`). `CloseStep` and `walClose` are `Close` in its order, `Crash` and
`Restart` lose what was not written; a `Restart` that cannot list the directory goes
on in segment 1, and `mishap` remembers it. `Gather`, `Tick`, `SendReturns`,
`ForwarderStops`, `SetTarget` are the forwarder, `Ingest`, `IngestLost`, `Prune` the
aggregator, which may still store a batch whose call has timed out. `setup`,
chosen at the start, says which of this a behaviour has.

**LossyLog** is what the audit trail promises, in two actions: events are
numbered as they are emitted, and the log moves by giving up oldest lines and
taking newer ones, in order and each once. `Telemetry` implements it with
`log <- Lines(disk)`, the whole lines of the segments in order; the refinement
is the property `AuditTrail`.

## Runs

Runs that hold. The type invariants of `KernelMembership`, `SessionManager`,
`PolicyReload` and `SessionFlags` are proved (`KTypeCorrect` and so on) and need no
run; `LTypeOK` contains the first two.

| Run | Properties | Distinct states | Shows |
|---|---|---|---|
| `kernel_tree` | `TreeArmed` `OnlyTreeArmed` `KeysBalanced` `NoUnarmedAgentFile` | 2.7M | the tag follows the agent's tree and nothing else, with pid reuse, execs of threads, births no hook sees and a full map |
| `session_index` | `PidIndexLive` `RootIndexLive` `HistoryIsByID` `EndedIsFinal` | 241k | indexes and history agree under every interleaving of handler and scan |
| `lifecycle` | `LTypeOK` `ActiveCgroupArmed` `CgroupKeyOwned` `SessionConfined` | 1.3M | teardown and onboarding in managed and, where the placement failed, shared cgroups, with adoption, threads and unseen births |
| `lifecycle_rearm` | `SweepRearms` `AgentRearmed` | 200k | the sweep arms descendants no hook saw; an agent that loses its key to a stale teardown gets it back, unless a thread's exit has ended its session |
| `reload` | `SelfKept` `RulesInForce` `EgressOwned` `ReloadConverges` | 1.9M | the maps hold what policy, guard or self-protection asks for, and no edit is lost in the debounce |
| `flags` | `SecretDenied` `WordsConverge` | 296k | a process with a secret is refused every connect but DNS despite stale words of the sweep, of registrations and of actions; words return to the policy after reloads, registrations and unseen births |
| `provenance` | `VTypeOK` `AliasRefused` `ColdRefused` `RulesMatch` | 3.2M | what the session wrote is refused to its execs under every name while the inode is cached, and under its recorded names afterwards; both forms of path match the rules |
| `capture` | `QTypeOK` `DnsOwn` `ReadOwn` `PayloadCarried` `DeniedRefused` `MarkConsumed` `WindowMatched` | 725k | a record is read from its own call's buffer and is not empty; a denied query of a single-threaded client is refused and its mark consumed; the matcher finds exactly the tables in its window and the collections of whole commands |
| `telemetry` | `TTypeOK` `NoSplice` `SegmentsBounded` `CloseFlushes` `RingNewest` `AtMostOnce` `SourcesAgree` `AuditTrail` `CloseEnds` | 826k | the log keeps `LossyLog`'s promise over crashes, restarts and disk errors until a start cannot list its directory; `Close` flushes and ends; replay, store and per-source counts are right |

Runs in which TLC finds the code to differ from what a comment or a document
says (each is a finding in `PROJECT.json`, with the quotation):

| Run | Property | What happens |
|---|---|---|
| `lifecycle_thread_exit` | `EndsWithRoot` | a thread's exit ends the session |
| `reload_self` | `SelfProtected` | a user rule on a protected path takes the protection with it |
| `dns_reload` | `DnsBlocked` | after a reload the guard believes an address denied that is not |

### Other statements that do not hold

The modules state more of what comments and documents say, each with its
quotation. These do not hold either, and they mark where the properties above
stop. To see the counterexample, name the property in a copy of the cfg with the
constants changed as given.

| Property | From cfg | Changes | What happens |
|---|---|---|---|
| `KeysAlwaysBalanced` | `kernel_tree` | `PidsMax = 3` | a leader exits first and its threads' keys stay |
| `NoUnarmedAgent` | `kernel_tree` | `PidsMax = 1` | with the map full, an agent known only by argv runs unarmed |
| `NoUnarmedAgentThread` | `kernel_tree` | none | a thread that is not the leader execs the agent: the leader exits after `ak_lsm_bprm` stored the key, `ak_proc_exit` deletes it, and the new image runs without one; the comment at `bpf/enforcer.bpf.c:183-184` says "refused at exec instead of started outside its own envelope" |
| `OneSessionPerRoot` | `session_index` | `ManageCgroup = FALSE` | scan and handler both create a session for one root |
| `LiveIndexesDropped` | `session_index` | none | `byCgroup` keeps the exec's cgroup of an ended session |
| `CgroupKeyOwned` | `lifecycle` | `ScanProc = {t1}`, `MaxExecs = 1`, `Threaded = FALSE`, `KprobeAttached = TRUE`, no symmetry | the scan's callback arms a session already torn down |
| `RootExitEnds` | `lifecycle` | `LFairSpec`, no symmetry, `Ids = {s1}`, `MaxBirths = 2`, `MaxExecs = 1`, rest as next line | a failed exec leaves a session nobody ends |
| `RegisterOpensNoWindow` | `lifecycle` | none | between `RegisterPID` and `EnforcePID` a new key says MONITOR only and shadows the cgroup's word, which `internal/sensor/loader.go:259-264` calls "a window in which a write-open or exec escapes" |
| `AgentRearmed` | `lifecycle_rearm` | `UnarmedAgent` without `\ cut` | a thread's exit has ended the session, its root's key is deleted, and the sweep has no session to re-arm |
| `ParentFold`, `TreeScoped` | `lifecycle` | `ManageCgroup = FALSE`, `Threaded = FALSE`, `KprobeAttached = TRUE` | `host_ppid` is zero, so no exec is folded by parent; an unrelated process of a shared cgroup gets a key |
| `ReloadAtomic`, `MalformedKeeps`, `NoStaleBlock` | `reload` | `Files = {y1}`, `Docs <- MCWideDocs`, `Refusable = {}` | unchanged rules are absent during a reload; a file that becomes malformed loses its rules; a verdict of the old policy is installed after the reload |
| `EditsLoaded` | `reload` | none | an edit between `applyPolicies` and `w.Add` is not seen until the next one, and a directory that cannot be listed is not read again |
| `DnsBlocked`, `StaticEgress` | `reload` | `Files = {y1}`, `Refusable = {}`, `MaxEdits = 0`, `Docs <- MCNamesDocs` or `MCBothDocs` | an answer between the sweep's two halves is undone by its unblock; an eviction deletes a cidr rule's entry |
| `SecretDenied` | `flags` | the property without its premise `PostureKept` | a reload's posture write erases the hook's arm |
| `SecretBarsAll` | `flags` | none | a connect to port 53 passes, and so do other address families; the comment at `bpf/enforcer.bpf.c:127` says "bars all subsequent egress" |
| `ArmKeepsBits`, `RegisterKeeps` | `flags` | none | a `Put` drops a bit stored after its `Lookup` |
| `SweepRearms` | `lifecycle_rearm` | `ManageCgroup = TRUE` | `readCgroupProcs` (`cmd/agentknox/daemon.go:365`) joins `/sys/fs/cgroup` to a path that has it, so the sweep of a managed cgroup reads nothing; the comment at line 278 says "Re-reading cgroup.procs and calling EnforcePID on each (idempotent) covers that" |
| `BitsAccumulate` | `provenance` | no symmetry | hook and daemon overwrite each other's word of a path, and the code bit is lost. Nor does a chmod add it: `MapSyscall` calls the record a read (`internal/bpf2frame/bpf2frame.go:152-161`), so the branch at `cmd/agentknox/daemon.go:929` is not reached |
| `RenameCarries` | `provenance` | no symmetry | a rename looks the taint up before a write stores it, an exchange copies one way only, and a long name is looked up cut off: the file is at a name without taint |
| `AllRulesMatch` | `provenance` | none | the daemon hashes 256 bytes of a rule's path and the hooks up to 1024, so a longer rule never matches; `bpf/helpers.bpf.h:100-101` says "Byte-identical" |
| `SplitIsWhole` | `provenance` | none | a name longer than the hook's buffer is hashed cut off |
| `RecordWhole` | `capture` | none | a TLS read as long as the buffer loses its last byte |
| `ReadUntouched` | `capture` | `MaxFlips = 4` | with the capture disarmed between the halves, a later unmarked read is paired with the stale entry |
| `GoMissed` | `capture` | none | a goroutine resumed on another thread takes that thread's entry |
| `AlwaysRefused` | `capture` | none | two threads share the mark of their process, and the wrong send is refused |
| `BitsKept` | `capture` | no symmetry | a bit of the control word is lost to a stale write |
| `ShortCollections` | `capture` | none | a message too short for the full width of a pattern is not searched, and a collection of less than four bytes is missed |
| `StreamsUnwind` | `telemetry` | none | `GracefulStop` waits for a connected stream, which only a later line of `Close` would end |
| `DeafEnds` | `telemetry` | none | when `Start` could not listen its loops never ran, and `Close` waits for them |
| `OnlyNewest` | `telemetry` | none | a start opens a segment and does not prune |
| `RecentGuarded` | `telemetry` | none | `recentEnvelopes` releases `s.mu` before `snapshot` reads the ring, and a push falls in between; `internal/export/ring.go:5-7` says "the Server guards it with s.mu" |
| `StartsAfresh`, `AlwaysTrail` | `telemetry` | none | `maxExistingSeq` answers 0 when it cannot list the directory, so the start appends to segment 1, in the middle of a line or before older ones; `internal/export/wal.go:40-42` says "restarts do not overwrite prior segments" |

`CgroupKeyOwned` in the run `lifecycle` thus speaks of the handler and the sweep
after startup, when the scan has finished.

Found while modelling and visible in the models, without a property of their own:

- A teardown deletes the keys of the pids its session lists
  (`cmd/agentknox/daemon.go:689-694`). A number listed from an earlier life may by then be
  the root of another session, which in an unmanaged cgroup stays without its own key
  until the sweep puts it back (`AgentRearmed`); the cgroup's word holds meanwhile
  (`SessionConfined`). It takes three tasks and three execs to get there.
- `ColdRefused` is for behaviours without a reload. While the policy does not ask
  for deny-tainted-code, `TaintPersist` may write back a word read before the hook
  set its bit.
- `README.md:225` says that every exported envelope is also appended to the log;
  `fanout` drops it when `walQueue` is full. `CloseFlushes` and `AuditTrail` speak
  of what was accepted.
- A handler that emits after `Close` has closed the queue panics before the log is
  flushed (`enqueue`, branch `Closed`). After one write error `bufio` takes no more
  lines, `written` no longer grows, so no rotation follows, and the log stands still
  until a restart (`Failed`).
- The forwarder's last flush uses the cancelled context and sends nothing.
- The matcher misses a one-byte table at the last offset of its window, and a
  collection of less than four bytes near the end of a message (`ShortCollections`).

### Bounds

- Three tasks in `KernelMembership` are a parent, a child and either a grandchild,
  a thread or a reused number; `PidsMax = 2` makes the third store fail, and
  `MaxInExec = 2` lets two execs be under way at once, of two processes or of two
  threads of one.
- Two pids and two session ids in `SessionManager` let two goroutines race for
  one pid, one session end while another starts, and, with `HistoryMax = 1`, the
  history overflow.
- `AgentLifecycle` has two tasks, `RingMax = 2`, and bounds births and execs
  (`MaxBirths`, `MaxExecs`); three births of two tasks force a reuse. For the
  liveness run one birth and one exec beside a scanned agent are enough for a
  child no hook saw, or for a reused number whose late teardown is still in the
  ring. `PidsMax = 4` exceeds the number of tasks: the full map is
  `KernelMembership`'s subject, and `ak_lsm_bprm_refuse` is exercised there only.
- `PolicyReload` has two files, two documents, two edits and two events, enough
  for an edit before the watch and one during a reload, and for an answer during a sweep.
- `SessionFlags` has two processes, one birth and one reload. The three `Shifts`
  pair the sweep with each other writer, since the races are between two.
- `Provenance` has two threads, two inodes and three names (one in the root, two in
  directories; `l` is longer than the hook's buffer, and `HashMax = 5` cuts the
  longest rule), three file operations and one event, eviction, reclaim and reload:
  a write racing a write, a rename or a chmod, then a look under the other name.
- `WireCapture` has two threads of one process and one of another, three calls, three
  daemon writes, two moves, and buffers of four bytes with payloads below and at that
  size. The matcher is compared with its reference at every offset around both
  ends of the window.
- `Telemetry` has six events (three with a forwarder), queues, ring, batches and
  segments of two, two segments kept, one restart, fault (a failing disk, a directory
  that cannot be listed, a removal that fails), stream, retarget and prune; a replay
  asks for up to two events, or for none and gets `DefaultLimit = 1`. Each queue
  overflows, the ring wraps, a rotation prunes, and a crash falls between any two steps.

Deadlock is not checked in the `lifecycle*`, `reload*`, `dns_reload`, `provenance`,
`capture` and `telemetry` runs: once births, execs, edits, calls and events are used
up and the daemon has caught up, or has been stopped, the modelled system has
nothing left to do. Symmetry is used in safety runs only.

### Fairness

Only the daemon's own steps are fair; agents, users and the network owe nothing.

- `LFairness`: weak fairness of `handleSyscalls`, of the startup scan and of a
  sweep that has read `/proc`, which are loops that block on nothing but their
  input. Strong fairness of `reArmScan(s)`: the ticker (1.5 s) visits every active
  session on each tick, while in the model the visits to two sessions disable
  each other for a step.
- `PFairSpec`: weak fairness of the goroutine that loads the policies at the start,
  adds the watch and then waits for events and its timer.
- `FFairSpec`: weak fairness of the second half of what a goroutine began; strong
  fairness of `Sweep(p)`, again for the ticker.
- `TFairSpec`: weak fairness of `fanout`, `walLoop`, `walClose`, `Exit` and, once the
  daemon is being stopped, of `CloseStep`: goroutines that block on nothing but
  their channels. No client is obliged to leave and no call to return, and nothing
  obliges anyone to stop the daemon, which is why `CloseEnds` asks that no stream be open.

## Proofs

TLAPS checks these for all values of the constants that satisfy the named
assumptions (`KernelAssumption`, `ManagerAssumption`, `LifecycleAssumption`,
`RuleMapsAssumption`, `ReloadAssumption`, `FlagsAssumption`, `ProvenanceAssumption`,
`PathsAssumption`, `WireAssumption`, `QueryAssumption`, `TelemetryAssumption`).

| Module | About | Theorems |
|---|---|---|
| `Membership_proof` | `KernelMembership` | `KTypeCorrect` `TreeArmedAlways` `OnlyTreeArmedAlways` `KeysBalancedAlways` `NoUnarmedAgentFileAlways` |
| | `SessionManager` | `MTypeCorrect` `PidIndexLiveAlways` `RootIndexLiveAlways` `HistoryIsByIDAlways` `EndedIsFinalAlways` |
| `AgentLifecycle_proof` | `AgentLifecycle` | `LTypeCorrect` `ActiveCgroupArmedAlways` `IndexesLive` `EndedStaysFinal` `SessionConfinedAlways` `CgroupKeyOwnedAlways` |
| `DaemonWrites_proof` | `PolicyReload` | `PTypeCorrect` `SelfKeptAlways` `RulesInForceAlways` `EgressOwnedAlways` |
| | `SessionFlags` | `FTypeCorrect` `SecretDeniedAlways` |
| `Provenance_proof` | `Provenance` | `VTypeCorrect` `AliasRefusedAlways` `ColdRefusedAlways` `RulesMatchAlways` |
| `QueryBlock_proof` | `WireCapture` with `QueryBlock` | `WIndAlways` `DnsOwnAlways` `ReadOwnAlways` `PayloadCarriedAlways` `QIndAlways` `DeniedRefusedAlways` `MarkConsumedAlways` `WindowMatchedAlways` `QTypeOKAlways` |
| `Telemetry_proof` | the log and the way to it | `TIndAlways` `NoSpliceAlways` `SegmentsBoundedAlways` `LogIndAlways` `BudgetAlways` |
| `TelemetryLog_proof` | the log as its readers see it, `Close` | `AuditTrailAlways` `CloseIndAlways` `CloseFlushesAlways` |
| `TelemetryDelivery_proof` | forwarder, store, ring, types | `ForwardIndAlways` `AtMostOnceAlways` `SourcesAgreeAlways` `RingIndAlways` `CallIndAlways` `RingNewestAlways` `TTypeCorrect` |

Two theorems have a hypothesis on the constants beside these. `CgroupKeyOwnedAlways` is
for a daemon that starts before every agent (`ScanProc = {}`), because the callback of
the startup scan can leave a key behind, and `DeniedRefusedAlways` is for table names of
at least two bytes and collections of at least four (`LongNamed`), because the matcher
misses shorter ones near an end. Each follows from an inductive invariant, with one case
per action.

- `KInv`. `KeysBalanced` is not inductive: the exit hook deletes a task's key only
  if its *group* is a member. `Keyed` adds that a task with a key has a leader
  with one. `Groups` and `Execing` say what thread groups and an exec in progress
  look like; `TreeKeyed` adds to `TreeArmed` that the leader's key is there at a fork.
  `CheckedKeyed` and `AgentFile` carry `NoUnarmedAgentFile` over an exec: a
  task the hook let through has a key, and so has the image it becomes, unless the
  process has been without its leader (`shed`), whose exit deletes the key. `Words` records that
  `ak_sessions` is empty without the daemon, so these theorems are about the
  kernel's hooks by themselves. Composed with the daemon, a shared cgroup does
  arm outsiders (`TreeScoped`).
- `MInv`. `Jobs` ties a goroutine between two lock sections to a session that is
  active and in no index, `Known` says which sessions the indexes know, and
  `HistoryOK` that the history lists ended sessions once each. `EndedIsFinal`
  is then a property of each step from `MInv`.
- `PInv`. Between the steps of a reload the maps agree with nothing, so `ForceInv`
  and `EgressInv` say for each position what is still to be deleted; `NamedInv`
  bounds what `ClearRules` may delete by what policies name, which keeps
  self-protection; `GuardInv` keeps an address from expiring before it is denied.
- `FIndInv`. `SecretDenied` is about behaviours without a reload in which `ak_posture`
  has room (`PostureKept`). The pid word may lose its bit to a stale `Put`, and the
  argument is that the posture then holds: `PostureHolds` says no outstanding posture
  write lacks the bit. Which connects that bars depends on the words: a process whose
  word enforces is refused. Without registrations (`QuietShift`) `WordsEnforce` says
  that no word, stored or on its way, fails to enforce. With a reload it fails.
- `LInv`. The composition has `MInv` and the kernel's types, and ties the callbacks to
  the sessions they run for. `ActiveCgroupArmed` alone is not inductive: between the
  manager's section that creates a session and the write of the cgroup's key another
  goroutine may end a session of the same cgroup and delete the key. `Callbacks` says
  which session a goroutine inside a callback holds, `ScanHeld` and `Announced` that a
  goroutine which already walks the descendants has written the key. Every step of the
  composition is first shown to be a section of the manager or to leave it alone
  (`Shape`), so what the sections do is proved once (`SectionEffect`). `OneOnboards`
  adds for `CgroupKeyOwned` that without a startup scan only the handler onboards,
  and then teardown and onboarding cannot overlap. `ShortKeys` says that a
  pid's key holds less than the signature's flags only while a goroutine is between
  `RegisterPID` and `EnforcePID` for it, or if a hook copied such a word (`thin`); with
  `ActiveCgroupArmed` it gives `SessionConfined`.
- `VInd`. `AliasRefused` is not inductive: a word loaded before another thread's store
  is written back after it. `CallsSound` says that a write-open past its lookup
  carries the bit itself, so whatever it writes back has it; `WrittenKept` that the
  storage of a written file has it; `MemfdApart` that no path leads to the memfd,
  which has no storage bit and is refused by name.
- `ColdInd`. The same question for the words kept by path, which hooks, a rename,
  `TaintFile` and `TaintPersist` all read and write back. `WritersHaveBit`: while no key
  is evicted and no policy swapped, each of them has the bit in hand whenever it is
  about to write; for `TaintPersist` this rests on `TaintFile` having run on the same
  path before, and for a rename on `RenameHas`: a file it carries had the bit when the
  hook looked, and its new name is hashed whole. `NamesLead` says that history's names
  lead where it says.
- `RulesMatch`, for rules that fit `HashMax`, needs no induction. `RenderedOnce`: two
  paths have one rendering only if they are the same; `AncestorRendered`: the bytes
  before a separator are the rendering of an ancestor; `SplitIsRendered`: the split key
  of a name that fits the buffer is the key of the whole path, in the root directory
  too.
- `WInd`. `Owned`: a stash entry is of the call its thread is in, or known to be left
  over; `Apart`: no two flows run on one thread; `DnsClean`: the DNS probes, which take
  the entry out before any test and pair system calls that always return, leave
  none. Invariant of `QSpec`, so with the query block's steps in between.
- `QInd`. `DueMarked`: a process of one thread that is in a denied send has its mark.
  `MatcherExact` shows for every query and every name of at least two bytes that the
  matcher sees it exactly when it lies in the window, `CollectionExact` the same of a
  collection after its command's framing; `MatcherFinds` joins the two.
- `TInd`. While every start has listed its directory (`Sighted`), `Behind`: no file has
  a number above the writer's, so `maxExistingSeq` exists (`LastExists`) and a restart
  opens a new file (`NextIsNew`); `Spliceless`: a piece of a line in the open segment
  has its rest in the buffer, or the writer takes no more. `PruneBounds` bounds what
  retention keeps by an injection into `0..MaxSegments - 1`.
- `LogInd`. There are numbers `a <= b <= c` such that what is in the files is at most `a`,
  what `bufio` holds lies between `a` and `b`, `walQueue` between `b` and `c`, and
  `queue` above `c`, each in rising order (`Between`), and the lines of a file precede
  those of the next. Every step moves the three numbers up. From it `TrailStep` shows
  that each step is one of `LossyLog` or changes nothing the log's readers see, which is
  the refinement `AuditTrail`. `FromTheOldest`: retention removes oldest files, also when
  it fails part of the way; the step of a start that listed nothing is excepted.
- `CloseInd`. `Held`: what fan-out handed to the log is on `walQueue`, in `bufio`'s
  buffer, in the files, or older than everything retention left; `StageInd`: the
  queues have run out in the order of `Close`. Together they give `CloseFlushes`.
- `ForwardInd` and `StoreInd`. There are numbers `f <= g <= c` such that what is stored or
  still under way is at most `f`, the batch being gathered lies between `f` and `g` and
  the forwarder's queue between `g` and `c` (`ForwardFlow`); batches under way share no
  event with each other or with the store (`Apart`). A restart empties the queues and
  keeps the bounds. The source's entry counts a finite set of records and has the
  newest time.
- `RingInd`. The `k`-th newest event is `k` places before the next one, modulo the size;
  `SnapshotPlace` is the index arithmetic of `snapshot`. With `CallInd` (a call asks for
  a positive number, 0 having become `DefaultLimit`) it gives `RingNewest` for every call
  that no push fell into.

Many leaves name Zenon. Those left to the SMT solver were also checked with one axiom of
the prover's encoding weakened: version 1.4.5 asserts `DOMAIN s = 1..n <=> Len(s) = n`
for every value `s`, though it holds for sequences only, and the models have
functions with other domains (the ring, the segments). No proof depends on it.

Only model-checked:

- The liveness properties `SweepRearms`, `AgentRearmed`, `ReloadConverges`,
  `WordsConverge` and `CloseEnds`: temporal reasoning under fairness is beyond the
  prover. Every invariant and every action property of a passing run is proved.

## Not modelled

Left out of modelled parts:

- `ak_execveat` emits a record and arms nothing; `KernelMembership` has `execve` only.
- Teardown's clearing of the posture (`cmd/agentknox/daemon.go:682-687`), the search
  for a free table slot, removal of managed cgroup directories.
- The sweep and the callbacks write a word in one step in `AgentLifecycle`. The policy
  watcher's `EnforceSession`, a third writer of a cgroup's key, is in `SessionFlags` only;
  so is the word's read and write as two steps. The record that the exec hook of the LSM
  emits (`bpf/enforcer.bpf.c:253`) leads to the same registration again and is left out.
  `SweepRearms`, `AgentRearmed` and `WordsConverge` are about unmanaged sessions; in a
  managed one the sweep arms nobody.
- A reload reads the policy files in one step. An edit during the read is followed by
  its event, hence by another reload.
- `path_chown`, `path_truncate` and `path_rmdir` use the helpers of `PathRules` and
  store nothing. The refusal of an enforced open whose path cannot be resolved, failing
  inode storage, hash collisions and the out-of-tree persistence record are left out.
- A full stash map is a read that is missed, which the models have for other
  reasons. The mark of a denied query is an LRU entry, whose eviction is left out;
  `ak_db_sendto`'s two reads of the control word are taken as one. Descriptor marks
  outlive a close in the code and in the model.
- Telemetry has one source, one stream and one kind of event. A crash is of the
  process, not of the machine (the code does not call `fsync`), an append meets at
  most one fault, and the errors of `json.Marshal` and of `f.Stat` on a segment just opened do
  not occur. `decrementSources` ignores the errors of its updates
  (`internal/aggregator/bolt.go:252-271`), which are taken not to occur; an error before it
  rolls the transaction back. What a `Recent` that races a push returns is any mixture
  of slots; the model records only that it raced.
- The MCP detector's candidates: only its writes to the maps are modelled.

Parts without a module:

- The policy engine's verdicts and the correlation engine are functions of strings,
  globs and scores behind one lock; abstracted to model values nothing is left that
  could be wrong. `PolicyReload` takes a document as what it compiles to.
- The semantic sensor's attachment depends on what the resolver finds in a
  binary; `WireCapture` begins where probes are attached.
- The transcript tailer, the archiver, the resolver and the protocol parsers read byte
  formats; what can go wrong there is in the bytes.
- The userspace backend is a fallback that acts after the event.
- `bpf/vmlinux.h` is a generated dump of the kernel's types, the protobuf packages are
  generated, configuration and command line hold no state.
