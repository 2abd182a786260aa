------------------------------ MODULE Provenance ------------------------------
(***************************************************************************)
(* The provenance of the files a session writes: ak_taint_files, keyed by  *)
(* path, and ak_taint_inode, the inode's local storage, as the file hooks  *)
(* of bpf/enforcer.bpf.c and the daemon's TaintFile and TaintPersist keep  *)
(* them.  The hooks of two CPUs and the daemon run at once and none of     *)
(* their read-modify-writes is atomic: each is taken in the steps in which *)
(* it touches the maps.  The LRU may evict a path key, the kernel may      *)
(* reclaim an inode and its storage with it, and a write reaches the       *)
(* daemon as an event its tracepoint emits when the call is entered.       *)
(*                                                                         *)
(* The session is in enforce mode.  A process outside it is not mediated;  *)
(* all it does here is rename.                                             *)
(***************************************************************************)
EXTENDS PathRules, FiniteSets

CONSTANTS
    Tasks,         \* threads of the session
    Paths,         \* names of files
    Anon,          \* what d_path yields for a memfd, "/memfd:"
    Inodes, NoInode,
    Shebang,       \* inodes that hasShebang, or their names' extension, calls code
    PersistPaths,  \* isPersistencePath
    RuleSets,      \* the rule sets a policy may install
    MatchRules,    \* rules to match paths against in every combination
    Trees,         \* what the names may lead to at the start
    MaxCalls,      \* bound: file operations
    MaxEvents,     \* bound: events in the ring
    MaxReclaims, MaxEvictions, MaxReloads

ASSUME ProvenanceAssumption ==
    /\ Anon \notin Paths /\ NoInode \notin Inodes
    /\ Trees \subseteq [Paths \cup {Anon} -> Inodes \cup {NoInode}]
    /\ \A e \in Trees : e[Anon] = NoInode
    /\ \A n \in {MaxCalls, MaxEvents, MaxReclaims, MaxEvictions, MaxReloads} : n \in Nat

ASSUME PathsAssumption ==
    /\ \A p \in Paths \cup {r.path : r \in MatchRules} : IsPath(p)
    /\ HashMax \in Nat

\* The keys of ak_taint_files: what the hooks that have the whole path, the
\* rename hook and the daemon make of a name.
Keys == UNION {{d_path(p), SplitKey(p), HashString(d_path(p))} : p \in Paths}

Taints == {"written", "code", "persist"}

VARIABLES
    ent,       \* ent[p]: the inode a name leads to
    execBit,   \* inodes with an execute permission
    maps,      \* ak_enforce_file and ak_enforce_dir
    wants,     \* the loaded policy asks for deny-tainted-code
    armed,     \* the kernel has it armed for the session
    pathTaint, \* ak_taint_files, {} when absent
    inoTaint,  \* ak_taint_inode, {} when absent
    call,      \* call[t]: the file operation t is in
    events,    \* file events on their way to handleSyscalls
    rmw,       \* TaintFile or TaintPersist between Lookup and Put; todo: to follow
    wrote,     \* history: cached inodes the session has written
    named,     \* history: <<p, i>>: the session wrote i as p, or renamed i, by then named, to p
    calls, reclaims, evictions, reloads

fsVars == <<ent, execBit, calls, reclaims>>
taintVars == <<pathTaint, inoTaint, evictions>>
ruleVars == <<maps, wants, armed, reloads>>
daemonVars == <<events, rmw>>
histVars == <<wrote, named>>
vvars == <<fsVars, taintVars, ruleVars, daemonVars, histVars, call>>

\* tv, iv: the words a hook holds; swap: RENAME_EXCHANGE; carries: history, the
\* pairs a rename adds to named.
NoCall == [op |-> "none", at |-> 0, path |-> <<>>, to |-> <<>>, ino |-> NoInode, tv |-> {}, iv |-> {},
           swap |-> FALSE, carries |-> {}]
NoWrite == [key |-> <<>>, cur |-> {}, bits |-> {}]
NoMark == [todo |-> <<>>, write |-> NoWrite]

VInit ==
    /\ ent \in Trees /\ execBit = {}
    /\ maps \in {Installed(rs) : rs \in RuleSets} /\ armed \in BOOLEAN /\ wants = armed
    /\ pathTaint = [k \in Keys |-> {}] /\ inoTaint = [i \in Inodes |-> {}]
    /\ call = [t \in Tasks |-> NoCall]
    /\ events = <<>> /\ rmw = NoMark
    /\ wrote = {} /\ named = {}
    /\ calls = 0 /\ reclaims = 0 /\ evictions = 0 /\ reloads = 0

FreeInode(i) == i \in Inodes /\ (\A p \in DOMAIN ent : ent[p] # i) /\ \A t \in Tasks : call[t].ino # i

\* The VFS holds the directories of a rename until it is over.
DirsLocked == \E t \in Tasks : call[t].op = "rename"

Counted == calls < MaxCalls /\ calls' = calls + 1
-----------------------------------------------------------------------------
(* A write-open.                                                           *)

\* ak_openat at entry; the record is lost when the ring is full.
RoomLate == Len(events) <= MaxEvents
Room == Len(events) < MaxEvents
Emit(op, p) ==
    events' = IF Room THEN Append(events, [op |-> op, path |-> p]) ELSE events

OpenEnter(t, p) ==
    /\ call[t] = NoCall /\ Counted
    /\ Emit("write", p)
    /\ call' = [call EXCEPT ![t] = [NoCall EXCEPT !.op = "write", !.at = 1, !.path = p]]
    /\ UNCHANGED <<ent, execBit, reclaims, rmw, taintVars, ruleVars, histVars>>

\* ak_taint_write, first part: the mode, and the path key as it is.
LookedUp(p, i) ==
    {"written"} \cup pathTaint[d_path(p)] \cup IF i \in execBit THEN {"code"} ELSE {}

\* ak_lsm_file_open of the file, created if it was not there: refused, or let
\* through, or on to the taint.
file_open_write(t) ==
    LET p == call[t].path IN
    /\ call[t].op = "write" /\ call[t].at = 1
    /\ ent[p] = NoInode => ~DirsLocked
    /\ \E i \in Inodes :
          /\ IF ent[p] = NoInode THEN FreeInode(i) ELSE i = ent[p]
          /\ ent' = [ent EXCEPT ![p] = i]
          /\ call' = [call EXCEPT ![t] =
                IF \/ ak_enforce_path(maps, p, "open") \/ ak_enforce_path(maps, p, "write")
                   \/ ~armed
                THEN NoCall
                ELSE [@ EXCEPT !.at = 2, !.ino = i, !.tv = LookedUp(p, i)]]
    /\ UNCHANGED <<execBit, calls, reclaims, taintVars, ruleVars, daemonVars, histVars>>

\* .. the path key is overwritten ..
taint_write_path(t) ==
    LET c == call[t] IN
    /\ c.op = "write" /\ c.at = 2
    /\ pathTaint' = [pathTaint EXCEPT ![d_path(c.path)] = c.tv]
    /\ named' = IF ent[c.path] = c.ino THEN named \cup {<<c.path, c.ino>>} ELSE named
    /\ call' = [call EXCEPT ![t].at = 3]
    /\ UNCHANGED <<inoTaint, evictions, wrote, fsVars, ruleVars, daemonVars>>

\* .. and the storage's word loaded and written back.
taint_write_load(t) ==
    /\ call[t].op = "write" /\ call[t].at = 3
    /\ call' = [call EXCEPT ![t].at = 4, ![t].iv = inoTaint[call[t].ino]]
    /\ UNCHANGED <<taintVars, histVars, fsVars, ruleVars, daemonVars>>

InodeKept(iv, tv) == iv
InodeTainted(iv, tv) == iv \cup tv

taint_write_inode(t) ==
    LET c == call[t] IN
    /\ c.op = "write" /\ c.at = 4
    /\ inoTaint' = [inoTaint EXCEPT ![c.ino] = InodeTainted(c.iv, c.tv)]
    /\ wrote' = wrote \cup {c.ino}
    /\ call' = [call EXCEPT ![t] = NoCall]
    /\ UNCHANGED <<pathTaint, evictions, named, fsVars, ruleVars, daemonVars>>
-----------------------------------------------------------------------------
(* Names.                                                                  *)

\* The name p of a file becomes q; or the two names change places.
Moved(p, q) ==
    [n \in DOMAIN ent |-> IF n = p THEN NoInode ELSE IF n = q THEN ent[p] ELSE ent[n]]
Swapped(p, q) ==
    [n \in DOMAIN ent |-> IF n = p THEN ent[q] ELSE IF n = q THEN ent[p] ELSE ent[n]]

\* History: what the session wrote and what it named, once names are e.
Alive(e, i) == \/ \E n \in DOMAIN e : e[n] = i
               \/ \E t \in Tasks : call[t].ino = i

\* Storage goes with an inode that has lost its last name and user.
Relinked(e, pairs) ==
    /\ ent' = e
    /\ inoTaint' = [i \in Inodes |-> IF Alive(e, i) THEN inoTaint[i] ELSE {}]
    /\ wrote' = {i \in wrote : Alive(e, i)}
    /\ named' = {x \in pairs : e[x[1]] = x[2]}
    /\ execBit' = {i \in execBit : Alive(e, i)}

\* A member's rename: ak_lsm_path_rename, which is called once for an exchange
\* as well, looks the old name's taint up, under the name as far as it fits ..
ShortNames(p, q) == Base(p) \notin LongNames /\ Base(q) \notin LongNames
rename_lookup(t, p, q, swap) ==
    /\ call[t] = NoCall /\ Counted /\ ~DirsLocked
    /\ ent[p] # NoInode /\ p # q /\ (swap => ent[q] # NoInode)
    /\ call' = [call EXCEPT ![t] =
          [NoCall EXCEPT !.op = "rename", !.at = 1, !.path = p, !.to = q, !.swap = swap,
                         !.tv = IF armed THEN pathTaint[SplitKey(p)] ELSE {},
                         !.carries = IF <<p, ent[p]>> \in named /\ ShortNames(p, q)
                                     THEN {<<q, ent[p]>>} ELSE {}]]
    /\ UNCHANGED <<ent, execBit, reclaims, taintVars, ruleVars, daemonVars, histVars>>

\* .. copies it to the new name, if there was any ..
NotCopied(tv, q) == pathTaint
Copied(tv, q) == IF tv = {} THEN pathTaint ELSE [pathTaint EXCEPT ![SplitKey(q)] = tv]

\* .. and answers; a rename it allows may still fail.
path_rename(t, ok) ==
    LET c == call[t] IN
    /\ c.op = "rename"
    /\ ok => ~ak_enforce_dentry(maps, c.path, "rename")
    /\ pathTaint' = Copied(c.tv, c.to)
    /\ call' = [call EXCEPT ![t] = NoCall]
    /\ IF ok
       THEN Relinked(IF c.swap THEN Swapped(c.path, c.to) ELSE Moved(c.path, c.to), named \cup c.carries)
       ELSE UNCHANGED <<ent, execBit, inoTaint, histVars>>
    /\ UNCHANGED <<calls, reclaims, evictions, ruleVars, daemonVars>>

\* The rename of a directory: a key for the directory itself there is none.
rename_dir(d, e) ==
    LET under(x) == {p \in Paths : Parent(p) = x}
        moved == [n \in DOMAIN ent |->
            IF n \in under(d) THEN NoInode
            ELSE IF n \notin under(e) THEN ent[n]
            ELSE LET from == Append(d, Base(n)) IN IF from \in Paths THEN ent[from] ELSE NoInode]
    IN
    /\ Counted /\ ~DirsLocked
    /\ \E p \in under(d) : ent[p] # NoInode
    /\ \A p \in under(e) : ent[p] = NoInode
    /\ ~ak_enforce_dentry(maps, d, "rename")
    /\ Relinked(moved, named)
    /\ UNCHANGED <<reclaims, pathTaint, evictions, ruleVars, daemonVars, call>>

\* A process outside the session renames: the hook returns at once.
rename_outside(p, q) ==
    /\ Counted /\ ~DirsLocked /\ ent[p] # NoInode /\ p # q
    /\ Relinked(Moved(p, q), named)
    /\ UNCHANGED <<reclaims, pathTaint, evictions, ruleVars, daemonVars, call>>

\* No hook mediates a hard link.
Link(p, q) ==
    /\ Counted /\ ~DirsLocked /\ ent[p] # NoInode /\ ent[q] = NoInode
    /\ ent' = [ent EXCEPT ![q] = ent[p]]
    /\ UNCHANGED <<execBit, reclaims, taintVars, ruleVars, daemonVars, histVars, call>>

path_unlink(p) ==
    /\ Counted /\ ~DirsLocked /\ ent[p] # NoInode
    /\ ~ak_enforce_dentry(maps, p, "delete")
    /\ Relinked([ent EXCEPT ![p] = NoInode], named)
    /\ UNCHANGED <<reclaims, pathTaint, evictions, ruleVars, daemonVars, call>>

\* chmod +x: ak_fchmodat emits at entry, a record without flags, which MapSyscall
\* calls a read; hook and change come later.
ChmodEnter(t, p) ==
    /\ call[t] = NoCall /\ Counted
    /\ Emit("read", p)
    /\ call' = [call EXCEPT ![t] = [NoCall EXCEPT !.op = "chmod", !.at = 1, !.path = p]]
    /\ UNCHANGED <<ent, execBit, reclaims, rmw, taintVars, ruleVars, histVars>>

path_chmod(t) ==
    LET p == call[t].path IN
    /\ call[t].op = "chmod"
    /\ execBit' = IF ent[p] = NoInode \/ ak_enforce_path(maps, p, "chmod") THEN execBit
                  ELSE execBit \cup {ent[p]}
    /\ call' = [call EXCEPT ![t] = NoCall]
    /\ UNCHANGED <<ent, calls, reclaims, taintVars, ruleVars, daemonVars, histVars>>

\* A memfd is written without an open.
MemfdCreate(i) ==
    /\ Counted /\ ent[Anon] = NoInode /\ FreeInode(i)
    /\ ent' = [ent EXCEPT ![Anon] = i]
    /\ wrote' = IF armed THEN wrote \cup {i} ELSE wrote
    /\ UNCHANGED <<execBit, reclaims, taintVars, ruleVars, daemonVars, named, call>>
-----------------------------------------------------------------------------
(* The daemon: handleSyscalls, with enforcer.mu held over Lookup and Put.  *)

hasExecBit(p) == ent[p] \in execBit
detectCode(p) == ent[p] \in Shebang \/ hasExecBit(p)

\* The OR-ing calls an event leads to, in order: those of a write; the branch for
\* a chmod no event reaches.  A path over HashMax is reported cut, and there is no
\* such file to look at.  (The control bit that TaintPersist arms as well is among
\* WireCapture's.)
Marks(e) ==
    LET key == HashString(d_path(e.path))
        code == Fits(e.path) /\ detectCode(e.path)
        file == <<[key |-> key, bits |-> {"written"} \cup IF code THEN {"code"} ELSE {}]>>
        persist == IF e.path \in PersistPaths THEN <<[key |-> key, bits |-> {"persist"}]>> ELSE <<>>
    IN  IF e.op = "write" THEN (IF wants THEN file ELSE <<>>) \o persist ELSE <<>>

\* The Lookup of the first of them; no Put follows when nothing is new.
Begun(marks) ==
    IF marks = <<>> THEN NoMark
    ELSE LET m == Head(marks) IN
         [todo |-> Tail(marks),
          write |-> IF m.bits \subseteq pathTaint[m.key] THEN NoWrite
                    ELSE [key |-> m.key, cur |-> pathTaint[m.key], bits |-> m.bits]]

\* handleSyscalls takes an event: detectCode looks at the file, and the first
\* call at its key ..
TakeEvent ==
    /\ rmw = NoMark /\ events # <<>>
    /\ rmw' = Begun(Marks(Head(events)))
    /\ events' = Tail(events)
    /\ UNCHANGED <<fsVars, taintVars, ruleVars, histVars, call>>

\* .. and then the second.
TaintLookup ==
    /\ rmw.write = NoWrite /\ rmw.todo # <<>>
    /\ rmw' = Begun(rmw.todo)
    /\ UNCHANGED <<events, fsVars, taintVars, ruleVars, histVars, call>>

Accumulated(cur, bits) == cur \cup bits

TaintPut ==
    /\ rmw.write # NoWrite
    /\ pathTaint' = [pathTaint EXCEPT ![rmw.write.key] = Accumulated(rmw.write.cur, rmw.write.bits)]
    /\ rmw' = [rmw EXCEPT !.write = NoWrite]
    /\ UNCHANGED <<events, inoTaint, evictions, fsVars, ruleVars, histVars, call>>

\* A hot-reload swaps the policy, and arms or disarms the kernel afterwards.
LoadPolicies ==
    /\ reloads < MaxReloads /\ reloads' = reloads + 1
    /\ wants = armed /\ wants' = ~wants
    /\ UNCHANGED <<maps, armed, fsVars, taintVars, daemonVars, histVars, call>>
SetTaintedCodePosture ==
    /\ armed # wants /\ armed' = wants
    /\ UNCHANGED <<maps, wants, reloads, fsVars, taintVars, daemonVars, histVars, call>>
-----------------------------------------------------------------------------
(* The host.                                                               *)

\* The LRU gives up a key.
Evict(k) ==
    /\ evictions < MaxEvictions /\ evictions' = evictions + 1
    /\ pathTaint[k] # {}
    /\ pathTaint' = [pathTaint EXCEPT ![k] = {}]
    /\ UNCHANGED <<inoTaint, fsVars, ruleVars, daemonVars, histVars, call>>

\* An inode leaves the cache and is read back from disk when next used.
Reclaim(i) ==
    /\ reclaims < MaxReclaims /\ reclaims' = reclaims + 1
    /\ inoTaint[i] # {} /\ ent[Anon] # i /\ \A t \in Tasks : call[t].ino # i
    /\ inoTaint' = [inoTaint EXCEPT ![i] = {}]
    /\ wrote' = wrote \ {i}
    /\ UNCHANGED <<ent, execBit, calls, pathTaint, evictions, named, ruleVars, daemonVars, call>>

Dirs == {Parent(p) : p \in Paths} \ {<<>>}

VNext ==
    \/ \E t \in Tasks :
          \/ \E p \in Paths : OpenEnter(t, p) \/ ChmodEnter(t, p)
          \/ file_open_write(t) \/ taint_write_path(t) \/ taint_write_load(t) \/ taint_write_inode(t)
          \/ \E p, q \in Paths, swap \in BOOLEAN : rename_lookup(t, p, q, swap)
          \/ \E ok \in BOOLEAN : path_rename(t, ok)
          \/ path_chmod(t)
    \/ \E d, e \in Dirs : d # e /\ rename_dir(d, e)
    \/ \E p, q \in Paths : rename_outside(p, q) \/ Link(p, q)
    \/ \E p \in Paths : path_unlink(p)
    \/ \E k \in Keys : Evict(k)
    \/ \E i \in Inodes : MemfdCreate(i) \/ Reclaim(i)
    \/ TakeEvent \/ TaintLookup \/ TaintPut \/ LoadPolicies \/ SetTaintedCodePosture

VSpec == VInit /\ [][VNext]_vvars
-----------------------------------------------------------------------------
\* ak_deny_taint of the file p names.
ak_deny_taint(p, want) ==
    /\ armed
    /\ want \in inoTaint[ent[p]] \cup IF p \in Paths THEN pathTaint[d_path(p)] ELSE {}

\* ak_lsm_bprm refuses a member's exec of p.
ExecRefused(p) ==
    \/ ak_enforce_path(maps, p, "exec")
    \/ ak_deny_taint(p, "written")
    \/ armed /\ p = Anon

\* Type: the keys hold taint bits, the ring is within its size, and named tells
\* of names that still lead to the inode.
VTypeOK ==
    /\ ent \in [Paths \cup {Anon} -> Inodes \cup {NoInode}]
    /\ execBit \subseteq Inodes /\ wrote \subseteq Inodes
    /\ wants \in BOOLEAN /\ armed \in BOOLEAN
    /\ pathTaint \in [Keys -> SUBSET Taints]
    /\ inoTaint \in [Inodes -> SUBSET Taints]
    /\ \A t \in Tasks : call[t].at \in 0..4 /\ call[t].tv \subseteq Taints
    /\ Len(events) <= MaxEvents /\ Len(rmw.todo) <= 1
    /\ \A x \in named : x[1] \in Paths /\ ent[x[1]] = x[2]

(* docs/related-work.md:76-78: taint is kept under the path hash and the    *)
(* inode, "so a rename or hard link does not produce an executable alias".  *)
(* Once the hook of a write-open is through, every name of the file is      *)
(* refused to the session's execs for as long as the inode stays cached,    *)
(* whatever is linked, renamed, evicted or written at the same time: no     *)
(* writer of the storage's word, though none is atomic, puts back a word    *)
(* without the bit.  A memfd, which has neither key, is refused by its name *)
(* (bpf/enforcer.bpf.c:43-84, 258-265).                                     *)
AliasRefused ==
    armed => \A p \in DOMAIN ent : ent[p] \in wrote => ExecRefused(p)

(* bpf/maps.bpf.h:103-111: the path-hash map "is retained because it        *)
(* survives inode-cache reload".  A file that went cold is still refused    *)
(* under the name the session wrote it by, and under the name a rename of   *)
(* the session gave it that began when the write's hook had stored the bit: *)
(* the writers of a path's word race, and every one of them leaves the bit  *)
(* in it.  Not said of: a key the LRU evicted; a policy a reload made ask   *)
(* otherwise (TaintPersist may then write back a word it read before the    *)
(* hook set the bit); a rename that looked the word up before a write still *)
(* under way stored its bit; a rename from or to a name over AK_NAME_MAX;   *)
(* and the file that an exchange moves the other way (RenameCarries)        *)
(* (bpf/enforcer.bpf.c:63-75, 384-406; internal/enforce/enforce.go:677-758).*)
ColdRefused ==
    armed /\ evictions = 0 /\ reloads = 0 => \A x \in named : ExecRefused(x[1])

(* bpf/enforcer.bpf.c:380-383: the rename hook moves the taint, for renaming *)
(* an agent-written file "would otherwise shed the taint".  Whatever file    *)
(* with a refused name a member's rename moves, its new name is refused.     *)
RenameCarries ==
    [][armed /\ evictions = 0 /\ reloads = 0 =>
          \A t \in Tasks, q \in Paths :
              (call[t].op = "rename" /\ call'[t] = NoCall /\ ent'[q] # ent[q]) =>
                  \A x \in named : ent'[q] = x[2] => "written" \in pathTaint'[d_path(q)]]_vvars

(* The hooks that have a whole path and the hooks that have a parent and a  *)
(* name give the same answer, and it is the one the rules ask for, for      *)
(* every combination of rules the daemon's hash reads to the end, on paths  *)
(* of any length, files of the root directory and the nodes of directories  *)
(* included; the second kind for names that fit AK_NAME_MAX                 *)
(* (bpf/helpers.bpf.h:97-208; internal/bpf2frame/bpf2frame.go:272-288;      *)
(* internal/enforce/enforce.go:254-279, 372-390).                           *)
MatchedPaths == Paths \cup Dirs \cup {r.path : r \in MatchRules}
Answered(rs) ==
    \A p \in MatchedPaths, op \in {r.op : r \in MatchRules} :
        /\ ak_enforce_path(Installed(rs), p, op) <=> Forbidden(rs, p, op)
        /\ Base(p) \notin LongNames =>
              (ak_enforce_dentry(Installed(rs), p, op) <=> Forbidden(rs, p, op))
RulesMatch == calls = 0 => \A rs \in SUBSET {r \in MatchRules : Fits(r.path)} : Answered(rs)

(* bpf/helpers.bpf.h:100-101: the hooks' hash is "Byte-identical to the Go   *)
(* HashString(), so kernel and userspace agree": for rules of any length.    *)
AllRulesMatch == calls = 0 => \A rs \in SUBSET MatchRules : Answered(rs)

(* bpf/helpers.bpf.h:126-129: the split hash is "byte-identical to the      *)
(* full-file-path hash [..] and to ak_fnv1a of a d_path result".            *)
SplitIsWhole == \A p \in Paths : SplitKey(p) = d_path(p)

(* internal/enforce/enforce.go:674-675: "Bits accumulate (a file written    *)
(* then chmod'd +x gains the code bit)": no step but an eviction takes one  *)
(* away.  (Nor does a chmod's event add one: see Marks.)                    *)
BitsAccumulate ==
    [][evictions' = evictions => \A k \in Keys : pathTaint[k] \subseteq pathTaint'[k]]_vvars
=============================================================================
