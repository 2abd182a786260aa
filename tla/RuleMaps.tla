------------------------------- MODULE RuleMaps -------------------------------
(***************************************************************************)
(* The kernel's rule maps as internal/enforce/enforce.go keeps them:       *)
(* ak_enforce_file, ak_enforce_dir, ak_enforce_net (with net6) and         *)
(* ak_db_deny_tables.  An entry of a map is one forbidden operation of one *)
(* key, so the word a map holds for a key is the set of entries with that  *)
(* map and key: OR-ing bits adds entries, deleting the key removes them    *)
(* all.  The kernel reads the maps under no lock; mu orders the writers    *)
(* that take it, and setIP does not.                                       *)
(***************************************************************************)
EXTENDS Integers, FiniteSets

CONSTANTS
    Paths,      \* path hashes
    Ips,        \* addresses; an exact deny is the /32 or /128 key
    Prefixes,   \* keys of the egress tries, Ips included
    Tables,     \* database table names
    SelfFiles,  \* AgentKnox's own files
    SelfDirs    \* .. and directories

ASSUME RuleMapsAssumption ==
    /\ Ips \subseteq Prefixes
    /\ SelfFiles \subseteq Paths /\ SelfDirs \subseteq Paths

\* "write" stands for the operations of selfProtectOps, "open" for the others.
PathEntry == [map : {"file", "dir"}, key : Paths, op : {"open", "write"}]
NetEntry  == [map : {"net"}, key : Prefixes, op : {"connect"}]
DbEntry   == [map : {"db"}, key : Tables, op : {"query"}]
Entry     == PathEntry \cup NetEntry \cup DbEntry

PathKey == {"file", "dir"} \X Paths

\* The word of the key an entry belongs to.
KeyOf(r) == <<r.map, r.key>>

ExactDeny(ip) == [map |-> "net", key |-> ip, op |-> "connect"]

VARIABLES
    maps,     \* the entries in the kernel's maps
    tracked,  \* keys in installed and instDir
    netKeys   \* ClearRules: the keys its iteration of the tries collected

rvars == <<maps, tracked, netKeys>>

RInit == maps = {} /\ tracked = {} /\ netKeys = {}
-----------------------------------------------------------------------------
\* A directory is protected by its dir entry and, as a node, by a file entry.
\* instSelf records the file keys; nothing reads it.
SelfRules ==
    [map : {"file"}, key : SelfFiles \cup SelfDirs, op : {"write"}]
        \cup [map : {"dir"}, key : SelfDirs, op : {"write"}]

\* A directory whose own entry is refused gets no file entry either.
SelfRefused(no) ==
    no \cup {r \in SelfRules : r.map = "file" /\ r.key \notin SelfFiles
                                /\ [r EXCEPT !.map = "dir"] \in no}

InstallSelfProtection(no) ==
    /\ maps' = maps \cup (SelfRules \ SelfRefused(no))
    /\ UNCHANGED <<tracked, netKeys>>

\* Each rule is attempted; the ones the kernel refuses are counted and dropped.
AcceptedUntilRefusal(rules, refused) == IF refused = {} THEN rules ELSE {}
Accepted(rules, refused) == rules \ refused

\* The keys InstallRules records in installed and instDir.
TrackedKeys(rules) == {KeyOf(r) : r \in {e \in rules : e.map \in {"file", "dir"}}}

InstallRules(rules, refused) ==
    /\ maps' = maps \cup Accepted(rules, refused)
    /\ tracked' = tracked \cup TrackedKeys(Accepted(rules, refused))
    /\ UNCHANGED netKeys

\* What ClearRules deletes from the path maps: the keys it tracks.
ClearedAll == {r \in maps : r.map \in {"file", "dir"}}
Cleared == {r \in maps : KeyOf(r) \in tracked}

\* ClearRules, in two steps that hold mu throughout: the path maps and table
\* slots, with the iteration over the tries ..
ClearRules ==
    /\ maps' = {r \in maps : r \notin Cleared /\ r.map # "db"}
    /\ tracked' = {}
    /\ netKeys' = {r \in maps : r.map = "net"}

\* .. and the deletion of the trie keys it saw.
ClearNet ==
    /\ maps' = maps \ netKeys
    /\ netKeys' = {}
    /\ UNCHANGED tracked

\* addFileOp; the caller holds mu.
addFileOp(r) ==
    /\ maps' = maps \cup {r}
    /\ tracked' = tracked \cup {KeyOf(r)}
    /\ UNCHANGED netKeys

\* setIP, without mu.
BlockIP(ip) ==
    /\ maps' = maps \cup {ExactDeny(ip)}
    /\ UNCHANGED <<tracked, netKeys>>

UnblockIP(ip) ==
    /\ maps' = maps \ {ExactDeny(ip)}
    /\ UNCHANGED <<tracked, netKeys>>
=============================================================================
