------------------------------- MODULE PathRules -------------------------------
(***************************************************************************)
(* How the LSM hooks match a path against the rule maps                    *)
(* (bpf/helpers.bpf.h).  A path is the sequence of its components; a       *)
(* rendered path is the sequence of its bytes, with a component as one     *)
(* byte.  A map key, the fnv1a-64 of a rendered path, is written as that   *)
(* path: the hash is taken to have no collisions.  No path is longer than  *)
(* AK_PATH_MAX; the hooks refuse one that is.                              *)
(***************************************************************************)
EXTENDS Integers, Sequences

CONSTANTS
    LongNames,  \* components that do not fit AK_NAME_MAX
    Cut(_),     \* what is left of one in the hook's buffer
    HashMax     \* bytes of a path that the daemon's hash reads, 256

\* A path below the root: no component holds a separator.
IsPath(p) == p # <<>> /\ p \in Seq({p[i] : i \in DOMAIN p}) /\ \A i \in DOMAIN p : p[i] # "/"

\* bpf_d_path: the root directory is rendered "/".
d_path(p) ==
    IF p = <<>> THEN <<"/">>
    ELSE [i \in 1..2 * Len(p) |-> IF i % 2 = 1 THEN "/" ELSE p[i \div 2]]

\* bpf_probe_read_kernel_str into nbuf.
NameBuf(name) == IF name \in LongNames THEN Cut(name) ELSE name

\* The daemon's hash leaves the bytes beyond its buffer out; the hooks' do not.
HashString(buf) == IF Len(buf) <= HashMax THEN buf ELSE SubSeq(buf, 1, HashMax)
Fits(p) == Len(d_path(p)) <= HashMax

\* The rule maps an installed rule set yields: a directory is hashed without
\* its trailing slash, the form in which the hooks meet it as an ancestor.
Installed(rules) == {[map |-> r.map, key |-> HashString(d_path(r.path)), op |-> r.op] : r \in rules}

Hit(maps, map, buf, op) == [map |-> map, key |-> buf, op |-> op] \in maps

\* The lookups of the single pass: the ancestor that ends before each "/".
AncestorHit(maps, buf, op) ==
    \E i \in 2..Len(buf) : buf[i] = "/" /\ Hit(maps, "dir", SubSeq(buf, 1, i - 1), op)

ak_forbidden(maps, buf, op) == AncestorHit(maps, buf, op) \/ Hit(maps, "file", buf, op)

\* The separator is inserted unless dir, the root, ends in one.
SplitAlways(dir, name) == dir \o <<"/", name>>
ak_fnv1a_split(dir, name) ==
    IF dir[Len(dir)] = "/" THEN Append(dir, name) ELSE dir \o <<"/", name>>

ak_forbidden_split(maps, dir, name, op) ==
    \/ AncestorHit(maps, dir, op)
    \/ Hit(maps, "dir", dir, op)
    \/ Hit(maps, "file", ak_fnv1a_split(dir, name), op)

Parent(p) == SubSeq(p, 1, Len(p) - 1)
Base(p) == p[Len(p)]

\* The key and the verdict of a hook that has parent and dentry.
SplitKey(p) == ak_fnv1a_split(d_path(Parent(p)), NameBuf(Base(p)))
ak_enforce_dentry(maps, p, op) ==
    ak_forbidden_split(maps, d_path(Parent(p)), NameBuf(Base(p)), op)
ak_enforce_path(maps, p, op) == ak_forbidden(maps, d_path(p), op)

\* What a rule set forbids: its files, and whatever lies below its directories.
Forbidden(rules, p, op) ==
    \E r \in rules : /\ r.op = op
                     /\ \/ r.map = "file" /\ r.path = p
                        \/ r.map = "dir" /\ \E k \in 1..Len(p) - 1 : r.path = SubSeq(p, 1, k)
=============================================================================
