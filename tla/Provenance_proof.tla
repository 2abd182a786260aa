--------------------------- MODULE Provenance_proof ---------------------------
(***************************************************************************)
(* A file the session has written is refused to its execs under every name *)
(* for as long as the inode is cached, and under its recorded names once   *)
(* the inode went cold, for any number of threads, names and inodes.       *)
(***************************************************************************)
EXTENDS Provenance, TLAPS

Tree == [Paths \cup {Anon} -> Inodes \cup {NoInode}]

Ops == {"none", "write", "rename", "chmod"}
Places == Paths \cup {<<>>}
Files == Inodes \cup {NoInode}
Words == SUBSET Taints
Steps == 0..4
Pairs == SUBSET (Paths \X Inodes)
Calls == [op : Ops, at : Steps, path : Places, to : Places, ino : Files, tv : Words, iv : Words,
          swap : BOOLEAN, carries : Pairs]

FileEvents == [op : {"write", "read"}, path : Paths]
FileMarks == [key : Keys, bits : SUBSET Taints]
MarkWrites == [key : Keys, cur : SUBSET Taints, bits : SUBSET Taints] \cup {NoWrite}

\* The types of what the argument looks at.
VTypes ==
    /\ ent \in Tree /\ wrote \subseteq Inodes
    /\ pathTaint \in [Keys -> SUBSET Taints] /\ inoTaint \in [Inodes -> SUBSET Taints]
    /\ call \in [Tasks -> Calls]

\* The daemon's marks name keys and carry taint bits.
DaemonTypes ==
    /\ events \in Seq(FileEvents)
    /\ rmw \in [todo : Seq(FileMarks), write : MarkWrites]

\* A call has its path; a write-open past the hook's lookup holds the bit and
\* the file; none of them holds the memfd.
CallSound(c, memfd) ==
    /\ c.op # "none" => c.path \in Paths
    /\ c.op = "rename" => c.to \in Paths
    /\ c.op = "write" /\ c.at \in 2..4 => "written" \in c.tv /\ c.ino \in Inodes
    /\ c.ino # NoInode => c.ino # memfd

CallsSound == \A t \in Tasks : CallSound(call[t], ent[Anon])

\* No path leads to the memfd.
MemfdApart == ent[Anon] # NoInode => \A p \in Paths : ent[p] # ent[Anon]

\* The storage of a written file has the bit; a memfd has none.
WrittenKept == \A i \in wrote : i # ent[Anon] => "written" \in inoTaint[i]

VInd == VTypes /\ DaemonTypes /\ CallsSound /\ MemfdApart /\ WrittenKept

\* The first and the rest of a sequence are of its type.
LEMMA FirstAndRest ==
    ASSUME NEW S, NEW s \in Seq(S), s # <<>>
    PROVE  Head(s) \in S /\ Tail(s) \in Seq(S)
  OBVIOUS

\* A call that is over is well formed.
LEMMA NoCallTyped == NoCall \in Calls
<1>1. "none" \in Ops /\ <<>> \in Places /\ NoInode \in Files /\ {} \in Words /\ 0 \in Steps
      /\ FALSE \in BOOLEAN /\ {} \in Pairs
  BY DEF Steps, Ops, Places, Files, Words, Pairs
<1> QED BY <1>1, Zenon DEF NoCall, Calls

\* The initial states: nothing is written and no call is under way.
LEMMA VIndInit == VInit => VInd
<1> USE ProvenanceAssumption
<1> SUFFICES ASSUME VInit PROVE VInd
  BY Zenon
<1>1. VTypes
  BY NoCallTyped, Zenon DEF VInit, VTypes, Tree
<1>2. DaemonTypes
  BY DEF VInit, DaemonTypes, NoMark, MarkWrites
<1>3. CallsSound
  BY Zenon DEF VInit, CallsSound, CallSound, NoCall
<1>4. WrittenKept
  BY Zenon DEF VInit, WrittenKept
<1>5. MemfdApart
  BY Zenon DEF VInit, MemfdApart
<1> QED BY <1>1, <1>2, <1>3, <1>4, <1>5, Zenon DEF VInd

\* Whoever makes a key of a name makes one of Keys.
LEMMA NameKeys ==
    ASSUME NEW p \in Paths
    PROVE  d_path(p) \in Keys /\ SplitKey(p) \in Keys /\ HashString(d_path(p)) \in Keys
<1> DEFINE ks(q) == {d_path(q), SplitKey(q), HashString(d_path(q))}
<1>1. Keys = UNION {ks(q) : q \in Paths}
  BY Zenon DEF Keys
<1>2. ks(p) \in {ks(q) : q \in Paths} /\ d_path(p) \in ks(p) /\ SplitKey(p) \in ks(p)
      /\ HashString(d_path(p)) \in ks(p)
  OBVIOUS
<1> HIDE DEF ks
<1> QED BY <1>1, <1>2, Zenon

\* The marks an event leads to are well formed: TaintFile, TaintPersist, or the
\* one after the other on the same key; with the policy asking for it TaintFile
\* comes first.
LEMMA MarksShape ==
    ASSUME NEW e \in FileEvents
    PROVE  LET s == Marks(e) IN
           /\ s \in Seq(FileMarks) /\ Len(s) <= 2
           /\ wants /\ Len(s) > 0 => "written" \in s[1].bits
           /\ Len(s) = 2 => s[2].key = s[1].key
<1> DEFINE key == HashString(d_path(e.path))
           code == Fits(e.path) /\ detectCode(e.path)
           bits == {"written"} \cup IF code THEN {"code"} ELSE {}
           m == [key |-> key, bits |-> bits]
           n == [key |-> key, bits |-> {"persist"}]
           file == IF wants THEN <<m>> ELSE <<>>
           persist == IF e.path \in PersistPaths THEN <<n>> ELSE <<>>
<1>1. Marks(e) = IF e.op = "write" THEN file \o persist ELSE <<>>
  BY Zenon DEF Marks
<1>2. key \in Keys /\ bits \in SUBSET Taints /\ {"persist"} \in SUBSET Taints /\ "written" \in bits
  BY NameKeys, Zenon DEF FileEvents, Taints
<1> HIDE DEF key, code, bits
<1>3. m \in FileMarks /\ n \in FileMarks /\ "written" \in m.bits /\ n.key = m.key
  BY <1>2, Zenon DEF FileMarks
<1> HIDE DEF m, n
<1>4. /\ file \in Seq(FileMarks) /\ Len(file) \in 0..1
      /\ Len(file) = 1 => file[1] = m
      /\ persist \in Seq(FileMarks) /\ Len(persist) \in 0..1
      /\ Len(persist) = 1 => persist[1] = n
      /\ wants /\ Len(persist) = 1 => Len(file) = 1
  BY <1>3
<1>5. wants => Len(file) = 1
  OBVIOUS
<1> HIDE DEF file, persist
<1>6. /\ file \o persist \in Seq(FileMarks)
      /\ Len(file \o persist) = Len(file) + Len(persist)
      /\ Len(file) = 1 => (file \o persist)[1] = m
      /\ Len(file) = 1 /\ Len(persist) = 1 => (file \o persist)[2] = n
  BY <1>4
<1>7. CASE e.op = "write"
  BY <1>1, <1>3, <1>4, <1>5, <1>6, <1>7
<1>8. CASE e.op # "write"
  BY <1>1, <1>8
<1> QED BY <1>7, <1>8, Zenon

\* What the daemon has in hand after a Lookup is well formed.
LEMMA BegunTyped ==
    ASSUME VTypes, NEW marks \in Seq(FileMarks)
    PROVE  Begun(marks) \in [todo : Seq(FileMarks), write : MarkWrites]
<1>1. CASE marks = <<>>
  BY <1>1, Zenon DEF Begun, NoMark, MarkWrites
<1>2. CASE marks # <<>>
  <2>1. Head(marks) \in FileMarks /\ Tail(marks) \in Seq(FileMarks)
    BY <1>2
  <2>2. pathTaint[Head(marks).key] \in SUBSET Taints
    BY <2>1, Zenon DEF VTypes, FileMarks
  <2> QED BY <1>2, <2>1, <2>2, Zenon DEF Begun, MarkWrites, FileMarks
<1> QED BY <1>1, <1>2, Zenon

\* Names that come from names, with the memfd's left alone, keep the files'
\* side of the invariant: an inode that loses its storage leaves wrote too.
LEMMA RelinkedKeeps ==
    ASSUME VTypes, MemfdApart, WrittenKept,
           NEW e \in Tree, NEW pairs, Relinked(e, pairs),
           e[Anon] = ent[Anon],
           \A p \in Paths : e[p] = NoInode \/ \E q \in Paths : e[p] = ent[q]
    PROVE  /\ ent' \in Tree /\ ent'[Anon] = ent[Anon]
           /\ wrote' \subseteq Inodes /\ inoTaint' \in [Inodes -> SUBSET Taints]
           /\ MemfdApart' /\ WrittenKept'
<1>1. ent' = e /\ wrote' = {i \in wrote : Alive(e, i)}
      /\ inoTaint' = [i \in Inodes |-> IF Alive(e, i) THEN inoTaint[i] ELSE {}]
  BY Zenon DEF Relinked
<1>2. MemfdApart'
  BY <1>1, Zenon DEF MemfdApart
<1>3. inoTaint' \in [Inodes -> SUBSET Taints]
  BY <1>1, Zenon DEF VTypes
<1>4. WrittenKept'
  BY <1>1, Zenon DEF WrittenKept, VTypes
<1> QED BY <1>1, <1>2, <1>3, <1>4, Zenon DEF VTypes

\* A step that leaves the files and their storage alone keeps the invariant if
\* the calls, the path keys and the daemon's marks stay sound.
LEMMA FilesKept ==
    ASSUME VInd, UNCHANGED <<ent, inoTaint, wrote>>,
           (pathTaint \in [Keys -> SUBSET Taints])', (call \in [Tasks -> Calls])',
           DaemonTypes', CallsSound'
    PROVE  VInd'
<1>1. MemfdApart' /\ WrittenKept'
  BY Zenon DEF VInd, MemfdApart, WrittenKept
<1> QED BY <1>1, Zenon DEF VInd, VTypes

\* One call changes, to a sound one.
LEMMA CallChanges ==
    ASSUME VInd, NEW t \in Tasks, NEW c \in Calls, CallSound(c, ent[Anon]), ent'[Anon] = ent[Anon],
           call' = [call EXCEPT ![t] = c]
    PROVE  (call \in [Tasks -> Calls])' /\ CallsSound'
<1>1. call' \in [Tasks -> Calls] /\ \A u \in Tasks : call'[u] = IF u = t THEN c ELSE call[u]
  BY Zenon DEF VInd, VTypes
<1>2. ASSUME NEW u \in Tasks PROVE CallSound(call'[u], ent'[Anon])
  BY <1>1, Zenon DEF VInd, CallsSound
<1> QED BY <1>1, <1>2, Zenon DEF CallsSound

\* A call that is over is sound.
LEMMA NoCallSound == NoCall \in Calls /\ CallSound(NoCall, ent[Anon])
BY NoCallTyped, Zenon DEF NoCall, CallSound

\* The entry of a write-open or a chmod, which emits an event.
LEMMA CallBegins ==
    ASSUME VInd, NEW t \in Tasks, NEW op \in {"write", "chmod"}, NEW p \in Paths,
           NEW kind \in {"write", "read"}, Emit(kind, p), UNCHANGED <<ent, inoTaint, wrote, pathTaint, rmw>>,
           call' = [call EXCEPT ![t] = [NoCall EXCEPT !.op = op, !.at = 1, !.path = p]]
    PROVE  VInd'
<1> DEFINE c == [NoCall EXCEPT !.op = op, !.at = 1, !.path = p]
<1>1. op \in Ops /\ p \in Places /\ NoCall \in Calls
  BY NoCallTyped, Zenon DEF Ops, Places, Calls
<1>2. c \in Calls /\ CallSound(c, ent[Anon])
  <2>1. c \in Calls
    <3>1. 1 \in Steps
      BY DEF Steps
    <3> QED BY <1>1, <3>1, Zenon DEF Calls
  <2>3. c.op = op /\ c.at = 1 /\ c.path = p /\ c.ino = NoCall.ino
    BY <1>1, Zenon DEF Calls
  <2>2. NoCall.ino = NoInode
    BY Zenon DEF NoCall
  <2> HIDE DEF c
  <2> QED BY <2>1, <2>2, <2>3 DEF CallSound
<1> HIDE DEF c
<1>3. (call \in [Tasks -> Calls])' /\ CallsSound'
  BY <1>2, CallChanges, Zenon DEF c
<1>4. events' \in Seq(FileEvents)
  <2>1. [op |-> kind, path |-> p] \in FileEvents
    BY Zenon DEF FileEvents
  <2> QED BY <2>1 DEF Emit, VInd, DaemonTypes
<1> QED BY <1>3, <1>4, FilesKept, Zenon DEF VInd, VTypes, DaemonTypes

\* The write-open's hook: the file, created or found, is no memfd, and what the
\* call goes on with has the bit.
LEMMA OpenKeeps ==
    ASSUME VInd, NEW t \in Tasks, file_open_write(t)
    PROVE  VInd'
<1> USE ProvenanceAssumption
<1> DEFINE p == call[t].path
<1>1. call[t] \in Calls /\ p \in Paths /\ call[t].op = "write"
  BY Zenon DEF VInd, VTypes, CallsSound, CallSound, file_open_write
<1>2. PICK i \in Inodes :
          /\ IF ent[p] = NoInode THEN FreeInode(i) ELSE i = ent[p]
          /\ ent' = [ent EXCEPT ![p] = i]
          /\ call' = [call EXCEPT ![t] =
                IF \/ ak_enforce_path(maps, p, "open") \/ ak_enforce_path(maps, p, "write")
                   \/ ~armed
                THEN NoCall
                ELSE [@ EXCEPT !.at = 2, !.ino = i, !.tv = LookedUp(p, i)]]
  BY Zenon DEF file_open_write
<1>3. UNCHANGED <<inoTaint, wrote, pathTaint, events, rmw>>
  BY Zenon DEF file_open_write, taintVars, histVars, daemonVars
<1>4. ent \in Tree /\ ent' \in Tree /\ ent'[Anon] = ent[Anon] /\ Anon \in DOMAIN ent
  BY <1>1, <1>2, Zenon DEF VInd, VTypes, Tree
<1>5. i # ent[Anon]
  BY <1>1, <1>2, <1>4, Zenon DEF FreeInode, VInd, MemfdApart
<1>6. MemfdApart' /\ WrittenKept'
  <2>1. \A q \in Paths : ent'[q] = IF q = p THEN i ELSE ent[q]
    BY <1>2, <1>4, Zenon DEF Tree
  <2> QED BY <2>1, <1>3, <1>4, <1>5, Zenon DEF VInd, MemfdApart, WrittenKept
<1>7. LookedUp(p, i) \in SUBSET Taints /\ "written" \in LookedUp(p, i)
  BY <1>1, NameKeys, Zenon DEF LookedUp, VInd, VTypes, Taints
<1> DEFINE c == [call[t] EXCEPT !.at = 2, !.ino = i, !.tv = LookedUp(p, i)]
<1>8. c \in Calls /\ c.op = "write" /\ c.path = p /\ c.ino = i /\ c.tv = LookedUp(p, i)
  <2>1. i \in Files /\ LookedUp(p, i) \in Words
    BY <1>7, Zenon DEF Files, Words
  <2>2. c \in Calls
    <3>1. 2 \in Steps
      BY DEF Steps
    <3> QED BY <1>1, <2>1, <3>1, Zenon DEF Calls
  <2>3. c.op = call[t].op /\ c.path = p /\ c.ino = i
    BY <1>1, <2>1, Zenon DEF Calls
  <2>4. c.tv = LookedUp(p, i)
    BY <1>1, <2>1, Zenon DEF Calls
  <2> QED BY <1>1, <2>2, <2>3, <2>4, Zenon
<1>9. CallSound(c, ent[Anon])
  <2> HIDE DEF c
  <2> QED BY <1>1, <1>5, <1>7, <1>8, Zenon DEF CallSound
<1>10. (call \in [Tasks -> Calls])' /\ CallsSound'
  <2> DEFINE d == IF ak_enforce_path(maps, p, "open") \/ ak_enforce_path(maps, p, "write") \/ ~armed
                  THEN NoCall ELSE c
  <2>1. call' = [call EXCEPT ![t] = d]
    BY <1>2, Zenon
  <2>2. d \in Calls /\ CallSound(d, ent[Anon])
    BY <1>8, <1>9, NoCallSound, Zenon
  <2> HIDE DEF d
  <2> QED BY Zenon, <2>1, <2>2, <1>4, CallChanges
<1> QED BY <1>3, <1>4, <1>6, <1>10, Zenon DEF VInd, VTypes, DaemonTypes

\* The three steps in which ak_taint_write goes on: the path key, the load of
\* the storage's word, and its store, which has the bit whatever was loaded.
LEMMA TaintKeeps ==
    ASSUME VInd, NEW t \in Tasks,
           taint_write_path(t) \/ taint_write_load(t) \/ taint_write_inode(t)
    PROVE  VInd'
<1>1. call[t] \in Calls /\ CallSound(call[t], ent[Anon]) /\ call[t].op = "write"
  BY Zenon DEF VInd, VTypes, CallsSound, taint_write_path, taint_write_load, taint_write_inode
<1>2. call[t].at \in 2..4
  BY DEF taint_write_path, taint_write_load, taint_write_inode
<1>3. call[t].path \in Paths /\ call[t].ino \in Inodes /\ "written" \in call[t].tv
      /\ call[t].ino # ent[Anon]
  BY <1>1, <1>2, ProvenanceAssumption, Zenon DEF CallSound
<1>4. call[t].tv \in SUBSET Taints /\ call[t].iv \in SUBSET Taints
  BY <1>1, Zenon DEF Calls, Words
<1>5. 3 \in Steps /\ 4 \in Steps
  BY DEF Steps
<1>6. CASE taint_write_path(t)
  <2> DEFINE c == [call[t] EXCEPT !.at = 3]
  <2>1. c \in Calls
    BY <1>1, <1>5, Zenon DEF Calls
  <2>2. c.op = call[t].op /\ c.path = call[t].path /\ c.to = call[t].to /\ c.ino = call[t].ino /\ c.tv = call[t].tv
    BY <1>1, Zenon DEF Calls
  <2>3. call' = [call EXCEPT ![t] = c]
    BY <1>6, Zenon DEF taint_write_path
  <2> HIDE DEF c
  <2>4. CallSound(c, ent[Anon])
    BY <1>1, <1>3, <2>2, Zenon DEF CallSound
  <2>5. UNCHANGED <<ent, inoTaint, wrote, events, rmw>>
    BY <1>6, Zenon DEF taint_write_path, fsVars, daemonVars
  <2>6. (pathTaint \in [Keys -> SUBSET Taints])'
    BY <1>3, <1>4, <1>6, NameKeys, Zenon DEF taint_write_path, VInd, VTypes
  <2>7. (call \in [Tasks -> Calls])' /\ CallsSound'
    BY Zenon, <2>1, <2>3, <2>4, <2>5, CallChanges
  <2> QED BY <2>5, <2>6, <2>7, FilesKept, Zenon DEF VInd, DaemonTypes
<1>7. CASE taint_write_load(t)
  <2> DEFINE w == inoTaint[call[t].ino]
             c == [call[t] EXCEPT !.at = 4, !.iv = w]
  <2>1. w \in Words
    BY <1>3, Zenon DEF VInd, VTypes, Words
  <2>2. call' = [call EXCEPT ![t] = c]
    BY <1>7, Zenon DEF taint_write_load
  <2> HIDE DEF w
  <2>3. c \in Calls
    BY <1>1, <1>5, <2>1, Zenon DEF Calls
  <2>4. c.op = call[t].op /\ c.path = call[t].path /\ c.to = call[t].to /\ c.ino = call[t].ino /\ c.tv = call[t].tv
    BY <1>1, Zenon DEF Calls
  <2> HIDE DEF c
  <2>5. CallSound(c, ent[Anon])
    BY <1>1, <1>3, <2>4, Zenon DEF CallSound
  <2>6. UNCHANGED <<ent, inoTaint, wrote, pathTaint, events, rmw>>
    BY <1>7, Zenon DEF taint_write_load, fsVars, daemonVars, taintVars, histVars
  <2>7. (call \in [Tasks -> Calls])' /\ CallsSound'
    BY Zenon, <2>2, <2>3, <2>5, <2>6, CallChanges
  <2> QED BY <2>6, <2>7, FilesKept, Zenon DEF VInd, VTypes, DaemonTypes
<1>8. CASE taint_write_inode(t)
  <2>1. UNCHANGED <<ent, pathTaint, events, rmw>> /\ wrote' = wrote \cup {call[t].ino}
        /\ inoTaint' = [inoTaint EXCEPT ![call[t].ino] = call[t].iv \cup call[t].tv]
        /\ call' = [call EXCEPT ![t] = NoCall]
    BY <1>8, Zenon DEF taint_write_inode, InodeTainted, fsVars, daemonVars
  <2>2. (call \in [Tasks -> Calls])' /\ CallsSound'
    BY Zenon, <2>1, NoCallSound, CallChanges
  <2>3. wrote' \subseteq Inodes /\ inoTaint' \in [Inodes -> SUBSET Taints]
    BY <1>3, <1>4, <2>1, Zenon DEF VInd, VTypes
  <2>4. \A i \in Inodes : inoTaint'[i] = IF i = call[t].ino THEN call[t].iv \cup call[t].tv ELSE inoTaint[i]
    BY <2>1, Zenon DEF VInd, VTypes
  <2>5. WrittenKept'
    BY <1>3, <2>1, <2>3, <2>4, Zenon DEF VInd, WrittenKept
  <2> QED BY <2>1, <2>2, <2>3, <2>5, Zenon DEF VInd, VTypes, DaemonTypes, MemfdApart
<1> QED BY <1>6, <1>7, <1>8, Zenon

\* A step that moves names only, by Relinked.
LEMMA NamesMove ==
    ASSUME VInd, NEW e \in Tree, NEW pairs, Relinked(e, pairs),
           e[Anon] = ent[Anon],
           \A p \in Paths : e[p] = NoInode \/ \E q \in Paths : e[p] = ent[q],
           (pathTaint \in [Keys -> SUBSET Taints])', (call \in [Tasks -> Calls])',
           DaemonTypes', CallsSound'
    PROVE  VInd'
BY RelinkedKeeps, Zenon DEF VInd, VTypes

\* The names after a rename within Paths.
LEMMA MovedNames ==
    ASSUME VInd, NEW p \in Paths, NEW q \in Paths, NEW e \in {Moved(p, q), Swapped(p, q)}
    PROVE  /\ e \in Tree /\ e[Anon] = ent[Anon]
           /\ \A n \in Paths : e[n] = NoInode \/ \E m \in Paths : e[n] = ent[m]
<1> USE ProvenanceAssumption
<1>1. ent \in Tree /\ DOMAIN ent = Paths \cup {Anon}
  BY Zenon DEF VInd, VTypes, Tree
<1>2. CASE e = Moved(p, q)
  <2>1. \A n \in Paths \cup {Anon} : e[n] = IF n = p THEN NoInode ELSE IF n = q THEN ent[p] ELSE ent[n]
    BY <1>1, <1>2, Zenon DEF Moved
  <2>2. e \in Tree
    BY <1>1, <1>2, Zenon DEF Moved, Tree
  <2> QED BY <2>1, <2>2, Zenon
<1>3. CASE e = Swapped(p, q)
  <2>1. \A n \in Paths \cup {Anon} : e[n] = IF n = p THEN ent[q] ELSE IF n = q THEN ent[p] ELSE ent[n]
    BY <1>1, <1>3, Zenon DEF Swapped
  <2>2. e \in Tree
    BY <1>1, <1>3, Zenon DEF Swapped, Tree
  <2> QED BY <2>1, <2>2, Zenon
<1> QED BY <1>2, <1>3, Zenon

\* A member's rename: the lookup, and the copy and the move.
LEMMA RenameKeeps ==
    ASSUME VInd, NEW t \in Tasks,
           \/ \E p, q \in Paths, swap \in BOOLEAN : rename_lookup(t, p, q, swap)
           \/ \E ok \in BOOLEAN : path_rename(t, ok)
    PROVE  VInd'
<1>1. ASSUME NEW p \in Paths, NEW q \in Paths, NEW swap \in BOOLEAN, rename_lookup(t, p, q, swap)
      PROVE  VInd'
  <2> DEFINE w == IF armed THEN pathTaint[SplitKey(p)] ELSE {}
             k == IF <<p, ent[p]>> \in named /\ ShortNames(p, q) THEN {<<q, ent[p]>>} ELSE {}
             c == [NoCall EXCEPT !.op = "rename", !.at = 1, !.path = p, !.to = q, !.swap = swap,
                                 !.tv = w, !.carries = k]
  <2>0. ent[p] \in Inodes
    BY <1>1, Zenon DEF rename_lookup, VInd, VTypes, Tree
  <2>1. w \in Words /\ k \in Pairs
    <3>1. w \in Words
      BY NameKeys, Zenon DEF VInd, VTypes, Words
    <3>2. <<q, ent[p]>> \in Paths \X Inodes
      BY <2>0
    <3>3. k \in Pairs
      BY <3>2, Zenon DEF Pairs
    <3> QED BY <3>1, <3>3, Zenon
  <2>2. call' = [call EXCEPT ![t] = c]
    BY <1>1, Zenon DEF rename_lookup
  <2> HIDE DEF w, k
  <2>3. "rename" \in Ops /\ 1 \in Steps /\ p \in Places /\ q \in Places
    BY DEF Ops, Steps, Places
  <2>4. c \in Calls
    BY NoCallTyped, <2>1, <2>3, Zenon DEF Calls
  <2>5. c.op = "rename" /\ c.path = p /\ c.to = q /\ c.ino = NoCall.ino
    BY NoCallTyped, <2>1, <2>3, Zenon DEF Calls
  <2> HIDE DEF c
  <2>6. CallSound(c, ent[Anon])
    BY <2>5, Zenon DEF CallSound, NoCall
  <2>7. UNCHANGED <<ent, inoTaint, wrote, pathTaint, events, rmw>>
    BY <1>1, Zenon DEF rename_lookup, taintVars, histVars, daemonVars
  <2>8. (call \in [Tasks -> Calls])' /\ CallsSound'
    BY Zenon, <2>2, <2>4, <2>6, <2>7, CallChanges
  <2> QED BY <2>7, <2>8, FilesKept, Zenon DEF VInd, VTypes, DaemonTypes
<1>2. ASSUME NEW ok \in BOOLEAN, path_rename(t, ok)
      PROVE  VInd'
  <2> DEFINE p == call[t].path
             q == call[t].to
  <2>1. p \in Paths /\ q \in Paths /\ call[t].tv \in SUBSET Taints
    BY <1>2, Zenon DEF path_rename, VInd, VTypes, CallsSound, CallSound, Calls, Words
  <2>2. pathTaint' = Copied(call[t].tv, q) /\ call' = [call EXCEPT ![t] = NoCall]
        /\ UNCHANGED <<events, rmw>>
    BY <1>2, Zenon DEF path_rename, daemonVars
  <2>3. (pathTaint \in [Keys -> SUBSET Taints])'
    BY <2>1, <2>2, NameKeys, Zenon DEF Copied, VInd, VTypes
  <2>4. DaemonTypes'
    BY <2>2, Zenon DEF VInd, DaemonTypes
  <2>5. CASE ok
    <3>0. PICK pairs : Relinked(Moved(p, q), pairs) \/ Relinked(Swapped(p, q), pairs)
      BY <1>2, <2>5, Zenon DEF path_rename
    <3>1. PICK e \in {Moved(p, q), Swapped(p, q)} : Relinked(e, pairs)
      BY <3>0, Zenon
    <3>2. /\ e \in Tree /\ e[Anon] = ent[Anon]
          /\ \A n \in Paths : e[n] = NoInode \/ \E m \in Paths : e[n] = ent[m]
      BY <2>1, <3>1, MovedNames, Zenon
    <3>3. ent'[Anon] = ent[Anon]
      BY <3>1, <3>2, Zenon DEF Relinked
    <3>4. (call \in [Tasks -> Calls])' /\ CallsSound'
      BY Zenon, <2>2, <3>3, NoCallSound, CallChanges
    <3> QED BY <2>3, <2>4, <3>1, <3>2, <3>4, NamesMove, Zenon
  <2>6. CASE ~ok
    <3>1. UNCHANGED <<ent, inoTaint, wrote>>
      BY <1>2, <2>6, Zenon DEF path_rename, histVars
    <3>2. (call \in [Tasks -> Calls])' /\ CallsSound'
      BY Zenon, <2>2, <3>1, NoCallSound, CallChanges
    <3> QED BY <2>3, <2>4, <3>1, <3>2, FilesKept, Zenon
  <2> QED BY <2>5, <2>6, Zenon
<1> QED BY <1>1, <1>2, Zenon

\* The steps that move names and are no call: another process's rename, the
\* rename of a directory, an unlink; and the link, which adds a name.
LEMMA OthersKeep ==
    ASSUME VInd,
           \/ \E p, q \in Paths : rename_outside(p, q) \/ Link(p, q)
           \/ \E d, e \in Dirs : rename_dir(d, e)
           \/ \E p \in Paths : path_unlink(p)
    PROVE  VInd'
<1> USE ProvenanceAssumption
<1>1. UNCHANGED <<pathTaint, events, rmw, call>>
  BY Zenon DEF rename_outside, Link, rename_dir, path_unlink, taintVars, daemonVars
<1>2. ent \in Tree /\ DOMAIN ent = Paths \cup {Anon}
  BY Zenon DEF VInd, VTypes, Tree
<1>3. ASSUME NEW e \in Tree, NEW pairs, Relinked(e, pairs), e[Anon] = ent[Anon],
             \A p \in Paths : e[p] = NoInode \/ \E q \in Paths : e[p] = ent[q]
      PROVE  VInd'
  <2>1. ent'[Anon] = ent[Anon]
    BY <1>3, Zenon DEF Relinked
  <2>2. CallsSound' /\ DaemonTypes'
    BY <1>1, <2>1, Zenon DEF VInd, CallsSound, DaemonTypes
  <2> QED BY <1>1, <1>3, <2>2, NamesMove, Zenon DEF VInd, VTypes
<1>4. ASSUME NEW p \in Paths, NEW q \in Paths, rename_outside(p, q)
      PROVE  VInd'
  BY <1>3, <1>4, MovedNames, Zenon DEF rename_outside
<1>5. ASSUME NEW p \in Paths, NEW q \in Paths, Link(p, q)
      PROVE  VInd'
  <2>1. ent' = [ent EXCEPT ![q] = ent[p]] /\ UNCHANGED <<inoTaint, wrote>>
    BY <1>5, Zenon DEF Link, taintVars, histVars
  <2>2. ent' \in Tree /\ ent'[Anon] = ent[Anon]
        /\ \A n \in Paths : ent'[n] = IF n = q THEN ent[p] ELSE ent[n]
    BY <1>2, <2>1, Zenon DEF Tree
  <2>3. MemfdApart' /\ WrittenKept' /\ CallsSound' /\ DaemonTypes'
    BY <1>1, <2>1, <2>2, Zenon DEF VInd, MemfdApart, WrittenKept, CallsSound, DaemonTypes
  <2> QED BY <1>1, <2>1, <2>2, <2>3, Zenon DEF VInd, VTypes
<1>6. ASSUME NEW p \in Paths, path_unlink(p)
      PROVE  VInd'
  <2> DEFINE e == [ent EXCEPT ![p] = NoInode]
  <2>1. e \in Tree /\ e[Anon] = ent[Anon] /\ \A n \in Paths : e[n] = IF n = p THEN NoInode ELSE ent[n]
    BY <1>2, Zenon DEF Tree
  <2>2. Relinked(e, named)
    BY <1>6, Zenon DEF path_unlink
  <2> HIDE DEF e
  <2> QED BY <1>3, <2>1, <2>2, Zenon
<1>7. ASSUME NEW d \in Dirs, NEW x \in Dirs, rename_dir(d, x)
      PROVE  VInd'
  <2> DEFINE under(y) == {p \in Paths : Parent(p) = y}
             from(n) == Append(d, Base(n))
             e == [n \in DOMAIN ent |->
                     IF n \in under(d) THEN NoInode
                     ELSE IF n \notin under(x) THEN ent[n]
                     ELSE IF from(n) \in Paths THEN ent[from(n)] ELSE NoInode]
  <2>1. Relinked(e, named)
    BY <1>7, Zenon DEF rename_dir
  <2> HIDE DEF from
  <2>2. e \in Tree
    BY <1>2, Zenon DEF Tree
  <2>3. e[Anon] = ent[Anon]
    BY <1>2, Zenon
  <2>4. \A p \in Paths : e[p] = NoInode \/ \E q \in Paths : e[p] = ent[q]
    BY <1>2, Zenon
  <2> HIDE DEF e
  <2> QED BY <1>3, <2>1, <2>2, <2>3, <2>4, Zenon
<1> QED BY <1>4, <1>5, <1>6, <1>7, Zenon

\* The other ends of calls, the memfd, the daemon and the host.
LEMMA RestKeeps ==
    ASSUME VInd,
           \/ \E t \in Tasks : path_chmod(t)
           \/ \E k \in Keys : Evict(k)
           \/ \E i \in Inodes : MemfdCreate(i) \/ Reclaim(i)
           \/ TakeEvent \/ TaintLookup \/ TaintPut \/ LoadPolicies \/ SetTaintedCodePosture
    PROVE  VInd'
<1> USE ProvenanceAssumption
<1>1. ASSUME NEW t \in Tasks, path_chmod(t)
      PROVE  VInd'
  <2>1. UNCHANGED <<ent, inoTaint, wrote, pathTaint, events, rmw>> /\ call' = [call EXCEPT ![t] = NoCall]
    BY <1>1, Zenon DEF path_chmod, taintVars, histVars, daemonVars
  <2>2. (call \in [Tasks -> Calls])' /\ CallsSound'
    BY Zenon, <2>1, NoCallSound, CallChanges
  <2> QED BY <2>1, <2>2, FilesKept, Zenon DEF VInd, VTypes, DaemonTypes
<1>2. ASSUME NEW k \in Keys, Evict(k)
      PROVE  VInd'
  <2>1. UNCHANGED <<ent, inoTaint, wrote, call, events, rmw>> /\ pathTaint' = [pathTaint EXCEPT ![k] = {}]
    BY <1>2, Zenon DEF Evict, fsVars, histVars, daemonVars
  <2>2. CallsSound'
    BY <2>1, Zenon DEF VInd, CallsSound
  <2> QED BY <2>1, <2>2, FilesKept, Zenon DEF VInd, VTypes, DaemonTypes
<1>3. ASSUME NEW i \in Inodes, MemfdCreate(i)
      PROVE  VInd'
  <2>1. UNCHANGED <<inoTaint, pathTaint, call, events, rmw>> /\ ent' = [ent EXCEPT ![Anon] = i]
        /\ ent[Anon] = NoInode /\ FreeInode(i) /\ wrote' \subseteq wrote \cup {i}
    BY <1>3, Zenon DEF MemfdCreate, taintVars, daemonVars
  <2>2. ent \in Tree /\ ent' \in Tree /\ ent'[Anon] = i /\ \A p \in Paths : ent'[p] = ent[p] /\ ent[p] # i
    BY <2>1, Zenon DEF VInd, VTypes, Tree, FreeInode
  <2>3. MemfdApart' /\ WrittenKept'
    BY <2>1, <2>2, Zenon DEF VInd, VTypes, MemfdApart, WrittenKept
  <2>4. CallsSound'
    <3>1. \A t \in Tasks : call[t].ino # i
      BY <2>1, Zenon DEF FreeInode
    <3> QED BY <2>1, <2>2, <3>1, Zenon DEF VInd, CallsSound, CallSound
  <2> QED BY <2>1, <2>2, <2>3, <2>4, Zenon DEF VInd, VTypes, DaemonTypes
<1>4. ASSUME NEW i \in Inodes, Reclaim(i)
      PROVE  VInd'
  <2>1. UNCHANGED <<ent, pathTaint, call, events, rmw>> /\ wrote' = wrote \ {i}
        /\ inoTaint' = [inoTaint EXCEPT ![i] = {}]
    BY <1>4, Zenon DEF Reclaim, daemonVars
  <2>2. inoTaint' \in [Inodes -> SUBSET Taints] /\ \A n \in wrote' : inoTaint'[n] = inoTaint[n]
    BY <2>1, Zenon DEF VInd, VTypes
  <2>3. MemfdApart' /\ WrittenKept' /\ CallsSound'
    BY <2>1, <2>2, Zenon DEF VInd, MemfdApart, WrittenKept, CallsSound
  <2> QED BY <2>1, <2>2, <2>3, Zenon DEF VInd, VTypes, DaemonTypes
<1>5. CASE TakeEvent
  <2>1. UNCHANGED <<ent, inoTaint, wrote, pathTaint, call>>
        /\ events # <<>> /\ events' = Tail(events) /\ rmw' = Begun(Marks(Head(events)))
    BY <1>5, Zenon DEF TakeEvent, fsVars, taintVars, histVars
  <2>2. events \in Seq(FileEvents)
    BY Zenon DEF VInd, DaemonTypes
  <2>3. Head(events) \in FileEvents /\ Tail(events) \in Seq(FileEvents)
    BY Zenon, <2>1, <2>2, FirstAndRest
  <2>4. events' \in Seq(FileEvents)
    BY <2>1, <2>3, Zenon
  <2>5. DaemonTypes'
    BY <2>1, <2>3, <2>4, MarksShape, BegunTyped, Zenon DEF VInd, DaemonTypes
  <2> QED BY <2>1, <2>5, FilesKept, Zenon DEF VInd, VTypes, CallsSound
<1>6. CASE TaintLookup
  <2>1. UNCHANGED <<ent, inoTaint, wrote, pathTaint, call, events>> /\ rmw' = Begun(rmw.todo)
    BY <1>6, Zenon DEF TaintLookup, fsVars, taintVars, histVars
  <2>2. DaemonTypes'
    BY <2>1, BegunTyped, Zenon DEF VInd, DaemonTypes
  <2> QED BY <2>1, <2>2, FilesKept, Zenon DEF VInd, VTypes, CallsSound
<1>7. CASE TaintPut
  <2> DEFINE w == rmw.write
  <2>1. UNCHANGED <<ent, inoTaint, wrote, call, events>> /\ w # NoWrite
        /\ pathTaint' = [pathTaint EXCEPT ![w.key] = w.cur \cup w.bits]
        /\ rmw' = [rmw EXCEPT !.write = NoWrite]
    BY <1>7, Zenon DEF TaintPut, Accumulated, fsVars, histVars
  <2>2. w \in [key : Keys, cur : SUBSET Taints, bits : SUBSET Taints]
    BY <2>1, Zenon DEF VInd, DaemonTypes, MarkWrites
  <2>3. (pathTaint \in [Keys -> SUBSET Taints])'
    BY <2>1, <2>2, Zenon DEF VInd, VTypes
  <2>4. NoWrite \in MarkWrites
    BY Zenon DEF MarkWrites
  <2>5. DaemonTypes'
    BY <2>1, <2>4, Zenon DEF VInd, DaemonTypes
  <2> QED BY <2>1, <2>3, <2>5, FilesKept, Zenon DEF VInd, VTypes, CallsSound
<1>8. CASE LoadPolicies \/ SetTaintedCodePosture
  <2>1. UNCHANGED <<ent, inoTaint, wrote, pathTaint, call, events, rmw>>
    BY <1>8, Zenon DEF LoadPolicies, SetTaintedCodePosture, fsVars, taintVars, histVars, daemonVars
  <2> QED BY <2>1, FilesKept, Zenon DEF VInd, VTypes, CallsSound, DaemonTypes
<1> QED BY <1>1, <1>2, <1>3, <1>4, <1>5, <1>6, <1>7, <1>8, Zenon

\* Every step keeps the invariant.
LEMMA VIndNext == VInd /\ [VNext]_vvars => VInd'
<1> SUFFICES ASSUME VInd, [VNext]_vvars PROVE VInd'
  BY Zenon
<1>1. ASSUME NEW t \in Tasks, NEW p \in Paths, OpenEnter(t, p) \/ ChmodEnter(t, p)
      PROVE  VInd'
  <2>1. UNCHANGED <<ent, inoTaint, wrote, pathTaint, rmw>>
    BY <1>1, Zenon DEF OpenEnter, ChmodEnter, taintVars, histVars
  <2>2. CASE OpenEnter(t, p)
    BY <2>1, <2>2, CallBegins, Zenon DEF OpenEnter
  <2>3. CASE ChmodEnter(t, p)
    BY <2>1, <2>3, CallBegins, Zenon DEF ChmodEnter
  <2> QED BY <1>1, <2>2, <2>3, Zenon
<1>2. CASE UNCHANGED vvars
  <2>1. UNCHANGED <<ent, inoTaint, wrote, pathTaint, call, events, rmw>>
    BY <1>2, Zenon DEF vvars, fsVars, taintVars, histVars, daemonVars
  <2> QED BY <2>1, FilesKept, Zenon DEF VInd, VTypes, CallsSound, DaemonTypes
<1> QED BY <1>1, <1>2, OpenKeeps, TaintKeeps, RenameKeeps, OthersKeep, RestKeeps, Zenon DEF VNext

\* A file of a sound state is refused under each of its names.
LEMMA VIndRefuses == VInd => AliasRefused
<1> SUFFICES ASSUME VInd, armed, NEW p \in DOMAIN ent, ent[p] \in wrote
             PROVE  ExecRefused(p)
  BY Zenon DEF AliasRefused
<1>1. CASE p = Anon
  BY <1>1, Zenon DEF ExecRefused
<1>2. CASE p # Anon
  <2>1. p \in Paths /\ ent[p] \in Inodes
    BY <1>2, Zenon DEF VInd, VTypes, Tree
  <2>2. ent[p] # ent[Anon]
    BY <2>1, ProvenanceAssumption, Zenon DEF VInd, MemfdApart
  <2> QED BY <2>2, Zenon DEF VInd, WrittenKept, ExecRefused, ak_deny_taint
<1> QED BY <1>1, <1>2, Zenon

\* For any number of threads, names and inodes: once the hook of a write-open
\* is through, the session cannot exec the file by any name while its inode
\* stays cached (ak_taint_write and ak_deny_taint, bpf/enforcer.bpf.c).
THEOREM AliasRefusedAlways == VSpec => []AliasRefused
<1>1. VInit => VInd
  BY VIndInit, Zenon
<1>2. VInd /\ [VNext]_vvars => VInd'
  BY VIndNext, Zenon
<1>3. VInd => AliasRefused
  BY VIndRefuses, Zenon
<1> QED BY <1>1, <1>2, <1>3, PTL DEF VSpec
-----------------------------------------------------------------------------
(* What the hooks make of a path.                                          *)

\* The rendering of a path: a separator before each component.
LEMMA RenderedPath ==
    ASSUME NEW p, IsPath(p)
    PROVE  /\ Len(p) \in Nat \ {0} /\ DOMAIN p = 1..Len(p)
           /\ d_path(p) = [i \in 1..2 * Len(p) |-> IF i % 2 = 1 THEN "/" ELSE p[i \div 2]]
           /\ Len(d_path(p)) = 2 * Len(p)
           /\ \A k \in 1..Len(p) : d_path(p)[2 * k] = p[k] /\ d_path(p)[2 * k - 1] = "/"
<1>1. PICK S : p \in Seq(S)
  BY DEF IsPath
<1>2. Len(p) \in Nat \ {0} /\ DOMAIN p = 1..Len(p)
  BY <1>1 DEF IsPath
<1>3. d_path(p) = [i \in 1..2 * Len(p) |-> IF i % 2 = 1 THEN "/" ELSE p[i \div 2]]
  BY DEF d_path, IsPath
<1>4. Len(d_path(p)) = 2 * Len(p)
  BY <1>2, <1>3
<1>5. ASSUME NEW k \in 1..Len(p) PROVE d_path(p)[2 * k] = p[k] /\ d_path(p)[2 * k - 1] = "/"
  <2>1. /\ 2 * k \in 1..2 * Len(p) /\ 2 * k - 1 \in 1..2 * Len(p)
        /\ (2 * k) % 2 = 0 /\ (2 * k - 1) % 2 = 1 /\ (2 * k) \div 2 = k
    BY <1>2
  <2> QED BY <1>3, <2>1
<1> QED BY <1>2, <1>3, <1>4, <1>5, Zenon

\* Two paths have one rendering only if they are the same: a map key is a path's.
LEMMA RenderedOnce ==
    ASSUME NEW p, NEW q, IsPath(p), IsPath(q), d_path(p) = d_path(q)
    PROVE  p = q
<1>1. Len(p) = Len(q)
  BY RenderedPath
<1>2. \A k \in 1..Len(p) : p[k] = q[k]
  BY RenderedPath, <1>1
<1>3. PICK S, T : p \in Seq(S) /\ q \in Seq(T)
  BY DEF IsPath
<1> QED BY <1>1, <1>2, <1>3

\* The bytes before a separator are the rendering of the ancestor that ends there.
LEMMA AncestorRendered ==
    ASSUME NEW p, IsPath(p), NEW k \in 1..Len(p)
    PROVE  IsPath(SubSeq(p, 1, k)) /\ SubSeq(d_path(p), 1, 2 * k) = d_path(SubSeq(p, 1, k))
<1>1. PICK a : a = SubSeq(p, 1, k)
  OBVIOUS
<1>2. PICK S : p \in Seq(S)
  BY DEF IsPath
<1>3. k \in Nat \ {0} /\ 2 * k \in Nat /\ 2 * k <= 2 * Len(p)
  BY RenderedPath
<1>4. a \in Seq(S) /\ Len(a) = k /\ DOMAIN a = 1..k /\ \A i \in 1..k : a[i] = p[i]
  BY <1>1, <1>2, <1>3
<1>5. IsPath(a)
  <2>1. a # <<>> /\ \A i \in DOMAIN a : a[i] # "/"
    BY <1>3, <1>4, RenderedPath DEF IsPath
  <2>2. a \in Seq({a[i] : i \in DOMAIN a})
    BY <1>3, <1>4
  <2> QED BY <2>1, <2>2 DEF IsPath
<1>6. d_path(a) = [i \in 1..2 * k |-> IF i % 2 = 1 THEN "/" ELSE a[i \div 2]]
  BY <1>4, <1>5, RenderedPath
<1>7. SubSeq(d_path(p), 1, 2 * k) = [i \in 1..2 * k |-> d_path(p)[i]]
  BY <1>3, RenderedPath
<1>8. ASSUME NEW i \in 1..2 * k PROVE d_path(p)[i] = IF i % 2 = 1 THEN "/" ELSE a[i \div 2]
  <2>1. i \in 1..2 * Len(p) /\ (i % 2 # 1 => i \div 2 \in 1..k)
    <3>1. Len(p) \in Nat
      BY RenderedPath, Zenon
    <3> QED BY <1>3, <3>1
  <2> QED BY <1>4, <2>1, RenderedPath
<1> QED BY <1>1, <1>5, <1>6, <1>7, <1>8, Zenon

\* The split key of a name that fits the buffer is the key of the whole path,
\* in the root directory, whose rendering ends in the separator, and below it.
LEMMA SplitIsRendered ==
    ASSUME NEW p, IsPath(p), Base(p) \notin LongNames
    PROVE  ak_fnv1a_split(d_path(Parent(p)), NameBuf(Base(p))) = d_path(p)
<1>1. PICK S : p \in Seq(S)
  BY DEF IsPath
<1>2. PICK n : n = Len(p)
  OBVIOUS
<1>3. n \in Nat \ {0} /\ DOMAIN p = 1..n
  BY <1>2, RenderedPath
<1>4. NameBuf(Base(p)) = p[n]
  BY <1>2, Zenon DEF NameBuf, Base
<1>5. d_path(p) = [i \in 1..2 * n |-> IF i % 2 = 1 THEN "/" ELSE p[i \div 2]]
  BY <1>2, RenderedPath
<1>6. CASE n = 1
  <2>1. Parent(p) = <<>>
    BY <1>1, <1>2, <1>6 DEF Parent
  <2>2. d_path(Parent(p)) = <<"/">>
    BY <2>1 DEF d_path
  <2>3. ak_fnv1a_split(<<"/">>, p[1]) = <<"/", p[1]>>
    <3>1. Len(<<"/">>) = 1 /\ <<"/">>[1] = "/"
      OBVIOUS
    <3>2. ak_fnv1a_split(<<"/">>, p[1]) = Append(<<"/">>, p[1])
      BY <3>1, Zenon DEF ak_fnv1a_split
    <3>3. PICK T : "/" \in T /\ p[1] \in T
      <4>1. "/" \in {"/", p[1]} /\ p[1] \in {"/", p[1]}
        OBVIOUS
      <4> QED BY <4>1, Zenon
    <3>4. Append(<<"/">>, p[1]) = <<"/", p[1]>>
      <4>1. PICK s, x : s = <<"/">> /\ x = p[1]
        OBVIOUS
      <4>2. s \in Seq(T) /\ Len(s) = 1 /\ s[1] = "/"
        BY <3>3, <4>1
      <4>3. PICK t : t = Append(s, x)
        OBVIOUS
      <4>4. t \in Seq(T) /\ Len(t) = 2 /\ t[1] = "/" /\ t[2] = x
        BY <3>3, <4>1, <4>2, <4>3
      <4>5. t = <<"/", x>>
        BY <3>3, <4>1, <4>4
      <4> QED BY <4>1, <4>3, <4>5, Zenon
    <3> QED BY <3>2, <3>4, Zenon
  <2>4. d_path(p) = <<"/", p[1]>>
    <3>1. d_path(p) = [i \in 1..2 |-> IF i % 2 = 1 THEN "/" ELSE p[i \div 2]]
      BY <1>5, <1>6
    <3>2. 1 % 2 = 1 /\ 2 % 2 = 0 /\ 2 \div 2 = 1
      OBVIOUS
    <3>3. d_path(p)[1] = "/" /\ d_path(p)[2] = p[1]
      BY <3>1, <3>2
    <3> QED BY <3>1, <3>3
  <2> QED BY <1>4, <1>6, <2>2, <2>3, <2>4, Zenon
<1>7. CASE n > 1
  <2>1. PICK d : d = Parent(p)
    OBVIOUS
  <2>2. PICK m : m = n - 1
    OBVIOUS
  <2>3. m \in 1..Len(p) /\ m \in Nat \ {0} /\ n = m + 1 /\ d = SubSeq(p, 1, m)
    BY <1>2, <1>3, <1>7, <2>1, <2>2 DEF Parent
  <2>4. IsPath(d) /\ d_path(d) = SubSeq(d_path(p), 1, 2 * m)
    BY <2>3, AncestorRendered
  <2>5. Len(d) = m /\ d[m] # "/"
    BY <1>1, <2>3, <2>4, RenderedPath DEF IsPath
  <2>6. Len(d_path(d)) = 2 * m /\ d_path(d)[2 * m] = d[m]
    BY <2>3, <2>4, <2>5, RenderedPath
  <2>7. ak_fnv1a_split(d_path(d), p[n]) = d_path(d) \o <<"/", p[n]>>
    BY <2>5, <2>6, Zenon DEF ak_fnv1a_split
  <2>8. d_path(p) = d_path(d) \o <<"/", p[n]>>
    <3>1. PICK b : b = d_path(p)
      OBVIOUS
    <3>2. PICK N : N = 2 * m
      OBVIOUS
    <3>3. N \in Nat /\ 2 * n = N + 2 /\ N + 1 = 2 * n - 1 /\ n \in 1..n
      BY <1>3, <2>3, <3>2
    <3>4. Len(b) = N + 2 /\ DOMAIN b = 1..N + 2 /\ b[N + 1] = "/" /\ b[N + 2] = p[n]
      <4>1. Len(b) = 2 * n /\ b[2 * n] = p[n] /\ b[2 * n - 1] = "/" /\ DOMAIN b = 1..2 * n
        BY <1>2, <1>5, <3>1, <3>3, RenderedPath
      <4> QED BY <3>3, <4>1
    <3>5. PICK T : b \in Seq(T)
      <4>1. PICK T : \A i \in 1..2 * n : b[i] \in T
        <5>1. \A i \in 1..2 * n : b[i] \in {b[x] : x \in 1..2 * n}
          OBVIOUS
        <5> QED BY <5>1, Zenon
      <4>2. b = [i \in 1..2 * n |-> b[i]]
        BY <1>5, <3>1
      <4>3. 2 * n \in Nat
        BY <1>3
      <4>4. b \in Seq(T)
        BY <4>1, <4>2, <4>3
      <4> QED BY <4>4, Zenon
    <3>6. b[N + 1] \in T /\ b[N + 2] \in T
      BY <3>3, <3>4, <3>5
    <3>7. b = SubSeq(b, 1, N) \o <<b[N + 1], b[N + 2]>>
      BY <3>3, <3>4, <3>5, <3>6
    <3> QED BY <2>4, <3>1, <3>2, <3>4, <3>7, Zenon
  <2> QED BY <1>4, <2>1, <2>7, <2>8, Zenon
<1>8. n = 1 \/ n > 1
  BY <1>3
<1> QED BY <1>6, <1>7, <1>8, Zenon

-----------------------------------------------------------------------------
(* The path keys.                                                          *)

\* What VTypeOK says of the rest of the state; the kernel is armed as the
\* policy asks until the first reload.
RestTypes ==
    /\ execBit \subseteq Inodes
    /\ wants \in BOOLEAN /\ armed \in BOOLEAN
    /\ evictions \in Nat /\ reloads \in Nat
    /\ reloads = 0 => wants = armed
    /\ Len(events) <= MaxEvents /\ Len(rmw.todo) <= 1

\* named tells of names that lead to a file, and to the one it says.
NamesLead == \A x \in named : x[1] \in Paths /\ x[2] \in Inodes /\ ent[x[1]] = x[2]

\* No key was evicted and no policy swapped.
Quiet == armed /\ evictions = 0 /\ reloads = 0

\* A word of ak_taint_files that is there at all has the bit ..
HasBit(word) == word = {} \/ "written" \in word

\* .. and a rename under way has the bit of the file it carries, whose new name
\* the hook hashes whole ..
RenameHas(c) ==
    /\ HasBit(c.tv)
    /\ \A x \in c.carries : x[1] = c.to /\ "written" \in c.tv /\ SplitKey(c.to) = d_path(c.to)

\* .. because everyone who is about to write one has it in hand: the rename the
\* word it looked up, TaintFile its bits, and TaintPersist the word it read,
\* which TaintFile was through with.
WritersHaveBit ==
    /\ \A k \in Keys : HasBit(pathTaint[k])
    /\ \A t \in Tasks : call[t].op = "rename" => RenameHas(call[t])
    /\ rmw.write # NoWrite => "written" \in rmw.write.cur \cup rmw.write.bits
    /\ rmw.todo # <<>> =>
          IF rmw.write = NoWrite THEN "written" \in pathTaint[rmw.todo[1].key]
          ELSE rmw.todo[1].key = rmw.write.key

ColdInd == Quiet => WritersHaveBit /\ \A x \in named : "written" \in pathTaint[d_path(x[1])]

\* What is left to do after a Lookup.
LEMMA BegunShape ==
    ASSUME NEW marks \in Seq(FileMarks), Len(marks) <= 2
    PROVE  Len(Begun(marks).todo) <= 1
<1>1. CASE marks = <<>>
  BY <1>1 DEF Begun, NoMark
<1>2. CASE marks # <<>>
  <2>1. Begun(marks).todo = Tail(marks)
    BY <1>2, Zenon DEF Begun
  <2> QED BY <1>2, <2>1
<1> QED BY <1>1, <1>2, Zenon

\* Nothing is written, queued or named at the start.
LEMMA RestInit == VInit => RestTypes /\ NamesLead /\ ColdInd
<1> SUFFICES ASSUME VInit PROVE RestTypes /\ NamesLead /\ ColdInd
  BY Zenon
<1>1. RestTypes
  BY ProvenanceAssumption DEF VInit, RestTypes, NoMark
<1>2. NamesLead
  BY Zenon DEF VInit, NamesLead
<1>3. ColdInd
  BY Zenon DEF VInit, ColdInd, WritersHaveBit, HasBit, NoCall, NoMark
<1> QED BY <1>1, <1>2, <1>3, Zenon

\* The counters, the posture and the execute bits.
LEMMA PostureStep ==
    ASSUME VInd, RestTypes, [VNext]_vvars
    PROVE  /\ wants' \in BOOLEAN /\ armed' \in BOOLEAN /\ evictions' \in Nat /\ reloads' \in Nat
           /\ reloads' = 0 => wants' = armed'
           /\ Quiet' => Quiet
<1>1. CASE LoadPolicies
  BY <1>1 DEF LoadPolicies, RestTypes, Quiet, taintVars
<1>2. CASE SetTaintedCodePosture
  BY <1>2, Zenon DEF SetTaintedCodePosture, RestTypes, Quiet, taintVars
<1>3. CASE UNCHANGED ruleVars /\ (UNCHANGED evictions \/ evictions' = evictions + 1)
  BY <1>3 DEF ruleVars, RestTypes, Quiet
<1>4. ASSUME NEW t \in Tasks,
             \/ \E p \in Paths : OpenEnter(t, p) \/ ChmodEnter(t, p)
             \/ file_open_write(t) \/ taint_write_path(t) \/ taint_write_load(t) \/ taint_write_inode(t)
             \/ \E p, q \in Paths, swap \in BOOLEAN : rename_lookup(t, p, q, swap)
             \/ \E ok \in BOOLEAN : path_rename(t, ok)
             \/ path_chmod(t)
      PROVE  UNCHANGED ruleVars /\ UNCHANGED evictions
  BY <1>4, Zenon DEF OpenEnter, ChmodEnter, file_open_write, taint_write_path, taint_write_load, taint_write_inode,
              rename_lookup, path_rename, path_chmod, taintVars
<1>5. ASSUME \/ \E d, e \in Dirs : d # e /\ rename_dir(d, e)
             \/ \E p, q \in Paths : rename_outside(p, q) \/ Link(p, q)
             \/ \E p \in Paths : path_unlink(p)
             \/ \E k \in Keys : Evict(k)
             \/ \E i \in Inodes : MemfdCreate(i) \/ Reclaim(i)
             \/ TakeEvent \/ TaintLookup \/ TaintPut \/ UNCHANGED vvars
      PROVE  UNCHANGED ruleVars /\ (UNCHANGED evictions \/ evictions' = evictions + 1)
  BY <1>5, Zenon DEF rename_dir, rename_outside, Link, path_unlink, Evict, MemfdCreate, Reclaim,
              TakeEvent, TaintLookup, TaintPut, vvars, taintVars
<1> QED BY <1>1, <1>2, <1>3, <1>4, <1>5, Zenon DEF VNext

\* Only inodes carry the execute bit.
LEMMA ExecBitStep ==
    ASSUME VInd, RestTypes, [VNext]_vvars
    PROVE  execBit' \subseteq Inodes
<1>1. ASSUME NEW e, NEW pairs, Relinked(e, pairs) PROVE execBit' \subseteq Inodes
  BY <1>1, Zenon DEF Relinked, RestTypes
<1>2. ASSUME NEW t \in Tasks, path_chmod(t) PROVE execBit' \subseteq Inodes
  <2>1. call[t].path \in Paths
    BY <1>2, Zenon DEF path_chmod, VInd, CallsSound, CallSound
  <2>2. ent[call[t].path] \in Inodes \cup {NoInode}
    BY <2>1, Zenon DEF VInd, VTypes, Tree
  <2> QED BY <1>2, <2>2, Zenon DEF path_chmod, RestTypes
<1>3. ASSUME NEW t \in Tasks, NEW ok \in BOOLEAN, path_rename(t, ok) PROVE execBit' \subseteq Inodes
  BY <1>1, <1>3, Zenon DEF path_rename, RestTypes
<1>4. ASSUME \/ \E d, e \in Dirs : d # e /\ rename_dir(d, e)
             \/ \E p, q \in Paths : rename_outside(p, q)
             \/ \E p \in Paths : path_unlink(p)
      PROVE  execBit' \subseteq Inodes
  BY <1>1, <1>4, Zenon DEF rename_dir, rename_outside, path_unlink
<1>5. ASSUME NEW t \in Tasks,
             \/ \E p \in Paths : OpenEnter(t, p) \/ ChmodEnter(t, p)
             \/ file_open_write(t) \/ taint_write_path(t) \/ taint_write_load(t) \/ taint_write_inode(t)
             \/ \E p, q \in Paths, swap \in BOOLEAN : rename_lookup(t, p, q, swap)
      PROVE  execBit' \subseteq Inodes
  BY <1>5, Zenon DEF OpenEnter, ChmodEnter, file_open_write, taint_write_path, taint_write_load, taint_write_inode,
              rename_lookup, fsVars, RestTypes
<1>6. ASSUME \/ \E p, q \in Paths : Link(p, q)
             \/ \E k \in Keys : Evict(k)
             \/ \E i \in Inodes : MemfdCreate(i) \/ Reclaim(i)
             \/ TakeEvent \/ TaintLookup \/ TaintPut \/ LoadPolicies \/ SetTaintedCodePosture
             \/ UNCHANGED vvars
      PROVE  execBit' \subseteq Inodes
  BY <1>6, Zenon DEF Link, Evict, MemfdCreate, Reclaim, TakeEvent, TaintLookup, TaintPut, LoadPolicies,
              SetTaintedCodePosture, vvars, fsVars, RestTypes
<1> QED BY <1>2, <1>3, <1>4, <1>5, <1>6, Zenon DEF VNext

\* The steps that leave the daemon's side alone.
Idle == UNCHANGED <<events, rmw>>

\* What a step does to the queue and to the daemon's write.
LEMMA DaemonMoves ==
    ASSUME [VNext]_vvars
    PROVE  \/ Idle
           \/ \E op \in {"write", "read"}, p \in Paths : Emit(op, p) /\ UNCHANGED rmw
           \/ TakeEvent \/ TaintLookup \/ TaintPut
<1>1. ASSUME NEW t \in Tasks,
             \/ file_open_write(t) \/ taint_write_path(t) \/ taint_write_load(t) \/ taint_write_inode(t)
             \/ \E p, q \in Paths, swap \in BOOLEAN : rename_lookup(t, p, q, swap)
             \/ \E ok \in BOOLEAN : path_rename(t, ok)
             \/ path_chmod(t)
      PROVE  Idle
  BY <1>1, Zenon DEF file_open_write, taint_write_path, taint_write_load, taint_write_inode,
              rename_lookup, path_rename, path_chmod, daemonVars, Idle
<1>2. ASSUME \/ \E d, e \in Dirs : d # e /\ rename_dir(d, e)
             \/ \E p, q \in Paths : rename_outside(p, q) \/ Link(p, q)
             \/ \E p \in Paths : path_unlink(p)
             \/ \E k \in Keys : Evict(k)
             \/ \E i \in Inodes : MemfdCreate(i) \/ Reclaim(i)
             \/ LoadPolicies \/ SetTaintedCodePosture \/ UNCHANGED vvars
      PROVE  Idle
  BY <1>2, Zenon DEF rename_dir, rename_outside, Link, path_unlink, Evict, MemfdCreate, Reclaim,
              LoadPolicies, SetTaintedCodePosture, vvars, daemonVars, Idle
<1>3. ASSUME NEW t \in Tasks, NEW p \in Paths, OpenEnter(t, p) \/ ChmodEnter(t, p)
      PROVE  \E op \in {"write", "read"} : Emit(op, p) /\ UNCHANGED rmw
  BY <1>3, Zenon DEF OpenEnter, ChmodEnter
<1> QED BY <1>1, <1>2, <1>3, Zenon DEF VNext

\* The queue stays within MaxEvents, and one mark is worked on at a time.
LEMMA QueueStep ==
    ASSUME VInd, RestTypes, [VNext]_vvars
    PROVE  Len(events') <= MaxEvents /\ Len(rmw'.todo) <= 1
<1>0. /\ events \in Seq(FileEvents) /\ rmw.todo \in Seq(FileMarks) /\ MaxEvents \in Nat
      /\ Len(events) <= MaxEvents /\ Len(rmw.todo) <= 1
      /\ rmw \in [todo : Seq(FileMarks), write : MarkWrites]
  BY ProvenanceAssumption, Zenon DEF VInd, DaemonTypes, RestTypes
<1>1. CASE Idle
  BY <1>0, <1>1, Zenon DEF Idle
<1>2. ASSUME NEW op \in {"write", "read"}, NEW p \in Paths, Emit(op, p), UNCHANGED rmw
      PROVE  Len(events') <= MaxEvents /\ Len(rmw'.todo) <= 1
  <2> DEFINE r == [op |-> op, path |-> p]
  <2>1. events' = IF Len(events) < MaxEvents THEN Append(events, r) ELSE events
    BY <1>2, Zenon DEF Emit, Room
  <2> HIDE DEF r
  <2> QED BY <1>0, <1>2, <2>1
<1>3. CASE TakeEvent
  <2>1. events # <<>> /\ events' = Tail(events) /\ rmw' = Begun(Marks(Head(events)))
    BY <1>3, Zenon DEF TakeEvent
  <2>2. Head(events) \in FileEvents
    BY <1>0, <2>1
  <2>3. Marks(Head(events)) \in Seq(FileMarks)
    BY <2>2, MarksShape, Zenon
  <2>4. Len(Marks(Head(events))) <= 2
    BY <2>2, MarksShape, Zenon
  <2> QED BY <1>0, <2>1, <2>3, <2>4, BegunShape
<1>4. CASE TaintLookup
  <2>1. events' = events /\ rmw' = Begun(rmw.todo)
    BY <1>4, Zenon DEF TaintLookup
  <2> QED BY <1>0, <2>1, BegunShape
<1>5. CASE TaintPut
  <2>1. events' = events /\ rmw' = [rmw EXCEPT !.write = NoWrite]
    BY <1>5, Zenon DEF TaintPut
  <2> QED BY <1>0, <2>1, Zenon
<1> QED BY <1>1, <1>2, <1>3, <1>4, <1>5, DaemonMoves, Zenon

\* The remaining types over every step.
LEMMA RestStep ==
    ASSUME VInd, RestTypes, [VNext]_vvars
    PROVE  RestTypes'
  BY PostureStep, ExecBitStep, QueueStep, Zenon DEF RestTypes

\* Names lead where named says: a rename, an unlink or a link takes no pair
\* along that it breaks, and an open creates a file only where there is none.
LEMMA NamesStep ==
    ASSUME VInd, NamesLead, [VNext]_vvars
    PROVE  NamesLead'
<1> USE ProvenanceAssumption
<1>0. ent \in Tree /\ DOMAIN ent = Paths \cup {Anon}
  BY Zenon DEF VInd, VTypes, Tree
<1>1. ASSUME NEW e \in Tree, NEW pairs, Relinked(e, pairs), \A x \in pairs : x[1] \in Paths /\ x[2] \in Inodes
      PROVE  NamesLead'
  BY <1>1, Zenon DEF Relinked, NamesLead
<1>2. CASE named' = named /\ \A p \in Paths : ent[p] \in Inodes => ent'[p] = ent[p]
  BY <1>2, Zenon DEF NamesLead
<1>3. ASSUME NEW t \in Tasks, file_open_write(t) PROVE NamesLead'
  <2>1. call[t].path \in Paths
    BY <1>3, Zenon DEF file_open_write, VInd, CallsSound, CallSound
  <2>2. named' = named /\ \A p \in Paths : ent[p] \in Inodes => ent'[p] = ent[p]
    BY <1>0, <1>3, <2>1 DEF file_open_write, histVars, Tree
  <2> QED BY <1>2, <2>2, Zenon
<1>4. ASSUME NEW t \in Tasks, taint_write_path(t) PROVE NamesLead'
  <2> DEFINE x == <<call[t].path, call[t].ino>>
  <2>1. call[t].path \in Paths /\ call[t].ino \in Inodes
    BY <1>4 DEF taint_write_path, VInd, CallsSound, CallSound
  <2>2. ent' = ent /\ (named' = named \/ (named' = named \cup {x} /\ ent[call[t].path] = call[t].ino))
    BY <1>4, Zenon DEF taint_write_path, fsVars
  <2>3. x[1] = call[t].path /\ x[2] = call[t].ino
    BY Zenon
  <2> HIDE DEF x
  <2> QED BY <2>1, <2>2, <2>3, Zenon DEF NamesLead
<1>5. ASSUME NEW t \in Tasks, NEW ok \in BOOLEAN, path_rename(t, ok) PROVE NamesLead'
  <2> DEFINE p == call[t].path
             q == call[t].to
  <2>1. p \in Paths /\ q \in Paths /\ call[t].carries \in Pairs
    BY <1>5, Zenon DEF path_rename, VInd, VTypes, CallsSound, CallSound, Calls
  <2>2. CASE ~ok
    BY <1>2, <1>5, <2>2, Zenon DEF path_rename, histVars
  <2>3. CASE ok
    <3>1. PICK e \in {Moved(p, q), Swapped(p, q)} : Relinked(e, named \cup call[t].carries)
      BY <1>5, <2>3, Zenon DEF path_rename
    <3>2. \A y \in call[t].carries : y[1] \in Paths /\ y[2] \in Inodes
      BY <2>1 DEF Pairs
    <3>3. \A y \in named \cup call[t].carries : y[1] \in Paths /\ y[2] \in Inodes
      BY <3>2, Zenon DEF NamesLead
    <3>4. e \in Tree
      BY <2>1, <3>1, MovedNames, Zenon
    <3> QED BY Zenon, <1>1, <3>1, <3>3, <3>4
  <2> QED BY <2>2, <2>3, Zenon
<1>6. ASSUME NEW p \in Paths, NEW q \in Paths, rename_outside(p, q) \/ Link(p, q) PROVE NamesLead'
  <2>1. CASE rename_outside(p, q)
    BY <1>1, <2>1, MovedNames, Zenon DEF rename_outside, NamesLead
  <2>2. CASE Link(p, q)
    <3>1. named' = named /\ \A n \in Paths : ent[n] \in Inodes => ent'[n] = ent[n]
      BY <1>0, <2>2, Zenon DEF Link, histVars, Tree
    <3> QED BY <1>2, <3>1, Zenon
  <2> QED BY <1>6, <2>1, <2>2, Zenon
<1>7. ASSUME NEW p \in Paths, path_unlink(p) PROVE NamesLead'
  <2>1. [ent EXCEPT ![p] = NoInode] \in Tree
    BY <1>0, Zenon DEF Tree
  <2> QED BY <1>1, <1>7, <2>1, Zenon DEF path_unlink, NamesLead
<1>8. ASSUME NEW d \in Dirs, NEW x \in Dirs, rename_dir(d, x) PROVE NamesLead'
  <2> DEFINE under(y) == {p \in Paths : Parent(p) = y}
             from(n) == Append(d, Base(n))
             e == [n \in DOMAIN ent |->
                     IF n \in under(d) THEN NoInode
                     ELSE IF n \notin under(x) THEN ent[n]
                     ELSE IF from(n) \in Paths THEN ent[from(n)] ELSE NoInode]
  <2>1. Relinked(e, named)
    BY <1>8, Zenon DEF rename_dir
  <2> HIDE DEF from
  <2>2. e \in Tree
    BY <1>0, Zenon DEF Tree
  <2> HIDE DEF e
  <2> QED BY <1>1, <2>1, <2>2, Zenon DEF NamesLead
<1>9. ASSUME NEW i \in Inodes, MemfdCreate(i) \/ Reclaim(i) PROVE NamesLead'
  <2>1. named' = named /\ \A n \in Paths : ent'[n] = ent[n]
    BY <1>0, <1>9, Zenon DEF MemfdCreate, Reclaim, Tree
  <2> QED BY <1>2, <2>1, Zenon
<1>10. ASSUME NEW t \in Tasks,
              \/ \E p \in Paths : OpenEnter(t, p) \/ ChmodEnter(t, p)
              \/ taint_write_load(t) \/ taint_write_inode(t) \/ path_chmod(t)
              \/ \E p, q \in Paths, swap \in BOOLEAN : rename_lookup(t, p, q, swap)
       PROVE  NamesLead'
  BY <1>2, <1>10, Zenon DEF OpenEnter, ChmodEnter, taint_write_load, taint_write_inode, path_chmod,
                     rename_lookup, histVars, fsVars
<1>11. ASSUME \/ \E k \in Keys : Evict(k)
              \/ TakeEvent \/ TaintLookup \/ TaintPut \/ LoadPolicies \/ SetTaintedCodePosture
              \/ UNCHANGED vvars
       PROVE  NamesLead'
  BY <1>2, <1>11, Zenon DEF Evict, TakeEvent, TaintLookup, TaintPut, LoadPolicies, SetTaintedCodePosture,
                     vvars, histVars, fsVars
<1> QED BY <1>3, <1>4, <1>5, <1>6, <1>7, <1>8, <1>9, <1>10, <1>11, Zenon DEF VNext

\* Types and names, for any number of threads, names and inodes: the queue of
\* events and the calls the daemon still owes stay within their bounds, and
\* named tells only of names that lead to the file (bpf/enforcer.bpf.c:43-84,
\* 384-406; internal/enforce/enforce.go:677-758).
THEOREM VTypeCorrect == VSpec => []VTypeOK
<1>1. VInit => VInd /\ RestTypes /\ NamesLead
  BY VIndInit, RestInit, Zenon
<1>2. VInd /\ RestTypes /\ NamesLead /\ [VNext]_vvars => (VInd /\ RestTypes /\ NamesLead)'
  BY VIndNext, RestStep, NamesStep, Zenon
<1>3. VInd /\ RestTypes /\ NamesLead => VTypeOK
  <2> SUFFICES ASSUME VInd, RestTypes, NamesLead PROVE VTypeOK
    BY Zenon
  <2>1. \A c \in Calls : c.at \in 0..4 /\ c.tv \subseteq Taints
    BY Zenon DEF Calls, Steps, Words
  <2>2. \A t \in Tasks : call[t].at \in 0..4 /\ call[t].tv \subseteq Taints
    BY <2>1, Zenon DEF VInd, VTypes
  <2> QED BY <2>2, Zenon DEF VInd, VTypes, Tree, RestTypes, NamesLead, VTypeOK
<1> QED BY <1>1, <1>2, <1>3, PTL DEF VSpec
-----------------------------------------------------------------------------
\* A step that writes no path key without the bit keeps every bit.
LEMMA ColdKept ==
    ASSUME VInd, NamesLead, ColdInd, Quiet' => Quiet, UNCHANGED rmw,
           \A k \in Keys : pathTaint'[k] = pathTaint[k] \/ "written" \in pathTaint'[k],
           Quiet => \A t \in Tasks : \/ call'[t] = call[t]
                                     \/ call'[t].op # "rename"
                                     \/ RenameHas(call'[t]),
           Quiet => \A x \in named' : x \in named \/ "written" \in pathTaint'[d_path(x[1])]
    PROVE  ColdInd'
<1> SUFFICES ASSUME Quiet, Quiet' PROVE WritersHaveBit' /\ \A x \in named' : "written" \in pathTaint'[d_path(x[1])]
  BY Zenon DEF ColdInd
<1>1. WritersHaveBit /\ \A x \in named : "written" \in pathTaint[d_path(x[1])]
  BY Zenon DEF ColdInd
<1>2. \A k \in Keys : HasBit(pathTaint'[k]) /\ ("written" \in pathTaint[k] => "written" \in pathTaint'[k])
  BY <1>1, Zenon DEF WritersHaveBit, HasBit
<1>3. rmw.todo # <<>> => rmw.todo[1].key \in Keys
  <2>1. rmw.todo \in Seq(FileMarks)
    BY Zenon DEF VInd, DaemonTypes
  <2>2. rmw.todo # <<>> => rmw.todo[1] \in FileMarks
    BY <2>1
  <2> QED BY <2>2, Zenon DEF FileMarks
<1>4. \A t \in Tasks : call'[t].op = "rename" => RenameHas(call'[t])
  BY <1>1, Zenon DEF WritersHaveBit
<1>5. WritersHaveBit'
  BY <1>1, <1>2, <1>3, <1>4, Zenon DEF WritersHaveBit, HasBit
<1>6. \A x \in named' : "written" \in pathTaint'[d_path(x[1])]
  BY <1>1, <1>2, NameKeys, Zenon DEF NamesLead
<1> QED BY <1>5, <1>6, Zenon

\* What the daemon has in hand after a Lookup has the bit.
LEMMA BegunCold ==
    ASSUME VTypes, NEW marks \in Seq(FileMarks), Len(marks) <= 2,
           Len(marks) > 0 => "written" \in marks[1].bits \cup pathTaint[marks[1].key],
           Len(marks) = 2 => marks[2].key = marks[1].key,
           NEW b, b = Begun(marks)
    PROVE  /\ b.write # NoWrite => "written" \in b.write.cur \cup b.write.bits
           /\ b.todo # <<>> => IF b.write = NoWrite THEN "written" \in pathTaint[b.todo[1].key]
                               ELSE b.todo[1].key = b.write.key
<1>1. CASE marks = <<>>
  BY <1>1, Zenon DEF Begun, NoMark
<1>2. CASE marks # <<>>
  <2> DEFINE m == marks[1]
             w == [key |-> m.key, cur |-> pathTaint[m.key], bits |-> m.bits]
  <2>1. Head(marks) = m /\ m \in FileMarks /\ Len(marks) > 0
    BY <1>2
  <2>2. m.bits \in SUBSET Taints
    BY <2>1, Zenon DEF FileMarks
  <2>3. b.todo = Tail(marks) /\ b.write = IF m.bits \subseteq pathTaint[m.key] THEN NoWrite ELSE w
    BY <1>2, <2>1, Zenon DEF Begun
  <2>4. b.todo # <<>> => b.todo[1].key = m.key
    <3> SUFFICES ASSUME b.todo # <<>> PROVE b.todo[1].key = m.key
      BY Zenon
    <3>1. Tail(marks) \in Seq(FileMarks) /\ Len(Tail(marks)) = Len(marks) - 1
      BY <1>2
    <3>2. Len(Tail(marks)) > 0
      BY <2>3, <3>1
    <3>3. Len(marks) = 2
      BY <2>1, <3>1, <3>2
    <3>4. \A i \in 1..Len(marks) - 1, j \in Nat : j = i + 1 => Tail(marks)[i] = marks[j]
      BY <1>2
    <3>5. 1 \in 1..Len(marks) - 1 /\ 2 \in Nat /\ 2 = 1 + 1
      BY <3>3
    <3>6. Tail(marks)[1] = marks[2]
      BY <3>4, <3>5, Zenon
    <3> QED BY <2>3, <3>3, <3>6, Zenon
  <2>5. w.key = m.key /\ w.cur = pathTaint[m.key] /\ w.bits = m.bits
    BY Zenon
  <2>6. w = NoWrite => m.bits = {}
    BY <2>5, Zenon DEF NoWrite
  <2>7. "written" \in m.bits \cup pathTaint[m.key]
    BY <2>1, Zenon
  <2> HIDE DEF w, m
  <2>8. CASE m.bits \subseteq pathTaint[m.key]
    BY <2>3, <2>4, <2>7, <2>8, Zenon
  <2>9. CASE ~(m.bits \subseteq pathTaint[m.key])
    <3>1. b.write = w /\ w # NoWrite
      BY <2>3, <2>6, <2>9, Zenon
    <3> QED BY <2>4, <2>5, <2>7, <3>1, Zenon
  <2> QED BY <2>8, <2>9, Zenon
<1> QED BY <1>1, <1>2, Zenon

\* TaintFile and TaintPersist.
LEMMA DaemonCold ==
    ASSUME VInd, RestTypes, NamesLead, ColdInd, Quiet' => Quiet, TakeEvent \/ TaintLookup \/ TaintPut
    PROVE  ColdInd'
<1> SUFFICES ASSUME Quiet, Quiet' PROVE WritersHaveBit' /\ \A x \in named' : "written" \in pathTaint'[d_path(x[1])]
  BY Zenon DEF ColdInd
<1>1. WritersHaveBit /\ (\A x \in named : "written" \in pathTaint[d_path(x[1])]) /\ VTypes /\ wants
  BY Zenon DEF ColdInd, VInd, Quiet, RestTypes
<1>2. /\ events \in Seq(FileEvents) /\ rmw.todo \in Seq(FileMarks) /\ Len(rmw.todo) <= 1
      /\ rmw.write \in MarkWrites /\ rmw \in [todo : Seq(FileMarks), write : MarkWrites]
  BY Zenon DEF VInd, DaemonTypes, RestTypes
<1>3. ASSUME NEW marks \in Seq(FileMarks), Len(marks) <= 2,
             Len(marks) > 0 => "written" \in marks[1].bits \cup pathTaint[marks[1].key],
             Len(marks) = 2 => marks[2].key = marks[1].key,
             rmw' = Begun(marks), UNCHANGED <<pathTaint, call, named>>
      PROVE  WritersHaveBit' /\ \A x \in named' : "written" \in pathTaint'[d_path(x[1])]
  <2>1. /\ rmw'.write # NoWrite => "written" \in rmw'.write.cur \cup rmw'.write.bits
        /\ rmw'.todo # <<>> => IF rmw'.write = NoWrite THEN "written" \in pathTaint[rmw'.todo[1].key]
                               ELSE rmw'.todo[1].key = rmw'.write.key
    BY <1>1, <1>3, BegunCold, Zenon
  <2> QED BY <1>1, <1>3, <2>1, Zenon DEF WritersHaveBit, HasBit
<1>4. CASE TakeEvent
  <2> DEFINE marks == Marks(Head(events))
  <2>1. events # <<>> /\ rmw' = Begun(marks) /\ UNCHANGED <<pathTaint, call, named>>
    BY <1>4, Zenon DEF TakeEvent, taintVars, histVars
  <2>2. Head(events) \in FileEvents
    BY <1>2, <2>1
  <2>3. marks \in Seq(FileMarks)
    BY <2>2, MarksShape, Zenon
  <2>4. /\ Len(marks) <= 2 /\ (Len(marks) > 0 => "written" \in marks[1].bits)
        /\ Len(marks) = 2 => marks[2].key = marks[1].key
    BY <1>1, <2>2, MarksShape, Zenon
  <2> HIDE DEF marks
  <2> QED BY <1>3, <2>1, <2>3, <2>4, Zenon
<1>5. CASE TaintLookup
  <2>1. /\ rmw.write = NoWrite /\ rmw.todo # <<>> /\ rmw' = Begun(rmw.todo)
        /\ UNCHANGED <<pathTaint, call, named>>
    BY <1>5, Zenon DEF TaintLookup, taintVars, histVars
  <2>2. "written" \in pathTaint[rmw.todo[1].key]
    BY <1>1, <2>1, Zenon DEF WritersHaveBit
  <2> QED BY <1>2, <1>3, <2>1, <2>2
<1>6. CASE TaintPut
  <2> DEFINE w == rmw.write
  <2>1. /\ w # NoWrite /\ pathTaint' = [pathTaint EXCEPT ![w.key] = w.cur \cup w.bits]
        /\ rmw' = [rmw EXCEPT !.write = NoWrite] /\ UNCHANGED <<call, named>>
    BY <1>6, Zenon DEF TaintPut, Accumulated, histVars
  <2>2. w \in [key : Keys, cur : SUBSET Taints, bits : SUBSET Taints]
    BY <1>2, <2>1, Zenon DEF MarkWrites
  <2>3. w.key \in Keys /\ "written" \in w.cur \cup w.bits
    BY <1>1, <2>1, <2>2, Zenon DEF WritersHaveBit
  <2>4. \A k \in Keys : pathTaint'[k] = IF k = w.key THEN w.cur \cup w.bits ELSE pathTaint[k]
    BY <1>1, <2>1, <2>3, Zenon DEF VTypes
  <2>5. rmw'.write = NoWrite /\ rmw'.todo = rmw.todo
    BY <1>2, <2>1, Zenon
  <2>6. rmw.todo # <<>> => rmw.todo[1].key = w.key
    BY <1>1, <2>1, Zenon DEF WritersHaveBit
  <2> HIDE DEF w
  <2>7. WritersHaveBit'
    <3>1. \A k \in Keys : HasBit(pathTaint'[k])
      BY <1>1, <2>3, <2>4, Zenon DEF WritersHaveBit, HasBit
    <3>2. \A t \in Tasks : call'[t].op = "rename" => RenameHas(call'[t])
      BY <1>1, <2>1, Zenon DEF WritersHaveBit
    <3>3. rmw'.todo # <<>> => "written" \in pathTaint'[rmw'.todo[1].key]
      BY <2>3, <2>4, <2>5, <2>6, Zenon
    <3> QED BY <2>5, <3>1, <3>2, <3>3, Zenon DEF WritersHaveBit, HasBit
  <2>8. \A x \in named' : "written" \in pathTaint'[d_path(x[1])]
    BY <1>1, <2>1, <2>3, <2>4, NameKeys, Zenon DEF NamesLead
  <2> QED BY <2>7, <2>8, Zenon
<1> QED BY <1>4, <1>5, <1>6, Zenon

\* The hooks.
LEMMA HooksCold ==
    ASSUME VInd, RestTypes, NamesLead, ColdInd, Quiet' => Quiet, NEW t \in Tasks,
           \/ \E p \in Paths : OpenEnter(t, p) \/ ChmodEnter(t, p)
           \/ file_open_write(t) \/ taint_write_path(t) \/ taint_write_load(t) \/ taint_write_inode(t)
           \/ \E p, q \in Paths, swap \in BOOLEAN : rename_lookup(t, p, q, swap)
           \/ \E ok \in BOOLEAN : path_rename(t, ok)
           \/ path_chmod(t)
    PROVE  ColdInd'
<1>0. call \in [Tasks -> Calls] /\ pathTaint \in [Keys -> SUBSET Taints] /\ call[t] \in Calls
  BY Zenon DEF VInd, VTypes
<1>1. ASSUME NEW c, call' = [call EXCEPT ![t] = c], Quiet => (c.op # "rename" \/ RenameHas(c)),
             UNCHANGED rmw, \A k \in Keys : pathTaint'[k] = pathTaint[k] \/ "written" \in pathTaint'[k],
             Quiet => \A x \in named' : x \in named \/ "written" \in pathTaint'[d_path(x[1])]
      PROVE  ColdInd'
  <2>1. \A u \in Tasks : call'[u] = IF u = t THEN c ELSE call[u]
    BY Zenon, <1>0, <1>1
  <2> QED BY <1>1, <2>1, ColdKept, Zenon
<1>2. ASSUME NEW c, call' = [call EXCEPT ![t] = c], c.op # "rename", UNCHANGED <<rmw, pathTaint, named>>
      PROVE  ColdInd'
  BY Zenon, <1>1, <1>2
<1>3. NoCall.op # "rename"
  BY Zenon DEF NoCall
<1>4. ASSUME NEW p \in Paths, OpenEnter(t, p) \/ ChmodEnter(t, p) PROVE ColdInd'
  <2>1. UNCHANGED <<rmw, pathTaint, named>>
    BY <1>4, Zenon DEF OpenEnter, ChmodEnter, taintVars, histVars
  <2>2. PICK op \in {"write", "chmod"} :
           call' = [call EXCEPT ![t] = [NoCall EXCEPT !.op = op, !.at = 1, !.path = p]]
    BY <1>4, Zenon DEF OpenEnter, ChmodEnter
  <2>3. [NoCall EXCEPT !.op = op, !.at = 1, !.path = p].op # "rename"
    BY Zenon DEF NoCall
  <2> QED BY Zenon, <1>2, <2>1, <2>2, <2>3
<1>5. CASE file_open_write(t)
  <2>1. UNCHANGED <<rmw, pathTaint, named>> /\ call[t].op = "write"
    BY <1>5, Zenon DEF file_open_write, taintVars, histVars, daemonVars
  <2>2. PICK i \in Inodes : \E d \in {NoCall, [call[t] EXCEPT !.at = 2, !.ino = i, !.tv = LookedUp(call[t].path, i)]} :
           call' = [call EXCEPT ![t] = d]
    BY <1>5, Zenon DEF file_open_write
  <2>3. PICK d \in {NoCall, [call[t] EXCEPT !.at = 2, !.ino = i, !.tv = LookedUp(call[t].path, i)]} :
           call' = [call EXCEPT ![t] = d]
    BY Zenon, <2>2
  <2>4. d.op # "rename"
    BY <1>0, <1>3, <2>1, Zenon DEF Calls
  <2> QED BY Zenon, <1>2, <2>1, <2>3, <2>4
<1>6. CASE taint_write_path(t)
  <2> DEFINE c == [call[t] EXCEPT !.at = 3]
             x == <<call[t].path, call[t].ino>>
  <2>1. call[t].op = "write" /\ call[t].at = 2
    BY <1>6, Zenon DEF taint_write_path
  <2>2. call[t].path \in Paths /\ "written" \in call[t].tv
    BY <2>1 DEF VInd, CallsSound, CallSound
  <2>3. /\ UNCHANGED rmw /\ call' = [call EXCEPT ![t] = c]
        /\ pathTaint' = [pathTaint EXCEPT ![d_path(call[t].path)] = call[t].tv]
        /\ named' = named \/ named' = named \cup {x}
    BY <1>6, Zenon DEF taint_write_path, daemonVars
  <2>4. c.op # "rename"
    BY <1>0, <2>1, Zenon DEF Calls
  <2>5. x[1] = call[t].path
    BY Zenon
  <2> HIDE DEF c, x
  <2>6. \A k \in Keys : pathTaint'[k] = IF k = d_path(call[t].path) THEN call[t].tv ELSE pathTaint[k]
    BY Zenon, <1>0, <2>2, <2>3, NameKeys
  <2> QED BY Zenon, <1>1, <2>2, <2>3, <2>4, <2>5, <2>6, NameKeys
<1>7. CASE taint_write_load(t)
  <2> DEFINE c == [call[t] EXCEPT !.at = 4, !.iv = inoTaint[call[t].ino]]
  <2>1. call[t].op = "write" /\ call' = [call EXCEPT ![t] = c] /\ UNCHANGED <<rmw, pathTaint, named>>
    BY <1>7, Zenon DEF taint_write_load, taintVars, histVars, daemonVars
  <2>2. c.op # "rename"
    BY <1>0, <2>1, Zenon DEF Calls
  <2> HIDE DEF c
  <2> QED BY Zenon, <1>2, <2>1, <2>2
<1>8. CASE taint_write_inode(t) \/ path_chmod(t)
  BY <1>2, <1>3, <1>8, Zenon DEF taint_write_inode, path_chmod, taintVars, histVars, daemonVars
<1>9. ASSUME NEW p \in Paths, NEW q \in Paths, NEW swap \in BOOLEAN, rename_lookup(t, p, q, swap)
      PROVE  ColdInd'
  <2> DEFINE w == IF armed THEN pathTaint[SplitKey(p)] ELSE {}
             k == IF <<p, ent[p]>> \in named /\ ShortNames(p, q) THEN {<<q, ent[p]>>} ELSE {}
             c == [NoCall EXCEPT !.op = "rename", !.at = 1, !.path = p, !.to = q, !.swap = swap,
                                 !.tv = w, !.carries = k]
  <2>1. call' = [call EXCEPT ![t] = c] /\ UNCHANGED <<rmw, pathTaint, named>>
    BY <1>9, Zenon DEF rename_lookup, taintVars, histVars, daemonVars
  <2>2. c.tv = w /\ c.carries = k /\ c.to = q
    BY Zenon DEF NoCall
  <2>3. Quiet => HasBit(w)
    BY NameKeys, Zenon DEF ColdInd, WritersHaveBit, HasBit
  <2>4. ASSUME Quiet, NEW x \in k
        PROVE  x[1] = q /\ "written" \in w /\ SplitKey(q) = d_path(q)
    <3>1. x = <<q, ent[p]>> /\ <<p, ent[p]>> \in named /\ ShortNames(p, q)
      BY <2>4, Zenon
    <3>2. SplitKey(q) = d_path(q) /\ SplitKey(p) = d_path(p)
      BY <3>1, PathsAssumption, SplitIsRendered, Zenon DEF SplitKey, ShortNames
    <3>3. <<p, ent[p]>>[1] = p /\ <<q, ent[p]>>[1] = q
      BY Zenon
    <3>4. "written" \in pathTaint[d_path(p)]
      BY <2>4, <3>1, <3>3, Zenon DEF ColdInd
    <3> QED BY <2>4, <3>1, <3>2, <3>3, <3>4, Zenon DEF Quiet
  <2> HIDE DEF w, k, c
  <2>5. Quiet => RenameHas(c)
    BY <2>2, <2>3, <2>4, Zenon DEF RenameHas
  <2> QED BY Zenon, <1>1, <2>1, <2>5
<1>10. ASSUME NEW ok \in BOOLEAN, path_rename(t, ok) PROVE ColdInd'
  <2> DEFINE q == call[t].to
             tv == call[t].tv
             k == call[t].carries
  <2>1. call[t].op = "rename" /\ q \in Paths
    BY <1>10, Zenon DEF path_rename, VInd, CallsSound, CallSound
  <2>2. call' = [call EXCEPT ![t] = NoCall] /\ UNCHANGED rmw /\ pathTaint' = Copied(tv, q)
    BY <1>10, Zenon DEF path_rename, daemonVars
  <2>3. named' \subseteq named \cup k
    BY <1>10, Zenon DEF path_rename, Relinked, histVars
  <2>4. CASE Quiet
    <3>1. HasBit(tv) /\ \A x \in k : x[1] = q /\ "written" \in tv /\ SplitKey(q) = d_path(q)
      BY <2>1, <2>4, Zenon DEF ColdInd, WritersHaveBit, RenameHas
    <3> HIDE DEF q, tv, k
    <3>2. \A n \in Keys : pathTaint'[n] = IF tv # {} /\ n = SplitKey(q) THEN tv ELSE pathTaint[n]
      BY <1>0, <2>1, <2>2, NameKeys, Zenon DEF Copied
    <3>3. \A n \in Keys : pathTaint'[n] = pathTaint[n] \/ "written" \in pathTaint'[n]
      BY <3>1, <3>2, Zenon DEF HasBit
    <3>4. \A x \in k : "written" \in pathTaint'[d_path(x[1])]
      BY <2>1, <3>1, <3>2, NameKeys, Zenon
    <3>5. \A x \in named' : x \in named \/ "written" \in pathTaint'[d_path(x[1])]
      BY <2>3, <3>4, Zenon
    <3> QED BY <1>1, <1>3, <2>2, <3>3, <3>5, Zenon
  <2>5. CASE ~Quiet
    BY <2>5, Zenon DEF ColdInd
  <2> QED BY <2>4, <2>5, Zenon
<1> QED BY <1>4, <1>5, <1>6, <1>7, <1>8, <1>9, <1>10, Zenon

\* No step that may come before an eviction or a reload takes the bit out of a
\* recorded path's word.
LEMMA ColdStep ==
    ASSUME VInd, RestTypes, NamesLead, ColdInd, [VNext]_vvars
    PROVE  ColdInd'
<1>1. Quiet' => Quiet
  BY PostureStep, Zenon
<1>2. ASSUME \/ \E d, e \in Dirs : d # e /\ rename_dir(d, e)
             \/ \E p, q \in Paths : rename_outside(p, q) \/ Link(p, q)
             \/ \E p \in Paths : path_unlink(p)
             \/ \E i \in Inodes : MemfdCreate(i) \/ Reclaim(i)
             \/ LoadPolicies \/ SetTaintedCodePosture \/ UNCHANGED vvars
      PROVE  ColdInd'
  <2>1. UNCHANGED <<rmw, pathTaint, call>> /\ named' \subseteq named
    BY <1>2, Zenon DEF rename_dir, rename_outside, Link, path_unlink, MemfdCreate, Reclaim, LoadPolicies,
                SetTaintedCodePosture, Relinked, vvars, taintVars, histVars, daemonVars
  <2> QED BY <1>1, <2>1, ColdKept, Zenon
<1>3. ASSUME NEW k \in Keys, Evict(k) PROVE ColdInd'
  <2>1. ~Quiet'
    BY <1>3 DEF Evict, Quiet, RestTypes
  <2> QED BY <2>1, Zenon DEF ColdInd
<1> QED BY <1>1, <1>2, <1>3, HooksCold, DaemonCold, Zenon DEF VNext

\* For any number of threads, names and inodes: a file that went cold is still
\* refused under the names the session wrote it by, and those to which a rename
\* that found a recorded name moved it, although ak_taint_write,
\* ak_lsm_path_rename, TaintFile and TaintPersist overwrite one another's words.
\* Names over AK_NAME_MAX and the other way of an exchange are excepted
\* (bpf/enforcer.bpf.c:63-75, 384-406;
\* internal/enforce/enforce.go:677-758).
THEOREM ColdRefusedAlways == VSpec => []ColdRefused
<1>1. VInit => VInd /\ RestTypes /\ NamesLead /\ ColdInd
  BY VIndInit, RestInit, Zenon
<1>2. VInd /\ RestTypes /\ NamesLead /\ ColdInd /\ [VNext]_vvars
        => (VInd /\ RestTypes /\ NamesLead /\ ColdInd)'
  BY VIndNext, RestStep, NamesStep, ColdStep, Zenon
<1>3. NamesLead /\ ColdInd => ColdRefused
  BY Zenon DEF NamesLead, ColdInd, Quiet, ColdRefused, ExecRefused, ak_deny_taint
<1> QED BY <1>1, <1>2, <1>3, PTL DEF VSpec

-----------------------------------------------------------------------------
(* What the hooks look up.                                                   *)

\* The directory rules that cover a path: those on one of its proper ancestors.
Covered(rs, p, op) ==
    \E r \in rs : r.op = op /\ r.map = "dir" /\ \E k \in 1..Len(p) - 1 : r.path = SubSeq(p, 1, k)

\* A rule set all of whose rules name paths that the daemon hashes whole.
OnPaths(rs) == \A r \in rs : IsPath(r.path) /\ Fits(r.path)

\* The key of such a rule is its path's.
LEMMA RuleKey ==
    ASSUME NEW rs, OnPaths(rs), NEW r \in rs
    PROVE  HashString(d_path(r.path)) = d_path(r.path)
BY Zenon DEF OnPaths, Fits, HashString

RuleOn(rs, m, p, op) == \E r \in rs : r.op = op /\ r.map = m /\ r.path = p

\* A lookup of a rendered path finds the rules on that path and no others.
LEMMA HitIsRule ==
    ASSUME NEW rs, OnPaths(rs), NEW m, NEW p, IsPath(p), NEW op
    PROVE  Hit(Installed(rs), m, d_path(p), op) <=> RuleOn(rs, m, p, op)
<1>1. ASSUME Hit(Installed(rs), m, d_path(p), op)
      PROVE  RuleOn(rs, m, p, op)
  <2>1. PICK r \in rs : [map |-> m, key |-> d_path(p), op |-> op]
                          = [map |-> r.map, key |-> HashString(d_path(r.path)), op |-> r.op]
    BY <1>1 DEF Hit, Installed
  <2>2. m = r.map /\ d_path(p) = d_path(r.path) /\ op = r.op
    BY <2>1, RuleKey
  <2> QED BY <2>2, RenderedOnce, Zenon DEF OnPaths, RuleOn
<1>2. ASSUME NEW r \in rs, r.op = op, r.map = m, r.path = p
      PROVE  Hit(Installed(rs), m, d_path(p), op)
  BY <1>2, RuleKey, Zenon DEF Hit, Installed
<1> QED BY <1>1, <1>2, Zenon DEF RuleOn

\* The single pass over a rendered path finds the rules on its proper ancestors.
LEMMA PassFindsAncestors ==
    ASSUME NEW rs, OnPaths(rs), NEW p, IsPath(p), NEW op
    PROVE  AncestorHit(Installed(rs), d_path(p), op) <=> Covered(rs, p, op)
<1>1. ASSUME AncestorHit(Installed(rs), d_path(p), op) PROVE Covered(rs, p, op)
  <2>1. PICK i \in 2..Len(d_path(p)) :
               d_path(p)[i] = "/" /\ Hit(Installed(rs), "dir", SubSeq(d_path(p), 1, i - 1), op)
    BY <1>1, Zenon DEF AncestorHit
  <2>2. i \in 2..2 * Len(p) /\ Len(p) \in Nat
    BY <2>1, RenderedPath
  <2>3. i % 2 = 1
    <3>1. SUFFICES ASSUME i % 2 # 1 PROVE FALSE
      OBVIOUS
    <3>2. PICK k : k = i \div 2
      OBVIOUS
    <3>3. k \in 1..Len(p) /\ i = 2 * k
      BY <2>2, <3>1, <3>2
    <3>4. d_path(p)[i] = p[k] /\ k \in DOMAIN p
      BY <3>3, RenderedPath
    <3> QED BY <2>1, <3>4, Zenon DEF IsPath
  <2>4. PICK k : k = (i - 1) \div 2
    OBVIOUS
  <2>5. k \in 1..Len(p) - 1 /\ k \in 1..Len(p) /\ i - 1 = 2 * k
    BY <2>2, <2>3, <2>4
  <2>6. IsPath(SubSeq(p, 1, k)) /\ Hit(Installed(rs), "dir", d_path(SubSeq(p, 1, k)), op)
    BY <2>1, <2>5, AncestorRendered
  <2>7. RuleOn(rs, "dir", SubSeq(p, 1, k), op)
    BY <2>6, HitIsRule
  <2> QED BY <2>5, <2>7, Zenon DEF Covered, RuleOn
<1>2. ASSUME Covered(rs, p, op) PROVE AncestorHit(Installed(rs), d_path(p), op)
  <2>1. PICK r \in rs, k \in 1..Len(p) - 1 : r.op = op /\ r.map = "dir" /\ r.path = SubSeq(p, 1, k)
    BY <1>2, Zenon DEF Covered
  <2>2. k \in 1..Len(p) /\ k + 1 \in 1..Len(p)
    BY RenderedPath
  <2>3. PICK i : i = 2 * (k + 1) - 1
    OBVIOUS
  <2>4. i \in 2..Len(d_path(p)) /\ i - 1 = 2 * k /\ d_path(p)[i] = "/"
    BY <2>2, <2>3, RenderedPath
  <2>5. RuleOn(rs, "dir", SubSeq(p, 1, k), op)
    BY <2>1, Zenon DEF RuleOn
  <2>6. IsPath(SubSeq(p, 1, k)) /\ SubSeq(d_path(p), 1, i - 1) = d_path(SubSeq(p, 1, k))
    BY <2>2, <2>4, AncestorRendered
  <2>7. Hit(Installed(rs), "dir", SubSeq(d_path(p), 1, i - 1), op)
    BY <2>5, <2>6, HitIsRule
  <2> QED BY <2>4, <2>7, Zenon DEF AncestorHit
<1> QED BY <1>1, <1>2, Zenon

\* The hooks that have the whole path decide as the rules ask.
LEMMA PathDecides ==
    ASSUME NEW rs, OnPaths(rs), NEW p, IsPath(p), NEW op
    PROVE  ak_enforce_path(Installed(rs), p, op) <=> Forbidden(rs, p, op)
<1>1. Forbidden(rs, p, op) <=> Covered(rs, p, op) \/ RuleOn(rs, "file", p, op)
  BY Zenon DEF Forbidden, Covered, RuleOn
<1>2. Hit(Installed(rs), "file", d_path(p), op) <=> RuleOn(rs, "file", p, op)
  BY HitIsRule
<1> QED BY <1>1, <1>2, PassFindsAncestors, Zenon DEF ak_enforce_path, ak_forbidden

\* The hooks that have a parent and a name decide as the rules ask.
LEMMA DentryDecides ==
    ASSUME NEW rs, OnPaths(rs), NEW p, IsPath(p), Base(p) \notin LongNames, NEW op
    PROVE  ak_enforce_dentry(Installed(rs), p, op) <=> Forbidden(rs, p, op)
<1>1. PICK d : d = Parent(p)
  OBVIOUS
<1>2. Forbidden(rs, p, op) <=> Covered(rs, p, op) \/ RuleOn(rs, "file", p, op)
  BY Zenon DEF Forbidden, Covered, RuleOn
<1>3. Hit(Installed(rs), "file", d_path(p), op) <=> RuleOn(rs, "file", p, op)
  BY HitIsRule
<1>4. ak_enforce_dentry(Installed(rs), p, op)
        <=> \/ AncestorHit(Installed(rs), d_path(d), op)
            \/ Hit(Installed(rs), "dir", d_path(d), op)
            \/ RuleOn(rs, "file", p, op)
  BY <1>1, <1>3, SplitIsRendered, Zenon DEF ak_enforce_dentry, ak_forbidden_split
<1>5. Len(p) \in Nat \ {0}
  BY RenderedPath, Zenon
<1>6. CASE Len(p) = 1
  <2>1. d = <<>> /\ d_path(d) = <<"/">>
    BY <1>1, <1>6 DEF Parent, d_path, IsPath
  <2>2. ~AncestorHit(Installed(rs), d_path(d), op)
    <3>1. Len(d_path(d)) = 1
      BY <2>1
    <3>2. 2..1 = {}
      OBVIOUS
    <3> QED BY <3>1, <3>2, Zenon DEF AncestorHit
  <2>3. ASSUME Hit(Installed(rs), "dir", d_path(d), op) PROVE FALSE
    <3>1. PICK r \in rs : [map |-> "dir", key |-> d_path(d), op |-> op]
                            = [map |-> r.map, key |-> HashString(d_path(r.path)), op |-> r.op]
      BY <2>3 DEF Hit, Installed
    <3>2. d_path(r.path) = <<"/">>
      BY <2>1, <3>1, RuleKey
    <3>3. Len(r.path) \in Nat \ {0} /\ Len(d_path(r.path)) = 2 * Len(r.path)
      BY RenderedPath DEF OnPaths
    <3> QED BY <3>2, <3>3
  <2>4. ~Covered(rs, p, op)
    BY <1>6 DEF Covered
  <2> QED BY <1>2, <1>4, <2>2, <2>3, <2>4, Zenon
<1>7. CASE Len(p) > 1
  <2>1. PICK m : m = Len(p) - 1
    OBVIOUS
  <2>2. m \in 1..Len(p) /\ m \in Nat \ {0} /\ d = SubSeq(p, 1, m)
    BY <1>1, <1>5, <1>7, <2>1 DEF Parent
  <2>3. IsPath(d)
    BY <2>2, AncestorRendered
  <2>4. /\ AncestorHit(Installed(rs), d_path(d), op) <=> Covered(rs, d, op)
        /\ Hit(Installed(rs), "dir", d_path(d), op) <=> RuleOn(rs, "dir", d, op)
    BY <2>3, PassFindsAncestors, HitIsRule
  <2>5. Len(d) = m /\ \A k \in 1..m - 1 : SubSeq(d, 1, k) = SubSeq(p, 1, k)
    BY <2>2 DEF IsPath
  <2>6. \A k : k \in 1..m <=> k \in 1..m - 1 \/ k = m
    BY <2>2
  <2>7. Covered(rs, p, op) <=> Covered(rs, d, op) \/ RuleOn(rs, "dir", d, op)
    <3>1. ASSUME Covered(rs, p, op) PROVE Covered(rs, d, op) \/ RuleOn(rs, "dir", d, op)
      <4>1. PICK r \in rs, k \in 1..m : r.op = op /\ r.map = "dir" /\ r.path = SubSeq(p, 1, k)
        BY <2>1, <3>1, Zenon DEF Covered
      <4>2. CASE k = m
        BY <2>2, <4>1, <4>2, Zenon DEF RuleOn
      <4>3. CASE k \in 1..m - 1
        <5>1. k \in 1..Len(d) - 1 /\ r.path = SubSeq(d, 1, k)
          BY <2>5, <4>1, <4>3, Zenon
        <5> QED BY <4>1, <5>1, Zenon DEF Covered
      <4> QED BY <2>6, <4>2, <4>3, Zenon
    <3>2. ASSUME Covered(rs, d, op) PROVE Covered(rs, p, op)
      <4>1. PICK r \in rs, k \in 1..m - 1 : r.op = op /\ r.map = "dir" /\ r.path = SubSeq(d, 1, k)
        BY <2>5, <3>2, Zenon DEF Covered
      <4>2. k \in 1..Len(p) - 1 /\ r.path = SubSeq(p, 1, k)
        BY <2>1, <2>5, <2>6, <4>1, Zenon
      <4> QED BY <4>1, <4>2, Zenon DEF Covered
    <3>3. ASSUME RuleOn(rs, "dir", d, op) PROVE Covered(rs, p, op)
      <4>1. PICK r \in rs : r.op = op /\ r.map = "dir" /\ r.path = SubSeq(p, 1, m)
        BY <2>2, <3>3, Zenon DEF RuleOn
      <4>2. m \in 1..Len(p) - 1
        BY <2>1, <2>6, Zenon
      <4> QED BY <4>1, <4>2, Zenon DEF Covered
    <3> QED BY <3>1, <3>2, <3>3, Zenon
  <2> QED BY <1>2, <1>4, <2>4, <2>7, Zenon
<1>8. Len(p) = 1 \/ Len(p) > 1
  <2>1. \A n \in Nat \ {0} : n = 1 \/ n > 1
    OBVIOUS
  <2> QED BY <1>5, <2>1, Zenon
<1> QED BY <1>6, <1>7, <1>8, Zenon

\* For every set of rules that the daemon hashes whole and paths of any depth:
\* the two forms of the lookup answer as the rules ask, files of the root directory
\* and the nodes of directories included; the second form for names that fit
\* AK_NAME_MAX (bpf/helpers.bpf.h:97-208; internal/bpf2frame/bpf2frame.go:272-288;
\* internal/enforce/enforce.go:254-279, 372-390).
THEOREM RulesMatchAlways == VSpec => []RulesMatch
<1>1. \A p \in MatchedPaths : IsPath(p)
  <2>1. ASSUME NEW p \in Paths, Parent(p) # <<>> PROVE IsPath(Parent(p))
    <3>1. IsPath(p)
      BY PathsAssumption, Zenon
    <3>2. PICK m : m = Len(p) - 1
      OBVIOUS
    <3>3. m \in 1..Len(p)
      BY <2>1, <3>1, <3>2, RenderedPath DEF Parent
    <3> QED BY <3>1, <3>2, <3>3, AncestorRendered, Zenon DEF Parent
  <2> QED BY <2>1, PathsAssumption, Zenon DEF Dirs, MatchedPaths
<1>2. \A rs \in SUBSET {r \in MatchRules : Fits(r.path)} : OnPaths(rs)
  BY PathsAssumption, Zenon DEF OnPaths
<1>3. RulesMatch
  BY <1>1, <1>2, PathDecides, DentryDecides, Zenon DEF RulesMatch, Answered
<1> QED BY <1>3, PTL
=============================================================================
