----------------------------- MODULE MCProvenance -----------------------------
(* Instances of Provenance for TLC.                                          *)
EXTENDS Provenance, TLC

MCCut(name) == "cut"

\* The name of the file in the root directory is too long for a hook's buffer.
MCPaths == {<<"l">>, <<"d", "a">>, <<"e", "a">>}

MCAnon == <<"memfd:">>

\* No rules, or: a directory protected with its node, a file of the root, and a
\* file and a directory kept from being run and opened.
Rule(m, p, op) == [map |-> m, path |-> p, op |-> op]
MCRules == {{}, {Rule("dir", <<"d">>, op) : op \in {"write", "rename", "delete", "chmod"}}
                  \cup {Rule("file", <<"d">>, op) : op \in {"rename", "delete"}}
                  \cup {Rule("file", <<"l">>, op) : op \in {"rename", "delete"}}
                  \cup {Rule("file", <<"e", "a">>, "exec"), Rule("dir", <<"e">>, "open")}}

MCMatch == {Rule(m, p, "write") : m \in {"file", "dir"},
                                  p \in {<<"a">>, <<"d">>, <<"d", "a">>, <<"d", "a", "b">>}}

\* One file, which the session did not write.
MCTrees == {[p \in MCPaths \cup {MCAnon} |-> IF p = <<"l">> THEN CHOOSE i \in Shebang : TRUE ELSE NoInode]}

MCPersist == {<<"d", "a">>}

MCSymmetry == Permutations(Tasks)
=============================================================================
