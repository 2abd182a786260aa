---------------------------- MODULE MCPolicyReload ----------------------------
(* Instances of PolicyReload for TLC.                                        *)
EXTENDS PolicyReload, TLC

MCPrefixes == Ips \cup {"net"}

PathRule(m, p) == [map |-> m, key |-> p, op |-> "open"]

\* A rule set: path, directory, table and prefix rules, with a run-time verdict
\* on a second path.
MCWide == [kernel |-> {PathRule("file", "f"), PathRule("dir", "d"),
                       [map |-> "db", key |-> "t", op |-> "query"],
                       [map |-> "net", key |-> "net", op |-> "connect"]},
           late |-> {PathRule("file", "g")}, fqdn |-> {}]

\* Egress by name, and a run-time verdict on an address.
MCNames == [kernel |-> {PathRule("file", "f")}, late |-> {ExactDeny("b")},
            fqdn |-> {"a"}]

\* Names one of AgentKnox's own files.
MCOwn == [kernel |-> {PathRule("file", "self")}, late |-> {}, fqdn |-> {}]

\* Names an address by cidr and by fqdn.
MCBoth == [kernel |-> {ExactDeny("a")}, late |-> {}, fqdn |-> {"a"}]

MCDocs == {MCWide, MCNames}

MCOwnDocs == {MCOwn}

MCBothDocs == {MCBoth}

MCNamesDocs == {MCNames}

MCWideDocs == {MCWide}

MCRefusable ==
    {PathRule("file", "f"), PathRule("dir", "d"), ExactDeny("a"),
     [map |-> "dir", key |-> "d", op |-> "write"]}
=============================================================================
