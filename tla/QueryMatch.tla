------------------------------ MODULE QueryMatch ------------------------------
(***************************************************************************)
(* The in-kernel matcher of outbound database payloads (bpf/stdio.bpf.c).  *)
(* A payload is                                                            *)
(*   wire      "sql" (COM_QUERY), "mongo" (OP_MSG) or another framing      *)
(*   name, at  the table or collection it names, and the offset of the     *)
(*             name, or of the BSON string length before the collection    *)
(*   anchored  a delimiter precedes the table; the collection is the first *)
(*             element of a body section                                   *)
(*   len       its length                                                  *)
(* Names are compared lowercased, and stand for themselves.                *)
(***************************************************************************)
EXTENDS Integers

CONSTANTS
    NameLen,    \* the length of each name
    Longer      \* <<n, m>> where the name m begins with n

DbScan == 64
DbPat == 16
Slots == 4

\* What installDBRule does not refuse to put in one of the slots.
Installable(n) == NameLen[n] > 0 /\ NameLen[n] <= DbPat

BeginsWith(m, n) == m = n \/ <<n, m>> \in Longer

ScanFixed(q, n) ==
    \E s \in 6..(DbScan - DbPat) : s = q.at /\ q.anchored /\ BeginsWith(q.name, n)

ak_db_match_slot(q, n) ==
    \E s \in 6..(DbScan - 2) :
        /\ s = q.at /\ q.anchored
        /\ s + NameLen[n] <= DbScan
        /\ BeginsWith(q.name, n)

\* A collection is compared with its terminator; the whole pattern's width must
\* lie inside the message, however short the collection.
ak_mongo_match_slot(q, n) ==
    \E cs \in 30..40 :
        /\ cs = q.at /\ q.anchored
        /\ cs + 4 + DbPat + 1 <= q.len
        /\ q.name = n

\* Whether the payload marks the process; tables are those in the slots.
ak_db_query_check(q, tables) ==
    /\ q.len >= 6
    /\ \E n \in tables : CASE q.wire = "mongo" -> ak_mongo_match_slot(q, n)
                           [] q.wire = "sql" -> ak_db_match_slot(q, n)
                           [] OTHER -> FALSE

\* The reference: a statement names the table as a token all of which lies in
\* the first DbScan bytes, after the header and one byte of statement.
NamesTable(q, n) ==
    /\ q.wire = "sql" /\ q.anchored /\ BeginsWith(q.name, n)
    /\ \A i \in q.at..(q.at + NameLen[n] - 1) : 6 <= i /\ i < DbScan

\* A whole command: the collection's length, name and terminator, then at least
\* a $db element for a database of one byte and the document's end.
Whole(q) == q.at + 4 + NameLen[q.name] + 1 + 12 <= q.len

\* A command names the collection after a verb of 3 to 13 bytes
\* ("findAndModify") and its terminator, which begin at offset 26.
NamesCollection(q, n) ==
    q.wire = "mongo" /\ q.anchored /\ q.name = n /\ q.at \in 26 + 3 + 1..26 + 13 + 1
=============================================================================
