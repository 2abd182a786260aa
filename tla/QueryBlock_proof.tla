---------------------------- MODULE QueryBlock_proof ----------------------------
(***************************************************************************)
(* The capture probes and the query block, for any number of processes,    *)
(* threads, goroutines, calls, descriptors, queries and tables.            *)
(*                                                                         *)
(* The return probes pair a read with its own buffer: always for DNS, and  *)
(* for TLS and pipes unless the entry had outlived its call (WInd).  In a  *)
(* process of one thread a denied query is refused and its mark consumed,  *)
(* whatever the daemon and other processes do (QInd).                      *)
(***************************************************************************)
EXTENDS QueryBlock, TLAPS

Dns == "ak_dns_read_args"

\* The stash maps: the DNS calls share one, and no other call uses it.
LEMMA StashMaps ==
    /\ Reads = {"SSL_read", "go_tls_read", "EVP_AEAD_CTX_open", "chacha20_poly1305_open",
                "aesni_gcm_decrypt", "aes_gcm_decrypt_avx512", "read", "recvfrom", "recvmsg"}
    /\ \A fn \in Reads : StashOf[fn] \in Stashes
    /\ \A fn \in Reads : StashOf[fn] = Dns <=> fn \in {"recvfrom", "recvmsg"}
<1>1. Reads = {"SSL_read", "go_tls_read", "EVP_AEAD_CTX_open", "chacha20_poly1305_open",
                "aesni_gcm_decrypt", "aes_gcm_decrypt_avx512", "read", "recvfrom", "recvmsg"}
  BY Zenon DEF Reads, StashOf
<1>2. \A fn \in Reads : StashOf[fn] \in Stashes
  BY Zenon DEF Stashes
<1>3. \A fn \in Reads : StashOf[fn] = Dns <=> fn \in {"recvfrom", "recvmsg"}
  BY <1>1 DEF StashOf, Dns
<1> QED BY <1>1, <1>2, <1>3, Zenon

Handles == Fds \cup {NoFd}
Counts == Lens \cup {0}

ProbeTypes ==
    /\ at \in [Flows -> Threads \cup {Nowhere}]
    /\ call \in [Flows -> Calls]
    /\ stash \in [Stashes -> [Threads -> Entries]]

\* Flow f is in the call that made the entry of thread t in map m.
Owns(f, m, t) ==
    /\ at[f] = t /\ call[f].fn \in Reads
    /\ StashOf[call[f].fn] = m /\ call[f].arg = stash[m][t].arg

\* An entry belongs to the call its thread is in, or is known to be left over.
Owned ==
    \A m \in Stashes, t \in Threads :
       stash[m][t] # NoStash => <<m, t>> \in suspect \/ \E f \in Flows : Owns(f, m, t)

\* No two flows run on one thread.
Apart == \A f, g \in Flows : at[f] = at[g] /\ at[f] # Nowhere => f = g

\* No entry of the DNS map is left over.
DnsClean == \A t \in Threads : <<Dns, t>> \notin suspect

RecordOwn ==
    /\ ReadOwn
    /\ last.fn \in {"recvfrom", "recvmsg"} => ~last.suspect

WInd == ProbeTypes /\ Owned /\ Apart /\ DnsClean /\ RecordOwn

\* The record of a step that captures no read.
LEMMA NoReadRecord ==
    ASSUME last' = NoRecord \/ last'.fn \notin Reads
    PROVE  RecordOwn'
<1>1. NoRecord.fn = "none" /\ "none" \notin Reads
  BY StashMaps, Zenon DEF NoRecord
<1>2. last'.fn \notin Reads
  BY <1>1, Zenon
<1> QED BY <1>2, StashMaps, Zenon DEF RecordOwn, ReadOwn

\* What Emit submits.
LEMMA EmitFields ==
    ASSUME NEW fn, NEW own, NEW got, NEW n, NEW doubt, Emit(fn, own, got, n, doubt)
    PROVE  last' = NoRecord \/ (last'.fn = fn /\ last'.own = own /\ last'.got = got /\ last'.suspect = doubt)
BY DEF Emit, Rec

\* The initial states: no calls, no entries.
LEMMA WIndInit == WInit => WInd
<1> USE WireAssumption
<1> SUFFICES ASSUME WInit PROVE WInd
  BY Zenon
<1>1. NoCall \in Calls /\ NoStash \in Entries
  BY Zenon DEF Calls, Entries
<1>2. ProbeTypes
  BY <1>1, Zenon DEF WInit, ProbeTypes
<1>3. Owned
  BY Zenon DEF WInit, Owned
<1>4. Apart
  BY Zenon DEF WInit, Apart
<1>5. DnsClean
  BY Zenon DEF WInit, DnsClean
<1>6. RecordOwn
  <2>1. last.fn = "none"
    BY Zenon DEF WInit, NoRecord
  <2> QED BY <2>1, StashMaps, Zenon DEF RecordOwn, ReadOwn
<1> QED BY <1>2, <1>3, <1>4, <1>5, <1>6, Zenon DEF WInd

\* A step that leaves calls, entries and threads alone.
LEMMA ProbesKept ==
    ASSUME WInd, UNCHANGED <<at, call, stash, suspect>>, last' = NoRecord \/ last'.fn \notin Reads
    PROVE  WInd'
<1>1. RecordOwn'
  BY NoReadRecord, Zenon
<1>2. Owned'
  BY DEF WInd, Owned, Owns
<1> QED BY <1>1, <1>2, Zenon DEF WInd, ProbeTypes, Apart, DnsClean

\* A flow that is in no read owns nothing, so what lies on its thread is left
\* over.
LEMMA LeftOver ==
    ASSUME WInd, NEW f \in Flows, call[f].fn \notin Reads, at[f] # Nowhere,
           NEW m \in Stashes, stash[m][at[f]] # NoStash
    PROVE  <<m, at[f]>> \in suspect
<1>1. at[f] \in Threads
  BY Zenon DEF WInd, ProbeTypes
<1>2. \A g \in Flows : Owns(g, m, at[f]) => g = f
  BY Zenon DEF WInd, Apart, Owns
<1> QED BY <1>1, <1>2 DEF WInd, Owned, Owns

\* An entry probe: the entry it makes is its own, and what it does not replace
\* was left over before.
LEMMA EnterKeeps ==
    ASSUME WInd, NEW f \in Flows, NEW fn \in Reads, NEW arg \in Args, NEW fd \in Handles,
           NEW len \in Counts, NEW gate, Enter(f, fn, arg, fd, len, gate)
    PROVE  WInd'
<1> DEFINE m == StashOf[fn]
           t == at[f]
           c == [fn |-> fn, arg |-> arg, fd |-> fd, len |-> len]
           e == [arg |-> arg, len |-> len]
<1>1. m \in Stashes /\ t \in Threads /\ t # Nowhere /\ at' = at
      /\ call[f].fn \notin Reads
  <2>1. call[f] = NoCall /\ t # Nowhere
    BY Zenon DEF Enter, Ready
  <2>2. NoCall.fn = "none" /\ "none" \notin Reads
    BY StashMaps, Zenon DEF NoCall
  <2> QED BY <2>1, <2>2, StashMaps, Zenon DEF Enter, WInd, ProbeTypes
<1>2. c \in Calls /\ e \in Entries /\ c.fn = fn /\ c.arg = arg /\ e.arg = arg
  BY Zenon DEF Calls, Entries, Handles, Counts
<1>3. call' \in [Flows -> Calls] /\ \A g \in Flows : call'[g] = IF g = f THEN c ELSE call[g]
  <2>1. call' = [call EXCEPT ![f] = c]
    BY Zenon DEF Enter
  <2> HIDE DEF c
  <2> QED BY <1>2, <2>1, Zenon DEF WInd, ProbeTypes
<1> HIDE DEF c, m
<1>4. /\ stash' \in [Stashes -> [Threads -> Entries]]
      /\ \A k \in Stashes, u \in Threads :
            stash'[k][u] = IF gate /\ k = m /\ u = t THEN e ELSE stash[k][u]
  <2>1. stash' = IF gate THEN [stash EXCEPT ![m][t] = e] ELSE stash
    BY Zenon DEF Enter, m
  <2> HIDE DEF e, t
  <2> QED BY <1>1, <1>2, <2>1, Zenon DEF WInd, ProbeTypes
<1>5. suspect' = IF gate THEN suspect \ {<<m, t>>} ELSE suspect
  BY Zenon DEF Enter, m
<1> HIDE DEF e
<1>6. Owned'
  <2> SUFFICES ASSUME NEW k \in Stashes, NEW u \in Threads, stash'[k][u] # NoStash,
                      <<k, u>> \notin suspect'
               PROVE  \E g \in Flows : Owns(g, k, u)'
    BY Zenon DEF Owned
  <2>1. CASE gate /\ k = m /\ u = t
    <3>1. Owns(f, k, u)'
      BY <1>1, <1>2, <1>3, <1>4, <2>1, Zenon DEF Owns, m
    <3> QED BY <3>1, Zenon
  <2>2. CASE ~(gate /\ k = m /\ u = t)
    <3>1. stash'[k][u] = stash[k][u] /\ <<k, u>> \notin suspect
      BY <1>4, <1>5, <2>2, Zenon
    <3>2. u # t
      BY <1>1, <3>1, LeftOver, Zenon
    <3>3. PICK g \in Flows : Owns(g, k, u)
      BY <3>1, Zenon DEF WInd, Owned
    <3>4. g # f /\ call'[g] = call[g]
      BY <1>3, <3>2, <3>3, Zenon DEF Owns
    <3>5. Owns(g, k, u)'
      BY <1>1, <3>1, <3>3, <3>4, Zenon DEF Owns
    <3> QED BY <3>5, Zenon
  <2> QED BY <2>1, <2>2, Zenon
<1>7. RecordOwn'
  BY NoReadRecord, Zenon DEF Enter
<1> QED BY <1>1, <1>3, <1>4, <1>5, <1>6, <1>7, Zenon DEF WInd, ProbeTypes, Apart, DnsClean

\* A call that ends, with or without its return probe: the thread's entry is
\* dropped or known to be left over; nobody else's is touched.
LEMMA EndKeeps ==
    ASSUME WInd, NEW f \in Flows, at[f] # Nowhere, NEW m \in Stashes,
           call[f].fn \in Reads => StashOf[call[f].fn] = m,
           at' = at, call' = [call EXCEPT ![f] = NoCall],
           \/ stash' = stash
           \/ stash' = [stash EXCEPT ![m][at[f]] = NoStash],
           suspect \ {<<m, at[f]>>} \subseteq suspect', suspect' \subseteq suspect \cup {<<m, at[f]>>},
           call[f].fn \in Reads /\ stash'[m][at[f]] # NoStash => <<m, at[f]>> \in suspect',
           call[f].fn \notin Reads => suspect' = suspect,
           m = Dns => <<m, at[f]>> \notin suspect',
           RecordOwn'
    PROVE  WInd'
<1> DEFINE t == at[f]
<1>1. t \in Threads
  BY Zenon DEF WInd, ProbeTypes
<1>2. NoCall \in Calls /\ NoStash \in Entries
  BY Zenon DEF Calls, Entries
<1> HIDE DEF t
<1>3. call' \in [Flows -> Calls] /\ \A g \in Flows : g # f => call'[g] = call[g]
  BY <1>2, Zenon DEF WInd, ProbeTypes
<1>4. /\ stash' \in [Stashes -> [Threads -> Entries]]
      /\ \A k \in Stashes, u \in Threads :
            stash'[k][u] # NoStash => stash'[k][u] = stash[k][u]
  <2>1. CASE stash' = stash
    BY <2>1, Zenon DEF WInd, ProbeTypes
  <2>2. CASE stash' = [stash EXCEPT ![m][t] = NoStash]
    <3>1. stash' \in [Stashes -> [Threads -> Entries]]
      BY <1>1, <1>2, <2>2, Zenon DEF WInd, ProbeTypes
    <3>2. \A k \in Stashes, u \in Threads :
             stash'[k][u] = IF k = m /\ u = t THEN NoStash ELSE stash[k][u]
      BY <1>1, <2>2, Zenon DEF WInd, ProbeTypes
    <3> QED BY <3>1, <3>2, Zenon
  <2> QED BY <2>1, <2>2, Zenon DEF t
<1>5. Owned'
  <2> SUFFICES ASSUME NEW k \in Stashes, NEW u \in Threads, stash'[k][u] # NoStash,
                      <<k, u>> \notin suspect'
               PROVE  \E g \in Flows : Owns(g, k, u)'
    BY Zenon DEF Owned
  <2>1. stash'[k][u] = stash[k][u]
    BY <1>4, Zenon
  <2>2. CASE <<k, u>> \in suspect
    <3>1. k = m /\ u = at[f]
      BY <2>2, Zenon
    <3>2. call[f].fn \in Reads
      BY <2>2, Zenon
    <3> QED BY <3>1, <3>2, Zenon
  <2>3. CASE <<k, u>> \notin suspect
    <3>1. PICK g \in Flows : Owns(g, k, u)
      BY <2>1, <2>3, Zenon DEF WInd, Owned
    <3>2. g # f
      BY <3>1, Zenon DEF Owns
    <3> QED BY <1>3, <2>1, <3>1, <3>2, Zenon DEF Owns
  <2> QED BY <2>2, <2>3, Zenon
<1>6. DnsClean'
  BY Zenon DEF WInd, DnsClean
<1> QED BY <1>3, <1>4, <1>5, <1>6, Zenon DEF WInd, ProbeTypes, Apart

\* What a return probe finds of a call it is not in doubt about is that call's.
LEMMA FoundOwn ==
    ASSUME WInd, NEW f \in Flows, NEW fn \in Reads, at[f] # Nowhere, call[f].fn = fn,
           Entry(f, fn) # NoStash, <<StashOf[fn], at[f]>> \notin suspect
    PROVE  Entry(f, fn).arg = call[f].arg
<1>1. at[f] \in Threads /\ StashOf[fn] \in Stashes
  BY StashMaps, Zenon DEF WInd, ProbeTypes
<1>2. PICK g \in Flows : Owns(g, StashOf[fn], at[f])
  BY <1>1, Zenon DEF WInd, Owned, Entry
<1>3. g = f
  BY <1>2, Zenon DEF WInd, Apart, Owns
<1> QED BY <1>2, <1>3, Zenon DEF Owns, Entry

\* The record of a return probe is its call's own, unless in doubt; the DNS map
\* gives no cause for doubt.
LEMMA ExitRecord ==
    ASSUME WInd, NEW f \in Flows, NEW fn \in Reads, at[f] # Nowhere, call[f].fn = fn,
           Entry(f, fn) # NoStash, NEW n,
           Emit(fn, call[f].arg, Entry(f, fn).arg, n, <<StashOf[fn], at[f]>> \in suspect)
    PROVE  RecordOwn'
<1> DEFINE doubt == <<StashOf[fn], at[f]>> \in suspect
<1>1. last' = NoRecord
      \/ (last'.fn = fn /\ last'.own = call[f].arg /\ last'.got = Entry(f, fn).arg /\ last'.suspect = doubt)
  BY EmitFields
<1>2. CASE last' = NoRecord
  BY <1>2, NoReadRecord, Zenon
<1>3. CASE last'.fn = fn /\ last'.own = call[f].arg /\ last'.got = Entry(f, fn).arg /\ last'.suspect = doubt
  <2>1. ~last'.suspect => last'.got = last'.own
    BY Zenon, <1>3, FoundOwn
  <2>2. fn \in {"recvfrom", "recvmsg"} => ~last'.suspect
    <3>1. at[f] \in Threads
      BY Zenon DEF WInd, ProbeTypes
    <3> QED BY <1>3, <3>1, StashMaps, Zenon DEF WInd, DnsClean
  <2> QED BY <1>3, <2>1, <2>2, Zenon DEF RecordOwn, ReadOwn
<1> QED BY <1>1, <1>2, <1>3, Zenon

\* The return probes that test their gate first.
LEMMA GatedKeeps ==
    ASSUME WInd, NEW f \in Flows, NEW fn \in Reads, fn \notin {"recvfrom", "recvmsg"},
           NEW gate, NEW n, ExitGated(f, fn, gate, n)
    PROVE  WInd'
<1> DEFINE m == StashOf[fn]
<1>1. m \in Stashes /\ m # Dns /\ at[f] # Nowhere /\ call[f].fn = fn /\ at' = at
      /\ call' = [call EXCEPT ![f] = NoCall]
  BY StashMaps, Zenon DEF ExitGated
<1>2. at[f] \in Threads
  BY <1>1, Zenon DEF WInd, ProbeTypes
<1>3. /\ stash' = IF gate THEN [stash EXCEPT ![m][at[f]] = NoStash] ELSE stash
      /\ suspect' = IF gate \/ stash[m][at[f]] = NoStash THEN suspect \ {<<m, at[f]>>}
                    ELSE suspect \cup {<<m, at[f]>>}
  BY Zenon DEF ExitGated, Dropped, Entry
<1>4. RecordOwn'
  <2>1. CASE gate /\ Entry(f, fn) # NoStash
    <3>1. Emit(fn, call[f].arg, Entry(f, fn).arg, n, <<StashOf[fn], at[f]>> \in suspect)
      BY <2>1, Zenon DEF ExitGated
    <3> QED BY <1>1, <2>1, <3>1, ExitRecord, Zenon
  <2>2. CASE ~(gate /\ Entry(f, fn) # NoStash)
    BY <2>2, NoReadRecord, Zenon DEF ExitGated
  <2> QED BY <2>1, <2>2, Zenon
<1> HIDE DEF m
<1>5. stash'[m][at[f]] # NoStash => <<m, at[f]>> \in suspect'
  <2>1. CASE gate
    <3>1. stash'[m][at[f]] = NoStash
      BY <1>1, <1>2, <1>3, <2>1, Zenon DEF WInd, ProbeTypes
    <3> QED BY <3>1, Zenon
  <2>2. CASE ~gate
    BY <1>3, <2>2, Zenon
  <2> QED BY <2>1, <2>2, Zenon
<1>6. suspect \ {<<m, at[f]>>} \subseteq suspect' /\ suspect' \subseteq suspect \cup {<<m, at[f]>>}
  BY <1>3, Zenon
<1>7. stash' = stash \/ stash' = [stash EXCEPT ![m][at[f]] = NoStash]
  BY <1>3, Zenon
<1>8. StashOf[call[f].fn] = m
  BY <1>1, Zenon DEF m
<1> QED BY Zenon, <1>1, <1>4, <1>5, <1>6, <1>7, <1>8, EndKeeps

\* The return probes that take the entry out first.
LEMMA TakingKeeps ==
    ASSUME WInd, NEW f \in Flows, NEW fn \in Reads, NEW gate, NEW n, ExitTaking(f, fn, gate, n)
    PROVE  WInd'
<1> DEFINE m == StashOf[fn]
<1>1. m \in Stashes /\ at[f] # Nowhere /\ call[f].fn = fn /\ at' = at
      /\ call' = [call EXCEPT ![f] = NoCall]
  BY StashMaps, Zenon DEF ExitTaking
<1>2. at[f] \in Threads
  BY <1>1, Zenon DEF WInd, ProbeTypes
<1>3. stash' = [stash EXCEPT ![m][at[f]] = NoStash] /\ suspect' = suspect \ {<<m, at[f]>>}
  BY Zenon DEF ExitTaking, Taken, Dropped
<1>4. RecordOwn'
  <2>1. CASE Entry(f, fn) # NoStash /\ gate
    <3>1. Emit(fn, call[f].arg, Entry(f, fn).arg, n, <<StashOf[fn], at[f]>> \in suspect)
      BY <2>1, Zenon DEF ExitTaking
    <3> QED BY <1>1, <2>1, <3>1, ExitRecord, Zenon
  <2>2. CASE ~(Entry(f, fn) # NoStash /\ gate)
    BY <2>2, NoReadRecord, Zenon DEF ExitTaking
  <2> QED BY <2>1, <2>2, Zenon
<1> HIDE DEF m
<1>5. stash'[m][at[f]] = NoStash
  BY <1>1, <1>2, <1>3, Zenon DEF WInd, ProbeTypes
<1>6. suspect \ {<<m, at[f]>>} \subseteq suspect' /\ suspect' \subseteq suspect \cup {<<m, at[f]>>}
      /\ <<m, at[f]>> \notin suspect'
  BY <1>3, Zenon
<1>7. StashOf[call[f].fn] = m
  BY <1>1, Zenon DEF m
<1> QED BY Zenon, <1>1, <1>3, <1>4, <1>5, <1>6, <1>7, EndKeeps

\* A library call that ends without its return probe leaves its entry behind.
LEMMA AbandonKeeps ==
    ASSUME WInd, NEW f \in Flows, Abandon(f)
    PROVE  WInd'
<1> DEFINE m == StashOf[call[f].fn]
<1>1. call[f].fn \in Reads /\ call[f].fn \notin {"recvfrom", "recvmsg"}
      /\ at[f] # Nowhere /\ at' = at /\ stash' = stash /\ last' = NoRecord
      /\ call' = [call EXCEPT ![f] = NoCall]
  BY Zenon DEF Abandon, Syscalls
<1>2. m \in Stashes /\ m # Dns
  BY <1>1, StashMaps, Zenon
<1>3. suspect' = suspect \cup IF stash[m][at[f]] = NoStash THEN {} ELSE {<<m, at[f]>>}
  BY Zenon DEF Abandon, Left
<1>4. RecordOwn'
  BY <1>1, NoReadRecord, Zenon
<1> HIDE DEF m
<1>5. /\ suspect \ {<<m, at[f]>>} \subseteq suspect' /\ suspect' \subseteq suspect \cup {<<m, at[f]>>}
      /\ stash'[m][at[f]] # NoStash => <<m, at[f]>> \in suspect'
  BY <1>1, <1>3, Zenon
<1>6. StashOf[call[f].fn] = m
  BY Zenon DEF m
<1> QED BY Zenon, <1>1, <1>2, <1>4, <1>5, <1>6, EndKeeps

\* A goroutine taken off its thread leaves its entry behind as well.
LEMMA ParkKeeps ==
    ASSUME WInd, NEW f \in Flows, Park(f)
    PROVE  WInd'
<1> DEFINE m == StashOf[call[f].fn]
<1>1. call[f].fn = "go_tls_read" /\ at[f] # Nowhere /\ at' = [at EXCEPT ![f] = Nowhere]
      /\ UNCHANGED <<call, stash>> /\ last' = NoRecord
  BY Zenon DEF Park
<1>2. m \in Stashes /\ m # Dns
  BY <1>1, StashMaps, Zenon
<1>3. suspect' = suspect \cup IF stash[m][at[f]] = NoStash THEN {} ELSE {<<m, at[f]>>}
  BY Zenon DEF Park, Left
<1>4. at' \in [Flows -> Threads \cup {Nowhere}] /\ \A g \in Flows : at'[g] = IF g = f THEN Nowhere ELSE at[g]
  BY <1>1, Zenon DEF WInd, ProbeTypes
<1>5. Owned'
  <2> SUFFICES ASSUME NEW k \in Stashes, NEW u \in Threads, stash'[k][u] # NoStash,
                      <<k, u>> \notin suspect'
               PROVE  \E g \in Flows : Owns(g, k, u)'
    BY Zenon DEF Owned
  <2>1. PICK g \in Flows : Owns(g, k, u)
    BY <1>1, <1>3, Zenon DEF WInd, Owned
  <2>2. g # f
    BY <1>1, <1>3, <2>1, Zenon DEF Owns
  <2>3. Owns(g, k, u)'
    BY <1>1, <1>4, <2>1, <2>2, Zenon DEF Owns
  <2> QED BY <2>3, Zenon
<1>6. DnsClean'
  BY <1>2, <1>3, Zenon DEF WInd, DnsClean
<1>7. RecordOwn'
  BY <1>1, NoReadRecord, Zenon
<1>8. Apart'
  BY <1>4, Zenon DEF WInd, Apart
<1> QED BY <1>1, <1>4, <1>5, <1>6, <1>7, <1>8, Zenon DEF WInd, ProbeTypes

\* It goes on, on a thread that runs nothing: all entries there are left over.
LEMMA ResumeKeeps ==
    ASSUME WInd, NEW f \in Flows, NEW t \in Threads, Resume(f, t)
    PROVE  WInd'
<1>1. at[f] = Nowhere /\ (\A g \in Flows : at[g] # t) /\ at' = [at EXCEPT ![f] = t]
      /\ UNCHANGED <<call, stash, suspect>> /\ last' = NoRecord
  BY Zenon DEF Resume
<1>2. at' \in [Flows -> Threads \cup {Nowhere}] /\ \A g \in Flows : at'[g] = IF g = f THEN t ELSE at[g]
  BY <1>1, Zenon DEF WInd, ProbeTypes
<1>3. Owned'
  <2> SUFFICES ASSUME NEW k \in Stashes, NEW u \in Threads, stash'[k][u] # NoStash,
                      <<k, u>> \notin suspect'
               PROVE  \E g \in Flows : Owns(g, k, u)'
    BY Zenon DEF Owned
  <2>1. PICK g \in Flows : Owns(g, k, u)
    BY <1>1, Zenon DEF WInd, Owned
  <2>2. g # f
    BY <1>1, <2>1, WireAssumption, Zenon DEF Owns
  <2>3. Owns(g, k, u)'
    BY <1>1, <1>2, <2>1, <2>2, Zenon DEF Owns
  <2> QED BY <2>3, Zenon
<1>4. Apart'
  BY <1>1, <1>2, Zenon DEF WInd, Apart
<1>5. RecordOwn'
  BY <1>1, NoReadRecord, Zenon
<1> QED BY <1>1, <1>2, <1>3, <1>4, <1>5, Zenon DEF WInd, ProbeTypes, DnsClean

\* A send, which is no read, at its entry probe.
LEMMA SendBegins ==
    ASSUME WInd, NEW f \in Flows, NEW fn \in {"write", "db_sendto"}, NEW arg \in Args, NEW fd \in Fds,
           NEW q, NEW captured, NEW matched, Begin(f, fn, arg, fd, q, captured, matched)
    PROVE  WInd'
<1> DEFINE c == [fn |-> fn, arg |-> arg, fd |-> fd, len |-> 0]
<1>1. UNCHANGED <<at, stash, suspect>> /\ call' = [call EXCEPT ![f] = c] /\ call[f] = NoCall
  BY Zenon DEF Begin, Ready
<1>2. c \in Calls /\ c.fn = fn
  BY Zenon DEF Calls
<1> HIDE DEF c
<1>3. call' \in [Flows -> Calls] /\ \A g \in Flows : call'[g] = IF g = f THEN c ELSE call[g]
  BY <1>1, <1>2, Zenon DEF WInd, ProbeTypes
<1>4. fn \notin Reads /\ NoCall.fn \notin Reads
  BY StashMaps, Zenon DEF NoCall
<1>5. RecordOwn'
  <2>1. last' = NoRecord \/ last'.fn = fn
    BY EmitFields, Zenon DEF Begin
  <2> QED BY <1>4, <2>1, NoReadRecord, Zenon
<1>6. Owned'
  <2> SUFFICES ASSUME NEW k \in Stashes, NEW u \in Threads, stash'[k][u] # NoStash,
                      <<k, u>> \notin suspect'
               PROVE  \E g \in Flows : Owns(g, k, u)'
    BY Zenon DEF Owned
  <2>1. PICK g \in Flows : Owns(g, k, u)
    BY <1>1, Zenon DEF WInd, Owned
  <2>2. g # f
    BY <1>1, <1>4, <2>1, Zenon DEF Owns
  <2>3. Owns(g, k, u)'
    BY <1>1, <1>3, <2>1, <2>2, Zenon DEF Owns
  <2> QED BY <2>3, Zenon
<1> QED BY <1>1, <1>3, <1>5, <1>6, Zenon DEF WInd, ProbeTypes, Apart, DnsClean

\* A send at its end.
LEMMA SendEnds ==
    ASSUME WInd, NEW f \in Flows, Sending(f), NEW refused, NEW armed, End(f, refused, armed)
    PROVE  WInd'
<1>1. UNCHANGED <<at, stash, suspect>> /\ call' = [call EXCEPT ![f] = NoCall] /\ last' = NoRecord
  BY Zenon DEF End
<1>2. call[f].fn \notin Reads
  BY StashMaps, Zenon DEF Sending, Sends
<1>3. NoCall \in Calls
  BY Zenon DEF Calls
<1>4. call' \in [Flows -> Calls] /\ \A g \in Flows : g # f => call'[g] = call[g]
  BY <1>1, <1>3, Zenon DEF WInd, ProbeTypes
<1>5. RecordOwn'
  BY <1>1, NoReadRecord, Zenon
<1>6. Owned'
  <2> SUFFICES ASSUME NEW k \in Stashes, NEW u \in Threads, stash'[k][u] # NoStash,
                      <<k, u>> \notin suspect'
               PROVE  \E g \in Flows : Owns(g, k, u)'
    BY Zenon DEF Owned
  <2>1. PICK g \in Flows : Owns(g, k, u)
    BY <1>1, Zenon DEF WInd, Owned
  <2>2. g # f
    BY <1>2, <2>1, Zenon DEF Owns
  <2>3. Owns(g, k, u)'
    BY <1>1, <1>4, <2>1, <2>2, Zenon DEF Owns
  <2> QED BY <2>3, Zenon
<1> QED BY <1>1, <1>4, <1>5, <1>6, Zenon DEF WInd, ProbeTypes, Apart, DnsClean

\* The probes of bpf/semantic.bpf.c.
LEMMA TlsKeeps ==
    ASSUME WInd, NEW f \in Flows, TlsWrite(f) \/ TlsEnter(f) \/ TlsExit(f)
    PROVE  WInd'
<1>1. CASE TlsWrite(f)
  <2> DEFINE Outbound == {"SSL_write", "go_tls_write", "EVP_AEAD_CTX_seal", "chacha20_poly1305_seal",
                          "aesni_gcm_encrypt", "aes_gcm_encrypt_avx512"}
  <2>1. PICK fn \in Outbound, a \in Args, n \in Lens : Write(f, fn, a, n)
    BY <1>1, Zenon DEF TlsWrite, ak_ssl_write, ak_gotls_write, ak_aead_seal, ak_chacha_seal,
                ak_aesgcm_enc, ak_aesgcm512_enc
  <2>2. UNCHANGED <<at, call, stash, suspect>>
    BY <2>1, Zenon DEF Write, probeVars
  <2>3. last' = NoRecord \/ last'.fn = fn
    BY <2>1, EmitFields, Zenon DEF Write
  <2>4. fn \notin Reads
    BY StashMaps, Zenon
  <2> QED BY <2>2, <2>3, <2>4, ProbesKept, Zenon
<1>2. CASE TlsEnter(f)
  <2>1. NoFd \in Handles /\ 0 \in Counts /\ Lens \subseteq Counts
    BY Zenon DEF Handles, Counts
  <2>2. PICK fn \in Reads, a \in Args, n \in Counts : Enter(f, fn, a, NoFd, n, Monitored(f))
    BY <1>2, <2>1, StashMaps, Zenon DEF TlsEnter, ak_ssl_read_enter, ak_gotls_read_enter, ak_aead_open_enter,
                ak_chacha_open_enter, ak_aesgcm_dec_enter, ak_aesgcm512_dec_enter
  <2> QED BY <2>1, <2>2, EnterKeeps, Zenon
<1>3. CASE TlsExit(f)
  <2>1. CASE \E n \in Lens : ak_gotls_read_ret(f, n)
    BY <2>1, TakingKeeps, StashMaps, Zenon DEF ak_gotls_read_ret
  <2>2. CASE ~\E n \in Lens : ak_gotls_read_ret(f, n)
    <3> DEFINE Gated == {"SSL_read", "EVP_AEAD_CTX_open", "chacha20_poly1305_open",
                         "aesni_gcm_decrypt", "aes_gcm_decrypt_avx512"}
    <3>1. \E fn \in Gated : \E n : ExitGated(f, fn, Monitored(f), n)
      BY <1>3, <2>2, Zenon DEF TlsExit, ak_ssl_read_exit, ak_aead_open_exit, ak_chacha_open_exit,
                ak_aesgcm_dec_exit, ak_aesgcm512_dec_exit
    <3> QED BY <3>1, GatedKeeps, StashMaps, Zenon
  <2> QED BY <2>1, <2>2, Zenon
<1> QED BY <1>1, <1>2, <1>3, Zenon

\* The tracepoints of bpf/stdio.bpf.c and bpf/network.bpf.c.
LEMMA SysKeeps ==
    ASSUME WInd, NEW f \in Flows, SysEnter(f) \/ SysExit(f)
    PROVE  WInd'
<1>1. Fds \subseteq Handles /\ 0 \in Counts
  BY Zenon DEF Handles, Counts
<1>2. ASSUME NEW fd \in Fds, NEW a \in Args,
             \/ ak_stdio_read_enter(f, a, fd) \/ ak_recvfrom_enter(f, a, fd)
             \/ \E iov \in BOOLEAN : ak_recvmsg_enter(f, a, fd, iov)
      PROVE  WInd'
  <2>1. CASE ak_stdio_read_enter(f, a, fd)
    BY <1>1, <2>1, EnterKeeps, StashMaps, Zenon DEF ak_stdio_read_enter
  <2>2. CASE ak_recvfrom_enter(f, a, fd)
    BY <1>1, <2>2, EnterKeeps, StashMaps, Zenon DEF ak_recvfrom_enter
  <2>3. ASSUME NEW iov \in BOOLEAN, ak_recvmsg_enter(f, a, fd, iov)
        PROVE  WInd'
    BY <1>1, <2>3, EnterKeeps, StashMaps, Zenon DEF ak_recvmsg_enter
  <2> QED BY <1>2, <2>1, <2>2, <2>3, Zenon
<1>3. ASSUME NEW fd \in Fds, NEW a \in Args, NEW n \in Lens, ak_sendto(f, a, fd, n)
      PROVE  WInd'
  <2>1. UNCHANGED <<at, call, stash, suspect>>
    BY <1>3, Zenon DEF ak_sendto, probeVars
  <2>2. last' = NoRecord \/ last'.fn = "sendto"
    BY <1>3, EmitFields, Zenon DEF ak_sendto
  <2> QED BY <2>1, <2>2, ProbesKept, StashMaps, Zenon
<1>4. ASSUME NEW fd \in Fds, NEW dest, NEW room, ak_connect(f, fd, dest, room)
      PROVE  WInd'
  BY <1>4, ProbesKept, Zenon DEF ak_connect, probeVars
<1>5. ASSUME NEW n \in Lens, ak_stdio_read_exit(f, n)
      PROVE  WInd'
  BY <1>5, GatedKeeps, StashMaps, Zenon DEF ak_stdio_read_exit
<1>6. ASSUME NEW n \in Lens, ak_recvfrom_exit(f, n) \/ ak_recvmsg_exit(f, n)
      PROVE  WInd'
  BY <1>6, TakingKeeps, StashMaps, Zenon DEF ak_recvfrom_exit, ak_recvmsg_exit
<1> QED BY <1>2, <1>3, <1>4, <1>5, <1>6, Zenon DEF SysEnter, SysExit

\* Every step, of the capture and of the query block, keeps the invariant.
LEMMA WIndNext == WInd /\ [QNext]_blockVars => WInd'
<1> SUFFICES ASSUME WInd, [QNext]_blockVars PROVE WInd'
  BY Zenon
<1>1. CASE DaemonStep
  <2>1. UNCHANGED <<at, call, stash, suspect>> /\ last' = NoRecord
    BY <1>1, Zenon DEF DaemonStep, Daemon, RegisterPID, UnregisterPID, RegisterMcpFd, UnregisterMcpFd, EvictFd,
                SetMcpArmed, armFlag, FlagLookup, FlagPut, probeVars
  <2> QED BY <2>1, ProbesKept, Zenon
<1>2. CASE WNext
  BY <1>1, <1>2, TlsKeeps, SysKeeps, ParkKeeps, AbandonKeeps, ResumeKeeps, Zenon DEF WNext
<1>3. ASSUME NEW f \in Flows, NEW fd \in Fds, NEW a \in Args, NEW q \in Queries,
             ak_stdio_write(f, a, fd, q) \/ ak_db_sendto(f, a, fd, q)
      PROVE  WInd'
  BY <1>3, SendBegins, Zenon DEF ak_stdio_write, ak_db_sendto
<1>4. ASSUME NEW f \in Flows, NEW fd \in Fds, Reuse(f, fd)
      PROVE  WInd'
  BY <1>4, ProbesKept, Zenon DEF Reuse, Daemon, probeVars
<1>5. ASSUME NEW f \in Flows, WriteFile(f) \/ \E prior \in BOOLEAN : ak_lsm_socket_sendmsg(f, prior)
      PROVE  WInd'
  BY <1>5, SendEnds, Zenon DEF WriteFile, ak_lsm_socket_sendmsg
<1>6. CASE UNCHANGED blockVars
  <2>1. UNCHANGED <<at, call, stash, suspect, last>>
    BY <1>6, Zenon DEF blockVars, wvars, probeVars
  <2>2. RecordOwn' /\ Owned'
    BY <2>1 DEF WInd, RecordOwn, ReadOwn, Owned, Owns
  <2> QED BY <2>1, <2>2, Zenon DEF WInd, ProbeTypes, Apart, DnsClean
<1> QED BY <1>2, <1>3, <1>4, <1>5, <1>6, Zenon DEF QNext

\* WInd holds in every reachable state.
THEOREM WIndAlways == QSpec => []WInd
<1>1. QInit => WInd
  BY WIndInit, Zenon DEF QInit
<1> QED BY <1>1, WIndNext, PTL DEF QSpec

\* For any number of processes, threads, goroutines and calls: a captured DNS
\* answer is read from the buffer of the receive that returned it, without
\* exception (bpf/network.bpf.c:174-290).
THEOREM DnsOwnAlways == QSpec => []DnsOwn
<1>1. WInd => DnsOwn
  BY StashMaps, Zenon DEF WInd, RecordOwn, ReadOwn, DnsOwn
<1> QED BY <1>1, WIndAlways, PTL

\* A captured TLS or pipe read is its own call's, unless the entry had outlived
\* its call (bpf/semantic.bpf.c:83-388, bpf/stdio.bpf.c:225-256).
THEOREM ReadOwnAlways == QSpec => []ReadOwn
<1>1. WInd => ReadOwn
  BY Zenon DEF WInd, RecordOwn
<1> QED BY <1>1, WIndAlways, PTL
-----------------------------------------------------------------------------
\* The mask of an already clamped length is an identity.
LEMMA MaskIdentity ==
    ASSUME NEW x \in Nat, NEW m \in Nat, x < m
    PROVE  x % m = x
BY SMT

\* What a readable payload of n bytes leaves in a record, on either ring.
LEMMA PayloadBounds ==
    ASSUME NEW fn, NEW n \in Nat, n > 0
    PROVE  /\ 0 < Payload(fn, n) /\ Payload(fn, n) <= n
           /\ n < Least(TlsMax, StrMax) => Payload(fn, n) = n
<1>1. TlsMax \in Nat \ {0, 1} /\ StrMax \in Nat \ {0, 1}
  BY WireAssumption, Zenon
<1>2. ClampStr(n) = Least(n, StrMax - 1)
  <2>1. Least(n, StrMax - 1) \in Nat /\ Least(n, StrMax - 1) < StrMax
    BY <1>1 DEF Least
  <2> QED BY <1>1, <2>1, MaskIdentity, Zenon DEF ClampStr
<1>3. ClampTls(n) = Least(n, TlsMax - 1)
  BY Zenon DEF ClampTls
<1>4. Payload(fn, n) \in {Least(n, StrMax - 1), Least(n, TlsMax - 1)}
  BY <1>2, <1>3, Zenon DEF Payload
<1> QED BY <1>1, <1>4 DEF Least

\* A record of n bytes carries them.
LEMMA EmitCarries ==
    ASSUME NEW fn, NEW own, NEW got, NEW n \in Nat, NEW doubt, Emit(fn, own, got, n, doubt)
    PROVE  PayloadCarried'
<1>1. CASE last' = NoRecord
  BY <1>1, Zenon DEF PayloadCarried
<1>2. ASSUME NEW fault \in BOOLEAN, n > 0, last' = Rec(fn, own, got, n, fault, doubt)
      PROVE  PayloadCarried'
  <2>1. last'.n = n /\ last'.fault = fault /\ (~fault => last'.data = Payload(fn, n))
    BY <1>2, Zenon DEF Rec
  <2>2. SUFFICES ASSUME ~fault
                 PROVE  /\ 0 < last'.data /\ last'.data <= last'.n
                        /\ last'.n < Least(TlsMax, StrMax) => last'.data = last'.n
    BY <2>1, Zenon DEF PayloadCarried, Least
  <2> QED BY <1>2, <2>1, <2>2, PayloadBounds, Zenon
<1> QED BY <1>1, <1>2, Zenon DEF Emit

\* A step that submits nothing.
LEMMA NothingCarried ==
    ASSUME last' = NoRecord
    PROVE  PayloadCarried'
BY Zenon DEF PayloadCarried

\* The lengths in the stash are byte counts.
LEMMA EntryLength ==
    ASSUME WInd, NEW f \in Flows, at[f] # Nowhere, NEW fn \in Reads
    PROVE  Entry(f, fn).len \in Nat
<1>1. StashOf[fn] \in Stashes /\ at[f] \in Threads
  BY StashMaps, Zenon DEF WInd, ProbeTypes
<1>2. Entry(f, fn) \in Entries
  BY <1>1, Zenon DEF WInd, ProbeTypes, Entry
<1>3. ASSUME NEW e \in Entries PROVE e.len \in Nat
  <2>1. CASE e \in [arg : Args, len : Lens \cup {0}]
    <3>1. e.len \in Lens \cup {0}
      BY <2>1, Zenon
    <3>2. Lens \cup {0} \subseteq Nat
      BY WireAssumption
    <3> QED BY <3>1, <3>2, Zenon
  <2>2. CASE e = NoStash
    BY <2>2, Zenon DEF NoStash
  <2> QED BY <2>1, <2>2, Zenon DEF Entries
<1> QED BY <1>2, <1>3, Zenon

\* The return probes emit a byte count.
LEMMA ExitCarries ==
    ASSUME NEW f, NEW fn, NEW gate, NEW n \in Nat, ExitGated(f, fn, gate, n) \/ ExitTaking(f, fn, gate, n)
    PROVE  PayloadCarried'
<1>1. last' = NoRecord \/ \E own, got, doubt : Emit(fn, own, got, n, doubt)
  <2>1. CASE ExitGated(f, fn, gate, n)
    BY <2>1, Zenon DEF ExitGated
  <2>2. CASE ExitTaking(f, fn, gate, n)
    BY <2>2, Zenon DEF ExitTaking
  <2> QED BY <2>1, <2>2, Zenon
<1> QED BY <1>1, EmitCarries, NothingCarried, Zenon

\* Every probe's step submits nothing, or a record that carries its payload.
LEMMA CarriedNext ==
    ASSUME WInd, PayloadCarried, [QNext]_blockVars
    PROVE  PayloadCarried'
<1>1. ASSUME NEW f \in Flows, TlsWrite(f) PROVE PayloadCarried'
  <2>1. \E fn, a : \E n \in Lens : Write(f, fn, a, n)
    BY <1>1, Zenon DEF TlsWrite, ak_ssl_write, ak_gotls_write, ak_aead_seal, ak_chacha_seal,
                ak_aesgcm_enc, ak_aesgcm512_enc
  <2>2. PICK n \in Nat : \E fn, a : Write(f, fn, a, n)
    BY <2>1, WireAssumption, Zenon
  <2>3. last' = NoRecord \/ \E fn, a : Emit(fn, a, a, n, FALSE)
    BY <2>2, Zenon DEF Write
  <2> QED BY Zenon, <2>3, EmitCarries, NothingCarried
<1>2. ASSUME NEW f \in Flows, TlsEnter(f) \/ Park(f) \/ Abandon(f) \/ \E t \in Threads : Resume(f, t)
      PROVE  PayloadCarried'
  <2>1. last' = NoRecord
    BY <1>2, Zenon DEF TlsEnter, ak_ssl_read_enter, ak_gotls_read_enter, ak_aead_open_enter,
                ak_chacha_open_enter, ak_aesgcm_dec_enter, ak_aesgcm512_dec_enter, Enter,
                Park, Abandon, Resume
  <2> QED BY <2>1, NothingCarried, Zenon
<1>3. ASSUME NEW f \in Flows, TlsExit(f) \/ SysExit(f) PROVE PayloadCarried'
  <2>1. Lens \subseteq Nat /\ 0 \in Nat
    BY WireAssumption, Zenon
  <2>2. at[f] # Nowhere
    BY <1>3, Zenon DEF TlsExit, SysExit, ak_ssl_read_exit, ak_gotls_read_ret, ak_aead_open_exit,
                ak_chacha_open_exit, ak_aesgcm_dec_exit, ak_aesgcm512_dec_exit, ak_stdio_read_exit,
                ak_recvfrom_exit, ak_recvmsg_exit, ExitGated, ExitTaking
  <2>3. \A fn \in Reads : Entry(f, fn).len \in Nat
    BY <2>2, EntryLength, Zenon
  <2>4. CASE ak_chacha_open_exit(f) \/ ak_aesgcm512_dec_exit(f)
    BY <2>3, <2>4, ExitCarries, StashMaps, Zenon DEF ak_chacha_open_exit, ak_aesgcm512_dec_exit
  <2>5. ASSUME NEW n \in Lens, ak_aesgcm_dec_exit(f, n) PROVE PayloadCarried'
    <3>1. (IF n # 0 THEN n ELSE Entry(f, "aesni_gcm_decrypt").len) \in Nat
      BY <2>1, <2>3, StashMaps, Zenon
    <3> QED BY <2>5, <3>1, ExitCarries, Zenon DEF ak_aesgcm_dec_exit
  <2>6. ASSUME NEW n \in Lens, NEW ok \in BOOLEAN, ak_aead_open_exit(f, ok, n) PROVE PayloadCarried'
    <3>1. (IF ok THEN n ELSE 0) \in Nat
      BY <2>1, Zenon
    <3> QED BY <2>6, <3>1, ExitCarries, Zenon DEF ak_aead_open_exit
  <2>7. ASSUME NEW n \in Lens, ak_ssl_read_exit(f, n) \/ ak_gotls_read_ret(f, n) \/ ak_stdio_read_exit(f, n)
                               \/ ak_recvfrom_exit(f, n) \/ ak_recvmsg_exit(f, n)
        PROVE  PayloadCarried'
    BY <2>1, <2>7, ExitCarries, Zenon DEF ak_ssl_read_exit, ak_gotls_read_ret, ak_stdio_read_exit,
                ak_recvfrom_exit, ak_recvmsg_exit
  <2> QED BY <1>3, <2>4, <2>5, <2>6, <2>7, Zenon DEF TlsExit, SysExit
<1>4. ASSUME NEW f \in Flows, SysEnter(f) PROVE PayloadCarried'
  <2>1. last' = NoRecord \/ \E a : \E n \in Lens : Emit("sendto", a, a, n, FALSE)
    BY <1>4, Zenon DEF SysEnter, ak_stdio_read_enter, ak_recvfrom_enter, ak_recvmsg_enter, Enter, ak_sendto, ak_connect
  <2> QED BY Zenon, <2>1, WireAssumption, EmitCarries, NothingCarried
<1>5. ASSUME DaemonStep PROVE PayloadCarried'
  <2>1. last' = NoRecord
    BY <1>5, Zenon DEF DaemonStep, Daemon, RegisterPID, UnregisterPID, RegisterMcpFd, UnregisterMcpFd, EvictFd,
                SetMcpArmed, armFlag, FlagLookup, FlagPut
  <2> QED BY <2>1, NothingCarried, Zenon
<1>6. CASE WNext
  BY <1>1, <1>2, <1>3, <1>4, <1>5, <1>6, Zenon DEF WNext
<1>7. ASSUME NEW f \in Flows, NEW fd \in Fds, NEW a \in Args, NEW q \in Queries,
             ak_stdio_write(f, a, fd, q) \/ ak_db_sendto(f, a, fd, q)
      PROVE  PayloadCarried'
  <2>1. last' = NoRecord \/ \E fn : Emit(fn, a, a, q.len, FALSE)
    BY <1>7, Zenon DEF ak_stdio_write, ak_db_sendto, Begin
  <2>2. q.len \in Nat
    BY QueryAssumption, Zenon
  <2> QED BY Zenon, <2>1, <2>2, EmitCarries, NothingCarried
<1>8. ASSUME NEW f \in Flows, WriteFile(f) \/ (\E fd \in Fds : Reuse(f, fd))
                              \/ \E prior \in BOOLEAN : ak_lsm_socket_sendmsg(f, prior)
      PROVE  PayloadCarried'
  <2>1. last' = NoRecord
    BY <1>8, Zenon DEF WriteFile, ak_lsm_socket_sendmsg, End, Reuse, Daemon
  <2> QED BY <2>1, NothingCarried, Zenon
<1>9. CASE UNCHANGED blockVars
  BY <1>9, Zenon DEF blockVars, wvars, PayloadCarried
<1> QED BY <1>6, <1>7, <1>8, <1>9, Zenon DEF QNext

\* A record of a readable payload is never empty and holds all of a payload
\* shorter than its buffer, for any buffer sizes (bpf/semantic.bpf.c:44-67,
\* bpf/network.bpf.c:149-166).
THEOREM PayloadCarriedAlways == QSpec => []PayloadCarried
<1>1. QInit => PayloadCarried
  BY Zenon DEF QInit, WInit, PayloadCarried
<1>2. WInd /\ PayloadCarried /\ [QNext]_blockVars => PayloadCarried'
  BY CarriedNext, Zenon
<1> QED BY <1>1, <1>2, WIndAlways, PTL DEF QSpec
-----------------------------------------------------------------------------
\* A flow in a denied send has its process marked.
DueMarked == \A f \in due : f \in Flows /\ Sending(f) /\ (Alone(f) => Proc(f) \in pending)

\* No denied table has a name of one byte, which the matcher's last offset
\* misses, and no denied collection one of less than four, which may be too near
\* the message's end.
LongNamed == \A n \in Tables : NameLen[n] > 3 \/ (NameLen[n] > 1 /\ \A q \in Queries : q.wire # "mongo")

QInd == MarkConsumed /\ (LongNamed => DueMarked /\ DeniedRefused)

\* The matcher finds a name of at least two bytes exactly when all of it lies in
\* the window (bpf/stdio.bpf.c:56-96).
LEMMA MatcherExact ==
    ASSUME NEW q \in Queries \cup Statements, NEW n \in DOMAIN NameLen, NameLen[n] > 1, q.wire = "sql"
    PROVE  q.len >= 6 /\ ak_db_match_slot(q, n) <=> NamesTable(q, n)
<1> DEFINE at0 == q.at
           l == NameLen[n]
<1>1. at0 \in Nat /\ l \in Nat /\ l > 1 /\ q.len \in Nat /\ at0 < q.len
  BY QueryAssumption, Zenon
<1>2. ak_db_match_slot(q, n) <=> at0 \in 6..62 /\ at0 + l <= 64 /\ q.anchored /\ BeginsWith(q.name, n)
  BY DEF ak_db_match_slot, DbScan
<1>3. NamesTable(q, n) <=> (\A i \in at0..(at0 + l - 1) : 6 <= i /\ i < 64) /\ q.anchored /\ BeginsWith(q.name, n)
  BY Zenon DEF NamesTable, DbScan
<1> DEFINE len == q.len
<1> HIDE DEF at0, l, len
<1>4. (\A i \in at0..(at0 + l - 1) : 6 <= i /\ i < 64) <=> at0 \in 6..62 /\ at0 + l <= 64
  <2>1. ASSUME \A i \in at0..(at0 + l - 1) : 6 <= i /\ i < 64 PROVE at0 \in 6..62 /\ at0 + l <= 64
    <3>1. at0 \in at0..(at0 + l - 1) /\ at0 + l - 1 \in at0..(at0 + l - 1)
      BY <1>1
    <3>2. 6 <= at0 /\ at0 + l - 1 < 64
      BY <2>1, <3>1, Zenon
    <3> QED BY <1>1, <3>2
  <2>2. ASSUME at0 \in 6..62 /\ at0 + l <= 64 PROVE \A i \in at0..(at0 + l - 1) : 6 <= i /\ i < 64
    BY <1>1, <2>2
  <2> QED BY <2>1, <2>2, Zenon
<1>5. at0 \in 6..62 => len >= 6
  BY <1>1 DEF len
<1> QED BY <1>2, <1>3, <1>4, <1>5, Zenon DEF len

\* It finds a collection of at least four bytes exactly when the command is on it
\* (bpf/stdio.bpf.c:92-127).
LEMMA CollectionExact ==
    ASSUME NEW q \in Queries \cup Statements, NEW n \in DOMAIN NameLen, NameLen[n] > 3, q.wire = "mongo", Whole(q)
    PROVE  q.len >= 6 /\ ak_mongo_match_slot(q, n) <=> NamesCollection(q, n)
<1>1. q.at \in Nat /\ q.len \in Nat /\ NameLen[n] \in Nat
  BY QueryAssumption, Zenon
<1>2. NamesCollection(q, n) <=> q.at \in 30..40 /\ q.anchored /\ q.name = n
  BY DEF NamesCollection
<1>3. ak_mongo_match_slot(q, n) <=> q.at \in 30..40 /\ q.anchored /\ q.at + 21 <= q.len /\ q.name = n
  BY <1>1 DEF ak_mongo_match_slot, DbPat
<1>4. q.name = n => q.at + 21 <= q.len
  BY <1>1 DEF Whole
<1>5. q.at + 21 <= q.len => q.len >= 6
  BY <1>1
<1> QED BY <1>2, <1>3, <1>4, <1>5, Zenon

\* It finds every such denied name that the reference finds.
LEMMA MatcherFinds ==
    ASSUME LongNamed, NEW q \in Queries, Names(q)
    PROVE  ak_db_query_check(q, Tables)
<1>1. PICK n \in Tables : NamesTable(q, n) \/ (Whole(q) /\ NamesCollection(q, n))
  BY Zenon DEF Names
<1>2. n \in DOMAIN NameLen /\ NameLen[n] \in Nat
  BY QueryAssumption, Zenon
<1>3. CASE NamesTable(q, n)
  <2>1. q.wire = "sql"
    BY <1>3, Zenon DEF NamesTable
  <2>2. NameLen[n] > 1
    BY <1>2 DEF LongNamed
  <2>3. q.len >= 6 /\ ak_db_match_slot(q, n)
    BY <1>2, <1>3, <2>1, <2>2, MatcherExact, Zenon
  <2> QED BY <2>1, <2>3 DEF ak_db_query_check
<1>4. CASE Whole(q) /\ NamesCollection(q, n)
  <2>1. q.wire = "mongo"
    BY <1>4, Zenon DEF NamesCollection
  <2>2. NameLen[n] > 3
    BY <2>1, Zenon DEF LongNamed
  <2>3. q.len >= 6 /\ ak_mongo_match_slot(q, n)
    BY <1>2, <1>4, <2>1, <2>2, CollectionExact, Zenon
  <2> QED BY <2>1, <2>3, Zenon DEF ak_db_query_check
<1> QED BY <1>1, <1>3, <1>4, Zenon

\* Every return probe is of one of the two kinds.
LEMMA ReadReturns ==
    ASSUME NEW f \in Flows, TlsExit(f) \/ SysExit(f)
    PROVE  \E fn \in Reads : \E gate, n : ExitGated(f, fn, gate, n) \/ ExitTaking(f, fn, gate, n)
<1>1. CASE TlsExit(f)
  BY <1>1, StashMaps, Zenon DEF TlsExit, ak_ssl_read_exit, ak_gotls_read_ret, ak_aead_open_exit,
            ak_chacha_open_exit, ak_aesgcm_dec_exit, ak_aesgcm512_dec_exit
<1>2. CASE SysExit(f)
  BY <1>2, StashMaps, Zenon DEF SysExit, ak_stdio_read_exit, ak_recvfrom_exit, ak_recvmsg_exit
<1> QED BY <1>1, <1>2, Zenon

\* No flow begins or ends a send.
SendsSame == \A g \in Flows : (Sending(g))' <=> Sending(g)

\* A step in which one flow goes from a call that is no send to another.
LEMMA OtherCall ==
    ASSUME call \in [Flows -> Calls], NEW f \in Flows, NEW c,
           call' = [call EXCEPT ![f] = c], call[f].fn \notin Sends, c.fn \notin Sends
    PROVE  SendsSame
BY Zenon DEF SendsSame, Sending

\* The capture's own steps touch no send.
LEMMA CaptureApart ==
    ASSUME call \in [Flows -> Calls], WNext
    PROVE  SendsSame
<1>1. NoCall.fn \notin Sends /\ \A fn \in Reads : fn \notin Sends
  BY StashMaps, Zenon DEF NoCall, Sends
<1>2. ASSUME UNCHANGED call PROVE SendsSame
  BY <1>2, Zenon DEF SendsSame, Sending
<1>3. ASSUME NEW f \in Flows, NEW fn \in Reads, NEW arg, NEW fd, NEW len, NEW gate,
             Enter(f, fn, arg, fd, len, gate)
      PROVE  SendsSame
  <2> DEFINE c == [fn |-> fn, arg |-> arg, fd |-> fd, len |-> len]
  <2>1. call' = [call EXCEPT ![f] = c] /\ call[f] = NoCall /\ c.fn = fn
    BY <1>3, Zenon DEF Enter, Ready
  <2> HIDE DEF c
  <2> QED BY Zenon, <1>1, <2>1, OtherCall
<1>4. ASSUME NEW f \in Flows, NEW fn \in Reads, NEW gate, NEW n,
             ExitGated(f, fn, gate, n) \/ ExitTaking(f, fn, gate, n)
      PROVE  SendsSame
  <2>1. call' = [call EXCEPT ![f] = NoCall] /\ call[f].fn = fn
    BY <1>4, Zenon DEF ExitGated, ExitTaking
  <2> QED BY Zenon, <1>1, <2>1, OtherCall
<1>5. ASSUME NEW f \in Flows, Abandon(f) PROVE SendsSame
  <2>1. call' = [call EXCEPT ![f] = NoCall] /\ call[f].fn \in Reads
    BY <1>5, Zenon DEF Abandon
  <2> QED BY Zenon, <1>1, <2>1, OtherCall
<1>6. ASSUME NEW f \in Flows, TlsWrite(f) \/ Park(f) \/ \E t \in Threads : Resume(f, t) PROVE SendsSame
  <2>1. UNCHANGED call
    BY <1>6, Zenon DEF TlsWrite, ak_ssl_write, ak_gotls_write, ak_aead_seal, ak_chacha_seal,
                ak_aesgcm_enc, ak_aesgcm512_enc, Write, Park, Resume, probeVars
  <2> QED BY <1>2, <2>1, Zenon
<1>7. ASSUME NEW f \in Flows, TlsEnter(f) PROVE SendsSame
  <2>1. \E fn \in Reads : \E arg, len : Enter(f, fn, arg, NoFd, len, Monitored(f))
    BY <1>7, StashMaps, Zenon DEF TlsEnter, ak_ssl_read_enter, ak_gotls_read_enter, ak_aead_open_enter,
                ak_chacha_open_enter, ak_aesgcm_dec_enter, ak_aesgcm512_dec_enter
  <2> QED BY <1>3, <2>1, Zenon
<1>8. ASSUME NEW f \in Flows, TlsExit(f) \/ SysExit(f) PROVE SendsSame
  <2>1. \E fn \in Reads : \E gate, n : ExitGated(f, fn, gate, n) \/ ExitTaking(f, fn, gate, n)
    BY <1>8, ReadReturns, Zenon
  <2> QED BY <1>4, <2>1, Zenon
<1>9. ASSUME NEW f \in Flows, SysEnter(f) PROVE SendsSame
  <2>1. CASE \E fn \in Reads : \E arg, fd, len, gate : Enter(f, fn, arg, fd, len, gate)
    BY <1>3, <2>1, Zenon
  <2>2. CASE UNCHANGED call
    BY <1>2, <2>2, Zenon
  <2> QED BY <1>9, <2>1, <2>2, StashMaps, Zenon DEF SysEnter, ak_stdio_read_enter, ak_recvfrom_enter,
                ak_recvmsg_enter, ak_sendto, ak_connect, probeVars
<1>10. ASSUME DaemonStep PROVE SendsSame
  <2>1. UNCHANGED call
    BY <1>10, Zenon DEF DaemonStep, Daemon, RegisterPID, UnregisterPID, RegisterMcpFd, UnregisterMcpFd, EvictFd,
                SetMcpArmed, armFlag, FlagLookup, FlagPut, probeVars
  <2> QED BY <1>2, <2>1, Zenon
<1> QED BY <1>5, <1>6, <1>7, <1>8, <1>9, <1>10, Zenon DEF WNext
-----------------------------------------------------------------------------
\* A step that leaves marks and sends alone and gives no verdict.
LEMMA MarksKept ==
    ASSUME QInd, SendsSame, verdict' = NoVerdict, UNCHANGED <<pending, due, stray>>
    PROVE  QInd'
<1>1. MarkConsumed'
  BY Zenon DEF QInd, MarkConsumed, SendsSame, Alone, Proc
<1>2. ASSUME LongNamed PROVE DueMarked'
  BY <1>2, Zenon DEF QInd, DueMarked, SendsSame, Alone, Proc
<1>3. DeniedRefused'
  BY Zenon DEF DeniedRefused, NoVerdict
<1> QED BY <1>1, <1>2, <1>3, Zenon DEF QInd

\* The entry tracepoint of a send.
LEMMA BeginMarks ==
    ASSUME QInd, call \in [Flows -> Calls],
           NEW f \in Flows, NEW fn \in Sends, NEW arg, NEW fd, NEW q \in Queries, NEW captured,
           NEW matched, matched = IsDb(f, fd), Begin(f, fn, arg, fd, q, captured, matched)
    PROVE  QInd'
<1> DEFINE c == [fn |-> fn, arg |-> arg, fd |-> fd, len |-> 0]
<1>1. call' = [call EXCEPT ![f] = c] /\ c.fn = fn
  BY Zenon DEF Begin
<1> HIDE DEF c
<1>2. (Sending(f))' /\ \A g \in Flows \ {f} : (Sending(g))' <=> Sending(g)
  BY <1>1, Zenon DEF Sending
<1>3. PICK readable \in BOOLEAN :
         /\ pending' = IF matched /\ "block" \in ak_flags /\ readable /\ ak_db_query_check(q, Tables)
                       THEN pending \cup {Proc(f)} ELSE pending
         /\ due' = IF Key(f, fd) \in fds.db /\ {"db", "block"} \subseteq ak_flags /\ readable /\ Names(q)
                   THEN due \cup {f} ELSE due
  BY Zenon DEF Begin
<1>4. stray' = stray /\ verdict' = NoVerdict
  BY Zenon DEF Begin
<1>5. pending \subseteq pending' /\ pending' \subseteq pending \cup {Proc(f)} /\ due' \subseteq due \cup {f}
  BY Zenon, <1>3
<1>6. LongNamed /\ f \in due' \ due => Proc(f) \in pending'
  BY <1>3, MatcherFinds, Zenon DEF IsDb
<1>7. MarkConsumed'
  <2> SUFFICES ASSUME NEW g \in Flows, Alone(g), ~(Sending(g))', Proc(g) \in pending'
               PROVE  Proc(g) \in stray
    BY <1>4, Zenon DEF MarkConsumed, Alone, Proc
  <2>1. g # f /\ Proc(g) # Proc(f)
    BY <1>2, Zenon DEF Alone
  <2> QED BY <1>2, <1>5, <2>1, Zenon DEF QInd, MarkConsumed
<1>8. ASSUME LongNamed PROVE DueMarked'
  <2> SUFFICES ASSUME NEW g \in due'
               PROVE  g \in Flows /\ (Sending(g))' /\ (Alone(g) => Proc(g) \in pending')
    BY Zenon DEF DueMarked, Alone, Proc
  <2>1. CASE g \in due
    BY <1>2, <1>5, <1>8, <2>1, Zenon DEF QInd, DueMarked
  <2>2. CASE g \notin due
    BY <1>2, <1>5, <1>6, <1>8, <2>2, Zenon
  <2> QED BY <2>1, <2>2, Zenon
<1>9. DeniedRefused'
  BY <1>4, Zenon DEF DeniedRefused, NoVerdict
<1> QED BY <1>7, <1>8, <1>9, Zenon DEF QInd

\* The end of a send that p's mark, if it has one, either does not outlive or
\* is known to outlive.
LEMMA EndUnmarks ==
    ASSUME QInd, call \in [Flows -> Calls], NEW f \in Flows, NEW refused, NEW armed,
           End(f, refused, armed),
           pending \ {Proc(f)} \subseteq pending', pending' \subseteq pending,
           stray \ {Proc(f)} \subseteq stray', Proc(f) \in pending' => Proc(f) \in stray',
           LongNamed /\ f \in due /\ armed /\ Alone(f) => refused
    PROVE  QInd'
<1>1. call' = [call EXCEPT ![f] = NoCall] /\ due' = due \ {f}
  BY Zenon DEF End
<1>2. \A g \in Flows \ {f} : (Sending(g))' <=> Sending(g)
  BY <1>1, Zenon DEF Sending
<1>3. MarkConsumed'
  <2> SUFFICES ASSUME NEW g \in Flows, Alone(g), ~(Sending(g))', Proc(g) \in pending'
               PROVE  Proc(g) \in stray'
    BY Zenon DEF MarkConsumed, Alone, Proc
  <2>1. CASE g = f
    BY <2>1, Zenon
  <2>2. CASE g # f
    <3>1. Proc(g) # Proc(f)
      BY <2>2, Zenon DEF Alone
    <3> QED BY <1>2, <2>2, <3>1, Zenon DEF QInd, MarkConsumed
  <2> QED BY <2>1, <2>2, Zenon
<1>4. ASSUME LongNamed PROVE DueMarked'
  <2> SUFFICES ASSUME NEW g \in due'
               PROVE  g \in Flows /\ (Sending(g))' /\ (Alone(g) => Proc(g) \in pending')
    BY Zenon DEF DueMarked, Alone, Proc
  <2>1. g \in due /\ g # f
    BY <1>1, Zenon
  <2>2. Alone(g) => Proc(g) # Proc(f)
    BY <2>1, Zenon DEF Alone
  <2> QED BY <1>2, <1>4, <2>1, <2>2, Zenon DEF QInd, DueMarked
<1>5. ASSUME LongNamed PROVE DeniedRefused'
  <2>1. verdict' = [flow |-> f, due |-> f \in due, armed |-> armed, refused |-> refused]
    BY Zenon DEF End
  <2>2. verdict'.flow = f /\ verdict'.due = (f \in due) /\ verdict'.armed = armed /\ verdict'.refused = refused
    BY <2>1, Zenon
  <2> SUFFICES ASSUME verdict'.due, verdict'.armed, Alone(verdict'.flow)
               PROVE  verdict'.refused
    BY Zenon DEF DeniedRefused, Alone, Proc
  <2> QED BY Zenon, <1>5, <2>2
<1> QED BY <1>3, <1>4, <1>5, Zenon DEF QInd
-----------------------------------------------------------------------------
\* No marks and no verdict at the start.
LEMMA QIndInit == QInit => QInd
BY DEF QInit, QInd, MarkConsumed, DueMarked, DeniedRefused, NoVerdict

\* Every step keeps the invariant.
LEMMA QIndNext == QInd /\ WInd /\ [QNext]_blockVars => QInd'
<1> SUFFICES ASSUME QInd, WInd, [QNext]_blockVars PROVE QInd'
  BY Zenon
<1>1. call \in [Flows -> Calls]
  BY Zenon DEF WInd, ProbeTypes
<1>2. CASE WNext /\ verdict' = NoVerdict /\ UNCHANGED <<files, pending, due, stray>>
  BY <1>1, <1>2, CaptureApart, MarksKept, Zenon
<1>3. ASSUME NEW f \in Flows, NEW fd \in Fds, NEW a \in Args, NEW q \in Queries,
             ak_stdio_write(f, a, fd, q) \/ ak_db_sendto(f, a, fd, q)
      PROVE  QInd'
  <2>1. \E fn \in Sends : \E captured : Begin(f, fn, a, fd, q, captured, IsDb(f, fd))
    BY <1>3, Zenon DEF ak_stdio_write, ak_db_sendto, Sends
  <2> QED BY <1>1, <2>1, BeginMarks, Zenon
<1>4. ASSUME NEW f \in Flows, NEW fd \in Fds, Reuse(f, fd)
      PROVE  QInd'
  <2>1. SendsSame
    BY <1>4, Zenon DEF Reuse, SendsSame, Sending, probeVars
  <2> QED BY <1>4, <2>1, MarksKept, Zenon DEF Reuse
<1>5. ASSUME NEW f \in Flows, WriteFile(f)
      PROVE  QInd'
  <2>1. pending' = pending /\ stray' = IF Proc(f) \in pending THEN stray \cup {Proc(f)} ELSE stray
    BY <1>5, Zenon DEF WriteFile
  <2>2. End(f, FALSE, FALSE)
    BY <1>5, Zenon DEF WriteFile
  <2> QED BY Zenon, <1>1, <2>1, <2>2, EndUnmarks
<1>6. ASSUME NEW f \in Flows, NEW prior \in BOOLEAN, ak_lsm_socket_sendmsg(f, prior)
      PROVE  QInd'
  <2> DEFINE p == Proc(f)
             looks == ~prior /\ "block" \in ak_flags
             marked == looks /\ p \in pending
             refused == prior \/ (marked /\ p \in Enforced \cap monitor)
             armed == "block" \in ak_flags /\ p \in Enforced \cap monitor
  <2>1. /\ pending' = IF marked THEN pending \ {p} ELSE pending
        /\ stray' = IF marked THEN stray \ {p}
                    ELSE IF ~looks /\ p \in pending THEN stray \cup {p} ELSE stray
        /\ End(f, refused, armed)
    BY <1>6, Zenon DEF ak_lsm_socket_sendmsg, Consumed
  <2>2. LongNamed /\ f \in due /\ armed /\ Alone(f) => refused
    BY Zenon DEF QInd, DueMarked
  <2>3. /\ pending \ {p} \subseteq pending' /\ pending' \subseteq pending
        /\ stray \ {p} \subseteq stray' /\ (p \in pending' => p \in stray')
    BY <2>1, Zenon
  <2> HIDE DEF refused, armed, marked, looks
  <2> QED BY <1>1, <2>1, <2>2, <2>3, EndUnmarks, Zenon
<1>7. CASE UNCHANGED blockVars
  BY <1>7, Zenon DEF blockVars, wvars, qvars, probeVars, QInd, MarkConsumed, DueMarked, DeniedRefused,
              Sending, Alone, Proc
<1> QED BY <1>2, <1>3, <1>4, <1>5, <1>6, <1>7, Zenon DEF QNext

\* QInd holds in every reachable state.
THEOREM QIndAlways == QSpec => []QInd
<1>1. QInit /\ [][QNext]_blockVars /\ []WInd => []QInd
  BY QIndInit, QIndNext, PTL
<1> QED BY <1>1, WIndAlways, PTL DEF QSpec

\* In a process of one thread a query that names a denied table of two bytes or
\* more, in the matcher's window, or a denied collection of four or more, and on
\* a marked socket, is refused whenever the session enforces and the block is
\* armed at the hook, for any tables, queries and other processes
\* (bpf/stdio.bpf.c:56-172; bpf/enforcer.bpf.c:479-500).
THEOREM DeniedRefusedAlways ==
    ASSUME \A n \in Tables : NameLen[n] > 3 \/ (NameLen[n] > 1 /\ \A q \in Queries : q.wire # "mongo")
    PROVE  QSpec => []DeniedRefused
<1>1. QInd => DeniedRefused
  BY Zenon DEF QInd, LongNamed
<1> QED BY <1>1, QIndAlways, PTL

\* No mark of a process of one thread is left for a later send, unless its call
\* reached no sendmsg hook that looked (bpf/enforcer.bpf.c:479-500).
THEOREM MarkConsumedAlways == QSpec => []MarkConsumed
<1>1. QInd => MarkConsumed
  BY Zenon DEF QInd
<1> QED BY <1>1, QIndAlways, PTL

\* For any statements and names: one of at least two bytes is matched exactly
\* when all of it lies in the window, and a collection of at least four exactly
\* when a whole command is on it (bpf/stdio.bpf.c:56-172).
THEOREM WindowMatchedAlways == QSpec => []WindowMatched
<1>1. WindowMatched
  <2>1. ASSUME NEW q \in Statements, NEW n \in DOMAIN NameLen, NameLen[n] > 1, q.wire = "sql"
        PROVE  ak_db_query_check(q, {n}) <=> NamesTable(q, n)
    <3>1. ak_db_query_check(q, {n}) <=> q.len >= 6 /\ ak_db_match_slot(q, n)
      BY <2>1 DEF ak_db_query_check
    <3> QED BY <2>1, <3>1, MatcherExact, Zenon
  <2>2. ASSUME NEW q \in Statements, NEW n \in DOMAIN NameLen, NameLen[n] > 3, q.wire = "mongo", Whole(q)
        PROVE  ak_db_query_check(q, {n}) <=> NamesCollection(q, n)
    <3>1. ak_db_query_check(q, {n}) <=> q.len >= 6 /\ ak_mongo_match_slot(q, n)
      BY <2>2, Zenon DEF ak_db_query_check
    <3> QED BY <2>2, <3>1, CollectionExact, Zenon
  <2> QED BY <2>1, <2>2, Zenon DEF WindowMatched
<1> QED BY <1>1, PTL
-----------------------------------------------------------------------------
(* Types.  The probes' and the daemon's state are treated apart.           *)

FdMaps == [mcp : SUBSET (Procs \X Fds), dns : SUBSET (Procs \X Fds), db : SUBSET (Procs \X Fds)]

ProbeRest ==
    /\ work \in Workloads /\ suspect \subseteq Stashes \X Threads
    /\ calls \in 0..MaxCalls /\ moves \in 0..MaxMoves
MapRest ==
    /\ monitor \subseteq Procs /\ ak_flags \subseteq Flags
    /\ rmw \in [Flows \cup Writers -> (SUBSET Flags) \cup {NoWord}]
    /\ fds \in FdMaps /\ flips \in 0..MaxFlips
MarkRest ==
    /\ files \subseteq Procs \X Fds
    /\ pending \subseteq Procs /\ stray \subseteq pending /\ due \subseteq Flows

\* A descriptor's key, and the bounds, are what they should be.
LEMMA KeyType ==
    /\ \A f \in Flows : Proc(f) \in Procs
    /\ \A f \in Flows, fd \in Fds : Key(f, fd) \in Procs \X Fds
    /\ MaxCalls \in Nat /\ MaxFlips \in Nat /\ MaxMoves \in Nat
BY WireAssumption, Zenon DEF Key, Proc

\* Entries and returns: one call more, and at most the thread's own entry in doubt.
LEMMA ProbeRestSteps ==
    ASSUME ProbeRest, work' = work,
           calls' = calls \/ (calls < MaxCalls /\ calls' = calls + 1),
           moves' = moves \/ (moves < MaxMoves /\ moves' = moves + 1),
           suspect' \subseteq suspect \/ \E m \in Stashes, t \in Threads : suspect' \subseteq suspect \cup {<<m, t>>}
    PROVE  ProbeRest'
<1>1. calls' \in 0..MaxCalls /\ moves' \in 0..MaxMoves
  BY KeyType DEF ProbeRest
<1>2. suspect' \subseteq Stashes \X Threads
  BY DEF ProbeRest
<1> QED BY <1>1, <1>2, Zenon DEF ProbeRest

\* Reads, writes and sends, whatever they do to the daemon's maps.
LEMMA ProbeRestNext ==
    ASSUME WInd, ProbeRest, [QNext]_blockVars
    PROVE  ProbeRest'
<1>1. ASSUME NEW f \in Flows, NEW fn \in Reads, NEW arg, NEW fd, NEW len, NEW gate,
             Enter(f, fn, arg, fd, len, gate)
      PROVE  ProbeRest'
  <2>1. work' = work /\ moves' = moves /\ calls < MaxCalls /\ calls' = calls + 1 /\ suspect' \subseteq suspect
    BY <1>1, Zenon DEF Enter, Ready
  <2> QED BY <2>1, ProbeRestSteps, Zenon
<1>2. ASSUME NEW f \in Flows, NEW fn \in Reads, NEW gate, NEW n,
             ExitGated(f, fn, gate, n) \/ ExitTaking(f, fn, gate, n)
      PROVE  ProbeRest'
  <2>1. at[f] \in Threads /\ StashOf[fn] \in Stashes
    BY <1>2, StashMaps, Zenon DEF ExitGated, ExitTaking, WInd, ProbeTypes
  <2>2. work' = work /\ moves' = moves /\ calls' = calls /\ suspect' \subseteq suspect \cup {<<StashOf[fn], at[f]>>}
    BY <1>2, Zenon DEF ExitGated, ExitTaking
  <2> QED BY <2>1, <2>2, ProbeRestSteps, Zenon
<1>3. ASSUME NEW f \in Flows, Park(f) \/ Abandon(f) PROVE ProbeRest'
  <2>1. call[f].fn \in Reads /\ at[f] \in Threads
    BY <1>3, StashMaps, Zenon DEF Park, Abandon, WInd, ProbeTypes
  <2>2. /\ work' = work /\ calls' = calls /\ moves < MaxMoves /\ moves' = moves + 1
        /\ suspect' \subseteq suspect \cup {<<StashOf[call[f].fn], at[f]>>}
    BY <1>3, Zenon DEF Park, Abandon, Left
  <2> QED BY <2>1, <2>2, StashMaps, ProbeRestSteps, Zenon
<1>4. ASSUME work' = work, suspect' = suspect, moves' = moves,
             calls' = calls \/ (calls < MaxCalls /\ calls' = calls + 1)
      PROVE  ProbeRest'
  BY <1>4, ProbeRestSteps, Zenon
<1>5. ASSUME NEW f \in Flows, TlsWrite(f) \/ \E t \in Threads : Resume(f, t) PROVE ProbeRest'
  <2>1. CASE TlsWrite(f)
    <3>1. \E fn, a, n : Write(f, fn, a, n)
      BY <2>1, Zenon DEF TlsWrite, ak_ssl_write, ak_gotls_write, ak_aead_seal, ak_chacha_seal,
                  ak_aesgcm_enc, ak_aesgcm512_enc
    <3> QED BY <1>4, <3>1, Zenon DEF Write, Ready, probeVars
  <2>2. CASE \E t \in Threads : Resume(f, t)
    BY <1>4, <2>2, Zenon DEF Resume
  <2> QED BY <1>5, <2>1, <2>2, Zenon
<1>6. ASSUME NEW f \in Flows, TlsEnter(f) PROVE ProbeRest'
  <2>1. \E fn \in Reads : \E arg, len : Enter(f, fn, arg, NoFd, len, Monitored(f))
    BY <1>6, StashMaps, Zenon DEF TlsEnter, ak_ssl_read_enter, ak_gotls_read_enter, ak_aead_open_enter,
                ak_chacha_open_enter, ak_aesgcm_dec_enter, ak_aesgcm512_dec_enter
  <2> QED BY <1>1, <2>1, Zenon
<1>7. ASSUME NEW f \in Flows, TlsExit(f) \/ SysExit(f) PROVE ProbeRest'
  <2>1. \E fn \in Reads : \E gate, n : ExitGated(f, fn, gate, n) \/ ExitTaking(f, fn, gate, n)
    BY <1>7, ReadReturns, Zenon
  <2> QED BY <1>2, <2>1, Zenon
<1>8. ASSUME NEW f \in Flows, SysEnter(f) PROVE ProbeRest'
  <2>1. CASE \E fn \in Reads : \E arg, fd, len, gate : Enter(f, fn, arg, fd, len, gate)
    BY <1>1, <2>1, Zenon
  <2>2. CASE \E a, fd, n, dest, room : ak_sendto(f, a, fd, n) \/ ak_connect(f, fd, dest, room)
    BY <1>4, <2>2, Zenon DEF ak_sendto, ak_connect, Ready, probeVars
  <2> QED BY <1>8, <2>1, <2>2, StashMaps, Zenon DEF SysEnter, ak_stdio_read_enter, ak_recvfrom_enter, ak_recvmsg_enter
<1>9. ASSUME DaemonStep PROVE ProbeRest'
  <2>1. UNCHANGED <<work, suspect, calls, moves>>
    BY <1>9, Zenon DEF DaemonStep, Daemon, RegisterPID, UnregisterPID, RegisterMcpFd, UnregisterMcpFd, EvictFd,
                SetMcpArmed, armFlag, FlagLookup, FlagPut, probeVars
  <2> QED BY <1>4, <2>1, Zenon
<1>10. CASE WNext
  BY <1>3, <1>5, <1>6, <1>7, <1>8, <1>9, <1>10, Zenon DEF WNext
<1>11. ASSUME NEW f \in Flows, NEW fd \in Fds, NEW a \in Args, NEW q \in Queries,
              ak_stdio_write(f, a, fd, q) \/ ak_db_sendto(f, a, fd, q)
       PROVE  ProbeRest'
  BY <1>4, <1>11, Zenon DEF ak_stdio_write, ak_db_sendto, Begin, Ready
<1>12. ASSUME NEW f \in Flows, WriteFile(f) \/ (\E fd \in Fds : Reuse(f, fd))
                              \/ \E prior \in BOOLEAN : ak_lsm_socket_sendmsg(f, prior)
       PROVE  ProbeRest'
  BY <1>4, <1>12, Zenon DEF WriteFile, ak_lsm_socket_sendmsg, End, Reuse, probeVars
<1>13. CASE UNCHANGED blockVars
  BY <1>4, <1>13, Zenon DEF blockVars, wvars, probeVars
<1> QED BY <1>10, <1>11, <1>12, <1>13, Zenon DEF QNext

\* Which maps the probes and the daemon write.
LEMMA MapRestNext ==
    ASSUME MapRest, [QNext]_blockVars
    PROVE  MapRest'
<1>1. ASSUME UNCHANGED mapVars PROVE MapRest'
  BY <1>1, Zenon DEF MapRest, mapVars
<1>2. fds.mcp \in SUBSET (Procs \X Fds) /\ fds.dns \in SUBSET (Procs \X Fds) /\ fds.db \in SUBSET (Procs \X Fds)
  BY Zenon DEF MapRest, FdMaps
<1>3. ASSUME NEW a \in SUBSET (Procs \X Fds), NEW b \in SUBSET (Procs \X Fds),
             NEW c \in SUBSET (Procs \X Fds), fds' = [mcp |-> a, dns |-> b, db |-> c]
      PROVE  fds' \in FdMaps
  BY <1>3, Zenon DEF FdMaps
<1>4. fds = [mcp |-> fds.mcp, dns |-> fds.dns, db |-> fds.db]
  BY Zenon DEF MapRest, FdMaps
<1>5. Daemon => flips' \in 0..MaxFlips
  BY KeyType DEF Daemon, MapRest
<1>6. ASSUME NEW f \in Flows, SysEnter(f) PROVE MapRest'
  <2>1. ASSUME NEW a, NEW fd \in Fds, NEW n, ak_sendto(f, a, fd, n) PROVE MapRest'
    <3>1. UNCHANGED <<monitor, ak_flags, rmw, flips>>
      BY <2>1, Zenon DEF ak_sendto
    <3>2. CASE Monitored(f)
      <4>1. fds' = [mcp |-> fds.mcp, dns |-> fds.dns \cup {Key(f, fd)}, db |-> fds.db]
        BY <1>4, <2>1, <3>2, Zenon DEF ak_sendto
      <4>2. fds' \in FdMaps
        BY Zenon, <1>2, <1>3, <4>1, KeyType
      <4> QED BY <3>1, <4>2, Zenon DEF MapRest
    <3>3. CASE ~Monitored(f)
      BY <2>1, <3>1, <3>3, Zenon DEF ak_sendto, MapRest
    <3> QED BY <3>2, <3>3, Zenon
  <2>2. ASSUME NEW fd \in Fds, NEW dest, NEW room, ak_connect(f, fd, dest, room) PROVE MapRest'
    <3>1. UNCHANGED <<monitor, ak_flags, flips>>
      BY <2>2, Zenon DEF ak_connect
    <3>2. CASE Monitored(f) /\ room
      <4> DEFINE b == IF "dns" \in dest THEN fds.dns \cup {Key(f, fd)} ELSE fds.dns
                 c == IF "db" \in dest THEN fds.db \cup {Key(f, fd)} ELSE fds.db
      <4>1. fds' = [mcp |-> fds.mcp, dns |-> b, db |-> c]
        BY <1>4, <2>2, <3>2, Zenon DEF ak_connect
      <4>2. b \in SUBSET (Procs \X Fds) /\ c \in SUBSET (Procs \X Fds)
        BY <1>2, KeyType, Zenon
      <4>3. fds' \in FdMaps
        BY Zenon, <1>2, <1>3, <4>1, <4>2
      <4>4. rmw' \in [Flows \cup Writers -> (SUBSET Flags) \cup {NoWord}]
        <5>1. ak_flags \cup {"db"} \in SUBSET Flags
          BY Zenon DEF MapRest, Flags
        <5>2. rmw' = rmw \/ rmw' = [rmw EXCEPT ![f] = ak_flags \cup {"db"}]
          BY <2>2, <3>2, Zenon DEF ak_connect
        <5> QED BY <5>1, <5>2, Zenon DEF MapRest
      <4> QED BY <3>1, <4>3, <4>4, Zenon DEF MapRest
    <3>3. CASE ~(Monitored(f) /\ room)
      <4>1. UNCHANGED <<fds, rmw>>
        BY <2>2, <3>3, Zenon DEF ak_connect
      <4> QED BY <3>1, <4>1, Zenon DEF MapRest
    <3> QED BY <3>2, <3>3, Zenon
  <2>3. CASE UNCHANGED mapVars
    BY <1>1, <2>3, Zenon
  <2> QED BY <1>6, <2>1, <2>2, <2>3, Zenon DEF SysEnter, ak_stdio_read_enter, ak_recvfrom_enter, ak_recvmsg_enter, Enter
<1>7. ASSUME NEW p \in Procs, RegisterPID(p) \/ UnregisterPID(p) PROVE MapRest'
  BY <1>5, <1>7, Zenon DEF RegisterPID, UnregisterPID, MapRest
<1>8. ASSUME NEW p \in Procs, NEW fd \in Fds,
             RegisterMcpFd(p, fd) \/ UnregisterMcpFd(p, fd) \/ EvictFd(<<p, fd>>)
      PROVE  MapRest'
  <2>1. UNCHANGED <<monitor, ak_flags, rmw>> /\ flips' \in 0..MaxFlips
    BY <1>5, <1>8, Zenon DEF RegisterMcpFd, UnregisterMcpFd, EvictFd
  <2>2. CASE RegisterMcpFd(p, fd)
    <3> DEFINE a == fds.mcp \cup {<<p, fd>>}
               b == fds.dns
               c == fds.db
    <3>1. fds' = [mcp |-> a, dns |-> b, db |-> c]
      BY <1>4, <2>2, Zenon DEF RegisterMcpFd
    <3>2. a \in SUBSET (Procs \X Fds) /\ b \in SUBSET (Procs \X Fds) /\ c \in SUBSET (Procs \X Fds)
      BY <1>2
    <3> HIDE DEF a, b, c
    <3>3. fds' \in FdMaps
      BY <1>3, <3>1, <3>2, Zenon
    <3> QED BY <2>1, <3>3, Zenon DEF MapRest
  <2>3. CASE UnregisterMcpFd(p, fd)
    <3> DEFINE a == fds.mcp \ {<<p, fd>>}
               b == fds.dns
               c == fds.db
    <3>1. fds' = [mcp |-> a, dns |-> b, db |-> c]
      BY <1>4, <2>3, Zenon DEF UnregisterMcpFd
    <3>2. a \in SUBSET (Procs \X Fds) /\ b \in SUBSET (Procs \X Fds) /\ c \in SUBSET (Procs \X Fds)
      BY <1>2, Zenon
    <3> HIDE DEF a, b, c
    <3>3. fds' \in FdMaps
      BY <1>3, <3>1, <3>2, Zenon
    <3> QED BY <2>1, <3>3, Zenon DEF MapRest
  <2>4. CASE EvictFd(<<p, fd>>)
    <3> DEFINE a == fds.mcp
               b == fds.dns \ {<<p, fd>>}
               c == fds.db \ {<<p, fd>>}
    <3>1. fds' = [mcp |-> a, dns |-> b, db |-> c]
      BY <1>4, <2>4, Zenon DEF EvictFd
    <3>2. a \in SUBSET (Procs \X Fds) /\ b \in SUBSET (Procs \X Fds) /\ c \in SUBSET (Procs \X Fds)
      BY <1>2, Zenon
    <3> HIDE DEF a, b, c
    <3>3. fds' \in FdMaps
      BY <1>3, <3>1, <3>2, Zenon
    <3> QED BY <2>1, <3>3, Zenon DEF MapRest
  <2> QED BY <1>8, <2>2, <2>3, <2>4, Zenon
<1>9. ASSUME NEW w \in Writers, armFlag(w, "block") \/ armFlag(w, "persist") \/ \E on \in BOOLEAN : SetMcpArmed(w, on)
      PROVE  MapRest'
  <2>1. PICK next \in SUBSET Flags : FlagLookup(w, next)
    BY <1>9, Zenon DEF armFlag, SetMcpArmed, MapRest, Flags
  <2>2. rmw' = [rmw EXCEPT ![w] = next] /\ UNCHANGED <<monitor, ak_flags, fds>> /\ flips' \in 0..MaxFlips
    BY <1>5, <2>1, Zenon DEF FlagLookup
  <2>3. rmw' \in [Flows \cup Writers -> (SUBSET Flags) \cup {NoWord}]
    BY <2>2, Zenon DEF MapRest
  <2> QED BY <2>2, <2>3, Zenon DEF MapRest
<1>10. ASSUME NEW w \in Flows \cup Writers, FlagPut(w) PROVE MapRest'
  <2>1. rmw[w] # NoWord /\ ak_flags' = rmw[w] /\ rmw' = [rmw EXCEPT ![w] = NoWord] /\ UNCHANGED <<monitor, fds, flips>>
    BY <1>10, Zenon DEF FlagPut
  <2>2. ak_flags' \subseteq Flags /\ rmw' \in [Flows \cup Writers -> (SUBSET Flags) \cup {NoWord}]
    BY <2>1, Zenon DEF MapRest
  <2> QED BY <2>1, <2>2, Zenon DEF MapRest
<1>11. ASSUME NEW f \in Flows, TlsWrite(f) \/ TlsEnter(f) \/ Park(f) \/ Abandon(f) \/ \E t \in Threads : Resume(f, t)
       PROVE  MapRest'
  <2>1. UNCHANGED mapVars
    BY <1>11, Zenon DEF TlsWrite, ak_ssl_write, ak_gotls_write, ak_aead_seal, ak_chacha_seal,
            ak_aesgcm_enc, ak_aesgcm512_enc, Write, TlsEnter, ak_ssl_read_enter, ak_gotls_read_enter,
            ak_aead_open_enter, ak_chacha_open_enter, ak_aesgcm_dec_enter, ak_aesgcm512_dec_enter, Enter,
            Park, Abandon, Resume
  <2> QED BY <1>1, <2>1, Zenon
<1>12. ASSUME NEW f \in Flows, TlsExit(f) \/ SysExit(f) PROVE MapRest'
  BY <1>1, <1>12, ReadReturns, Zenon DEF ExitGated, ExitTaking
<1>13. CASE WNext
  BY <1>6, <1>7, <1>8, <1>9, <1>10, <1>11, <1>12, <1>13, Zenon DEF WNext, DaemonStep
<1>14. ASSUME NEW f \in Flows, NEW fd \in Fds, NEW a \in Args, NEW q \in Queries,
              ak_stdio_write(f, a, fd, q) \/ ak_db_sendto(f, a, fd, q)
       PROVE  MapRest'
  BY <1>1, <1>14, Zenon DEF ak_stdio_write, ak_db_sendto, Begin
<1>15. ASSUME NEW f \in Flows, NEW fd \in Fds, Reuse(f, fd) PROVE MapRest'
  BY <1>5, <1>15, Zenon DEF Reuse, MapRest
<1>16. ASSUME NEW f \in Flows, WriteFile(f) \/ \E prior \in BOOLEAN : ak_lsm_socket_sendmsg(f, prior)
       PROVE  MapRest'
  BY <1>1, <1>16, Zenon DEF WriteFile, ak_lsm_socket_sendmsg, End
<1>17. CASE UNCHANGED blockVars
  BY <1>1, <1>17, Zenon DEF blockVars, wvars
<1> QED BY <1>13, <1>14, <1>15, <1>16, <1>17, Zenon DEF QNext

\* Marks: one left over is still a mark, since the hook that consumes a mark
\* forgets that it was left over.
LEMMA MarkRestNext ==
    ASSUME MarkRest, [QNext]_blockVars
    PROVE  MarkRest'
<1>1. ASSUME UNCHANGED <<files, pending, due, stray>> PROVE MarkRest'
  BY <1>1, Zenon DEF MarkRest
<1>2. ASSUME NEW f \in Flows, NEW fd \in Fds, NEW a \in Args, NEW q \in Queries,
             ak_stdio_write(f, a, fd, q) \/ ak_db_sendto(f, a, fd, q)
      PROVE  MarkRest'
  <2>1. /\ UNCHANGED <<files, stray>> /\ due' \subseteq due \cup {f}
        /\ pending \subseteq pending' /\ pending' \subseteq pending \cup {Proc(f)}
    BY <1>2, Zenon DEF ak_stdio_write, ak_db_sendto, Begin
  <2> QED BY <2>1, KeyType, Zenon DEF MarkRest
<1>3. ASSUME NEW f \in Flows, NEW fd \in Fds, Reuse(f, fd) PROVE MarkRest'
  <2>1. UNCHANGED <<pending, due, stray>> /\ files' \subseteq files \cup {Key(f, fd)}
    BY <1>3, Zenon DEF Reuse
  <2>2. files' \subseteq Procs \X Fds
    BY <2>1, KeyType, Zenon DEF MarkRest
  <2> QED BY <2>1, <2>2, Zenon DEF MarkRest
<1>4. ASSUME NEW f \in Flows, WriteFile(f) PROVE MarkRest'
  BY <1>4, Zenon DEF WriteFile, End, MarkRest
<1>5. ASSUME NEW f \in Flows, NEW prior \in BOOLEAN, ak_lsm_socket_sendmsg(f, prior) PROVE MarkRest'
  <2>1. files' = files /\ due' \subseteq due
    BY <1>5, Zenon DEF ak_lsm_socket_sendmsg, End
  <2>2. pending' \subseteq pending /\ stray' \subseteq pending'
    BY <1>5, Zenon DEF ak_lsm_socket_sendmsg, Consumed, MarkRest
  <2> QED BY <2>1, <2>2, Zenon DEF MarkRest
<1>6. CASE UNCHANGED blockVars
  BY <1>1, <1>6, Zenon DEF blockVars, qvars
<1> QED BY <1>1, <1>2, <1>3, <1>4, <1>5, <1>6, Zenon DEF QNext

\* The types hold: in particular every entry of the stash maps is one a call
\* made, the control word never holds an unknown bit, and a mark that outlived
\* its send is still in ak_db_deny_pending (bpf/maps.bpf.h, bpf/stdio.bpf.c).
THEOREM QTypeOKAlways == QSpec => []QTypeOK
<1>1. QInit => ProbeRest /\ MapRest /\ MarkRest
  <2> SUFFICES ASSUME QInit PROVE ProbeRest /\ MapRest /\ MarkRest
    BY Zenon
  <2>1. ProbeRest /\ MarkRest
    BY KeyType DEF QInit, WInit, ProbeRest, MarkRest
  <2>2. fds \in FdMaps
    BY Zenon DEF QInit, WInit, FdMaps
  <2>3. MapRest
    BY <2>2, KeyType DEF QInit, WInit, MapRest
  <2> QED BY <2>1, <2>3, Zenon
<1>2. WInd /\ (ProbeRest /\ MapRest /\ MarkRest) /\ [QNext]_blockVars => (ProbeRest /\ MapRest /\ MarkRest)'
  BY ProbeRestNext, MapRestNext, MarkRestNext, Zenon
<1>3. WInd /\ ProbeRest /\ MapRest /\ MarkRest => QTypeOK
  <2> SUFFICES ASSUME WInd, ProbeRest, MapRest, MarkRest PROVE QTypeOK
    BY Zenon
  <2>1. \A k \in fds.mcp \cup fds.dns \cup fds.db : k \in Procs \X Fds
    BY Zenon DEF MapRest, FdMaps
  <2> QED BY <2>1, Zenon DEF WInd, ProbeTypes, ProbeRest, MapRest, MarkRest, QTypeOK, WTypeOK
<1> QED BY <1>1, <1>2, <1>3, WIndAlways, PTL DEF QSpec
=============================================================================
