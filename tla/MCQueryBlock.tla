----------------------------- MODULE MCQueryBlock -----------------------------
(* Two threads of one process and one of another, each behaviour with one   *)
(* TLS boundary or one kind of system call; the buffers have four bytes.    *)
EXTENDS QueryBlock, TLC

CONSTANTS f1, f2, f3, t1, t2, t3, p1, p2

MCHome == (f1 :> t1) @@ (f2 :> t2) @@ (f3 :> t3)
MCTgid == (t1 :> p1) @@ (t2 :> p1) @@ (t3 :> p2)

MCWorkloads ==
    {{f1, f2} \X {"SSL_read", "SSL_write"}, {f1, f2} \X {"go_tls_read", "go_tls_write"},
     {f1} \X {"EVP_AEAD_CTX_open", "EVP_AEAD_CTX_seal"},
     {f1} \X {"chacha20_poly1305_open", "aesni_gcm_decrypt", "aes_gcm_decrypt_avx512"},
     {f1} \X {"chacha20_poly1305_seal", "aesni_gcm_encrypt", "aes_gcm_encrypt_avx512"},
     {f1} \X {"read"}, {f1, f2} \X {"recvfrom", "recvmsg", "sendto"},
     {f1} \X {"connect", "recvfrom"}, {f1, f2} \X {"connect", "write"},
     {f3} \X {"connect", "write", "db_sendto"}}

MCNameLen == [u |-> 1, users |-> 5, usersold |-> 8, customer_records |-> 16]
MCLonger == {<<"u", "users">>, <<"u", "usersold">>, <<"users", "usersold">>}

Query(w, n, i, a, l) == [wire |-> w, name |-> n, at |-> i, anchored |-> a, len |-> l]

MCQueries ==
    {Query("sql", "users", 19, TRUE, 24), Query("sql", "usersold", 19, FALSE, 27),
     Query("mongo", "users", 31, TRUE, 53)}

MCStatements ==
    {Query("sql", n, i, a, 80) : n \in DOMAIN MCNameLen, a \in BOOLEAN,
                                 i \in {5, 6, 7} \cup 46..64}
    \cup {Query("mongo", n, i, a, i + MCNameLen[n] + 17) : n \in DOMAIN MCNameLen, a \in BOOLEAN,
                                                          i \in {29, 30, 31, 39, 40, 41}}

MCSymmetry == Permutations(Args)
=============================================================================
