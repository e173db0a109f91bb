----------------------------- MODULE Certificates -----------------------------
(***************************************************************************)
(* TLS-OpenSSL.cpp: which certificate is shown to the peer, and what is    *)
(* made of the one the peer shows.                                         *)
(*                                                                         *)
(* A certificate has common names (cns), in order, and alternative names   *)
(* (sans), in order, each of a type.  Names are compared as Domains, so    *)
(* that case and a dot at the end do not tell them apart: here, they are   *)
(* equal.  "ip" stands for an IPv4 address, which a Domain brackets.       *)
(***************************************************************************)
EXTENDS Naturals, Sequences, SequencesExt

Domain(name) == IF name = "ip" THEN "[ip]" ELSE name

\* An alternative name: of a host, unless it is there; of an address, only for a server.
WithSan(names, san, server) ==
  CASE san.type = "DNS" /\ san.name \notin ToSet(names) -> Append(names, Domain(san.name))
    [] san.type = "IP4" /\ server -> Append(names, Domain(san.name))
    [] OTHER -> names

\* The names of a certificate: per_cert_ctx::cn.
Names(cert, server) ==
  FoldLeft(LAMBDA names, san : WithSan(names, san, server),
           [i \in DOMAIN cert.cns |-> Domain(cert.cns[i])], cert.sans)

\* The certificates that name someone, in order.
Naming(certs, name, server) ==
  SelectSeq([i \in DOMAIN certs |-> i], LAMBDA i : name \in ToSet(Names(certs[i], server)))

-------------------------------------------------------------------------------

\* The certificate a server shows unless the callback chooses another: the last one loaded.
Default(certs) == Len(certs)

NoName == ""

\* ssl_servername_callback: the first that names the name asked for; none is a warning.
Asked(certs, name) ==
  CASE name = NoName -> [shown |-> Default(certs), warned |-> FALSE]
    [] name # NoName /\ Naming(certs, name, TRUE) # <<>> ->
         [shown |-> IF Len(certs) > 1 THEN Head(Naming(certs, name, TRUE)) ELSE Default(certs), warned |-> FALSE]
    [] OTHER -> [shown |-> Default(certs), warned |-> TRUE]

\* starttls_client: of the certificates that name the client the last one loaded, or none (0).
Presented(certs, client) ==
  LET mine == Naming(certs, client, FALSE) IN IF mine = <<>> THEN 0 ELSE Last(mine)

-------------------------------------------------------------------------------

CONSTANT VerifyDepth  \* Config::cert_verify_depth

\* Wrong: what was wrong with a certificate is forgotten when the next one is right.
VerifyCallback_Forgets(error, step) == step.depth > VerifyDepth \/ ~step.preverified

\* verify_callback, called for each certificate of the chain, continues always; an error, its
\* own or that of OpenSSL, is kept.
VerifyCallback(error, step) == error \/ step.depth > VerifyDepth \/ ~step.preverified

\* SSL_get_verify_result, external: X509_V_OK if no error was kept.
Verified(chain) == ~FoldLeft(VerifyCallback, FALSE, chain)

\* How many of the TLSA records SSL_dane_tlsa_add has taken; others are not given to it.
Usable(records) == Len(SelectSeq(records, LAMBDA r : r = "added"))

\* The handshake is over: whether starttls_client succeeds, and verified_.  A chain that was
\* not verified is let pass, with a warning; authority: whether a record has verified it.
Judged(chain, records, authority, enforce) ==
  [verified |-> Verified(chain),
   result |-> ~(Verified(chain) /\ ~authority /\ Usable(records) > 0 /\ enforce)]

\* starttls_server succeeds whatever the client shows; verified_ only if it shows something.
Identified(offered, chain) == offered /\ Verified(chain)
===============================================================================
