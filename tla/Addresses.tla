------------------------------- MODULE Addresses -------------------------------
(***************************************************************************)
(* conn() of snd.cpp and of Send.cpp: which address of a host is connected *)
(* to.  One socket per family serves every attempt.                        *)
(*                                                                         *)
(* A host has kind "name", with addresses in the DNS (six and four), or is *)
(* a literal of either kind, "lit6" or "lit4", with the address in it.     *)
(* accepts is the set of addresses that a connection to succeeds;          *)
(* local the family of --local_address, or "".                             *)
(***************************************************************************)
EXTENDS Naturals, Sequences, SequencesExt

\* The addresses of one family.
AddressesOf(host, family) ==
  CASE host.kind = "name" -> IF family = 6 THEN host.six ELSE host.four
    [] host.kind = "lit6" -> IF family = 6 THEN host.six ELSE <<>>
    [] host.kind = "lit4" -> IF family = 4 THEN host.four ELSE <<>>

\* fd: the address connected to, "none", or "aborted"; open: the sockets left open; tried:
\* the addresses, in order.
NotYet == [fd |-> "none", open |-> 0, tried |-> <<>>]

\* Wrong: the last one that answers.
Attempt_GoesOn(c, address, accepts) ==
  [c EXCEPT !.tried = Append(@, address), !.fd = IF address \in accepts THEN address ELSE @]

\* The next address is tried, unless there is a connection.
Attempt(c, address, accepts) ==
  IF c.fd # "none"
    THEN c
    ELSE [c EXCEPT !.tried = Append(@, address), !.fd = IF address \in accepts THEN address ELSE @]

\* The socket is closed when no address of its family took the connection.
Closed(c) == IF c.fd = "none" THEN [c EXCEPT !.open = @ - 1] ELSE c

\* All of a family.  A local address of the other family ends the program.
OfFamily(c, host, family, accepts, local) ==
  IF c.fd # "none" THEN c
  ELSE IF local \notin {"", IF family = 6 THEN "six" ELSE "four"} THEN [c EXCEPT !.fd = "aborted", !.open = @ + 1]
  ELSE Closed(FoldLeft(LAMBDA d, address : Attempt(d, address, accepts),
                       [c EXCEPT !.open = @ + 1], AddressesOf(host, family)))

\* The families of snd, by --4 and --6, of which main lets at most one be given.
Families(only4, only6) == (IF only4 THEN <<>> ELSE <<6>>) \o (IF only6 THEN <<>> ELSE <<4>>)

\* snd.cpp's conn.
Conn(host, families, accepts, local) ==
  FoldLeft(LAMBDA c, family : OfFamily(c, host, family, accepts, local), NotYet, families)

\* Send.cpp's conn knows of IPv4 alone.
SendConn(host, accepts, local) == Conn(host, <<4>>, accepts, local)
===============================================================================
