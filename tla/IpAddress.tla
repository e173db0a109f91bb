------------------------------- MODULE IpAddress -------------------------------
(***************************************************************************)
(* IP.cpp, IP4.cpp and IP6.cpp: what is an address, what is a private one, *)
(* and the name it is looked up by.                                        *)
(*                                                                         *)
(* The text of an IPv4 address is the sequence of its octets, each the     *)
(* sequence of its digits; that of an IPv6 address, a sequence of tokens:  *)
(* "h" for one to four hexadecimal digits, ":", and "q" for an IPv4        *)
(* address.  A rule of the grammar that chooses (sor) takes the first      *)
(* alternative that matches and does not come back to the others.          *)
(***************************************************************************)
EXTENDS Naturals, Sequences, SequencesExt

Starts(digits, sets) == Len(digits) >= Len(sets) /\ \A i \in DOMAIN sets : digits[i] \in sets[i]

Digit == 0 .. 9

\* dec_octet: how many of the digits it matches.
DecOctet(digits) ==
  CASE \/ Starts(digits, <<{2}, {5}, 0 .. 5>>)
       \/ Starts(digits, <<{2}, 0 .. 4, Digit>>)
       \/ Starts(digits, <<{0, 1}, Digit, Digit>>) -> 3
    [] OTHER -> IF Len(digits) < 2 THEN Len(digits) ELSE 2

\* ipv4_address: behind each octet there is a dot, or the end.
IsAddress4(octets) ==
  Len(octets) = 4 /\ \A i \in 1 .. 4 : octets[i] # <<>> /\ DecOctet(octets[i]) = Len(octets[i])

\* std::from_chars
Value(digits) == FoldLeft(LAMBDA n, d : 10 * n + d, 0, digits)

\* IP4::is_private: the octets are compared as they are written, but for one.
IsPrivate4(octets) ==
  \/ octets[1] = <<1, 0>>
  \/ octets[1] = <<1, 7, 2>> /\ Value(octets[2]) \in 16 .. 31
  \/ octets[1] = <<1, 9, 2>> /\ octets[2] = <<1, 6, 8>>

-------------------------------------------------------------------------------
(* IPv6: each rule gives the position behind what it matches, or Fail (0). *)

Fail == 0

Token(text, p, token) == IF p \in DOMAIN text /\ text[p] = token THEN p + 1 ELSE Fail

Then(text, p, token) == IF p = Fail THEN Fail ELSE Token(text, p, token)

DColon(text, p) == Then(text, Then(text, p, ":"), ":")

\* rep<n, h16, colon>
Rep(text, p, n) == FoldLeft(LAMBDA q, i : Then(text, Then(text, q, "h"), ":"), p, [i \in 1 .. n |-> i])

\* opt<h16, rep_opt<n, colon, h16>>: as many groups as there are, up to n + 1.
OptGroups(text, p, n) ==
  IF Token(text, p, "h") = Fail THEN p
  ELSE FoldLeft(LAMBDA q, i : IF Then(text, Token(text, q, ":"), "h") = Fail THEN q ELSE q + 2,
                p + 1, [i \in 1 .. n |-> i])

\* ls32
Ls32(text, p) ==
  LET two == Then(text, Then(text, Then(text, p, "h"), ":"), "h")
  IN IF two # Fail THEN two ELSE Then(text, p, "q")

\* The alternatives of ipv6_address in their order: k = 1 is the whole address, k = 9 ends with
\* "::".
Alternative(text, k) ==
  LET left == IF k = 2 THEN 1 ELSE OptGroups(text, 1, k - 3)
      right == DColon(text, left)
  IN CASE k = 1 -> Ls32(text, Rep(text, 1, 6))
       [] k \in 2 .. 7 -> Ls32(text, Rep(text, right, 7 - k))
       [] k = 8 -> Then(text, right, "h")
       [] k = 9 -> right

\* Wrong: the shortest alternative comes first.
Alternatives_ShortestFirst(text) ==
  SelectSeq([k \in 1 .. 9 |-> 10 - k], LAMBDA k : Alternative(text, k) # Fail)

Alternatives(text) == SelectSeq([k \in 1 .. 9 |-> k], LAMBDA k : Alternative(text, k) # Fail)

\* IP6::is_address
IsAddress6(text) ==
  Alternatives(text) # <<>> /\ Alternative(text, Head(Alternatives(text))) = Len(text) + 1

\* IP6::reverse: the labels, half an octet each, the last one first.
Reverse6(octets) ==
  FlattenSeq([i \in DOMAIN octets |-> LET o == octets[Len(octets) + 1 - i] IN <<o % 16, o \div 16>>])
===============================================================================
