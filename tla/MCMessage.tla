------------------------------- MODULE MCMessage -------------------------------
(* The messages that Message is checked with. *)
EXTENDS Message

Plain(name) == Header(name, "", Input)

Results(by) == Header("Authentication-Results", by, Input)
From(addresses) == [Plain("From") EXCEPT !.addresses = addresses]
Spf(spf) == [Plain("Received-SPF") EXCEPT !.spf = spf]

User(domain) == Address("user", domain)

\* Received-SPF of server "us" with one of these results, and one of these for an identity.
Ours(results, identities) ==
  [read : {TRUE}, result : results, by : {"us"},
   efrom : {NoAddress, User("a"), User("b"), Address("postmaster", "a")},
   helo : {NoHelo, Helo("a"), Helo("b"), [domain |-> "no domain", ok |-> FALSE]},
   identity : identities]

\* Received-SPF of server "us", one that cannot be read, and one of another server.
Fields ==
  Ours({"pass"}, {"", "helo"}) \cup Ours({"none"}, {""})
    \cup {NoSpf, [read |-> TRUE, result |-> "pass", by |-> "them", efrom |-> User("a"),
                  helo |-> Helo("a"), identity |-> ""]}

\* Messages with two Received-SPF.
TwoFields ==
  {<<Spf(f), Spf(g), From(<<User("a")>>)>> : f \in Fields, g \in {h \in Fields : h.result = "pass"}}

\* Messages with results of ours, of others and such as cannot be read; with delivery
\* headers; with no, one and two From, of none, one and two addresses; with no header.
Others ==
  {<<Plain("Return-Path"), Results(r), Results(s), From(f), Plain("Delivered-To")>> \o rest :
     r, s \in {"us", "them", ""}, f \in {<<>>, <<NoAddress>>, <<User("a")>>, <<User("b"), NoAddress>>},
     rest \in {<<>>, <<From(<<User("b")>>), Plain("Reply-To")>>, <<Plain("Reply-To"), Plain("Subject"), Results("us")>>}}
  \cup {<<>>, <<Plain("Subject")>>}

MCTexts == STRING

MCIncoming == TwoFields \cup Others
===============================================================================
