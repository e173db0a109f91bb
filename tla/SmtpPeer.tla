------------------------------- MODULE SmtpPeer -------------------------------
(***************************************************************************)
(* The SMTP server at the other end of the connection of class Send and of *)
(* program snd, as far as those two can tell: what it may answer to a      *)
(* command, and what it then knows.  It is not this repository's server    *)
(* (module Session) but any that keeps RFC 5321's order of commands.       *)
(***************************************************************************)
EXTENDS Naturals, Sequences

CONSTANT
  Extensions    \* the EHLO lines the server may announce

Codes == {"220", "221", "235", "250", "334", "354", "4xx", "5xx"}

Refusals == {"4xx", "5xx"}

Positive == {"220", "221", "235", "250"}

\* What the server keeps: TLS, whether it ever announced STARTTLS in the clear, the
\* transaction, DATA accepted, chunks taken.
Fresh == [tls |-> FALSE, announced |-> FALSE, mail |-> FALSE, rcpt |-> FALSE, data |-> FALSE,
          chunks |-> 0]

Peer == [tls : BOOLEAN, announced : BOOLEAN, mail : BOOLEAN, rcpt : BOOLEAN, data : BOOLEAN,
         chunks : Nat]

\* A command, the message it belongs to and the number of chunks that message has.
Command(verb, m, n) == [verb |-> verb, m |-> m, n |-> n]

Plain(verb) == Command(verb, 0, 0)

Reply(code, ext) == [code |-> code, ext |-> ext]

\* An answer: the reply, what the server knows then, and the messages it takes
\* responsibility for.
Answer(code, s) == [reply |-> Reply(code, {}), s |-> s, took |-> {}]

Refuse(s) == {Answer(code, s) : code \in Refusals}

NoTransaction(s) == [s EXCEPT !.mail = FALSE, !.rcpt = FALSE, !.data = FALSE, !.chunks = 0]

Greetings == {Reply(code, {}) : code \in {"220"} \cup Refusals}

Hello(s) ==
  {[reply |-> Reply("250", ext), took |-> {},
    s |-> [NoTransaction(s) EXCEPT !.announced = @ \/ "STARTTLS" \in ext]] :
      ext \in SUBSET (IF s.tls THEN Extensions \ {"STARTTLS"} ELSE Extensions)}

\* The end of the message: it is whole if every chunk has come.
Take(s, c) ==
  {[reply |-> Reply("250", {}), s |-> NoTransaction(s),
    took |-> {[m |-> c.m, whole |-> c.verb = "dot" \/ s.chunks = c.n]}]}

\* Without recipients nothing is taken; a chunk or an end refused ends the transaction.
Answers(s, c) ==
  CASE c.verb = "EHLO"     -> Hello(s) \cup {Answer("5xx", s)}
    [] c.verb = "HELO"     -> {Answer("250", NoTransaction(s)), Answer("5xx", s)}
    [] c.verb = "STARTTLS" -> {Answer("220", [NoTransaction(s) EXCEPT !.tls = TRUE]),
                               Answer("4xx", s)}
    [] c.verb \in {"NOOP", "RSET"} ->
         {Answer("250", IF c.verb = "RSET" THEN NoTransaction(s) ELSE s)}
    [] c.verb = "AUTH"     -> {Answer("235", s), Answer("5xx", s)}
    [] c.verb = "LOGIN"    -> {Answer("334", s), Answer("5xx", s)}
    [] c.verb = "MAIL"     -> {Answer("250", [NoTransaction(s) EXCEPT !.mail = TRUE])}
                                \cup Refuse(s)
    [] c.verb = "RCPT"     -> (IF s.mail THEN {Answer("250", [s EXCEPT !.rcpt = TRUE])} ELSE {})
                                \cup Refuse(s)
    [] c.verb = "DATA"     -> (IF s.rcpt THEN {Answer("354", [s EXCEPT !.data = TRUE])} ELSE {})
                                \cup Refuse(s)
    [] c.verb = "BDAT"     -> (IF s.rcpt THEN {Answer("250", [s EXCEPT !.chunks = @ + 1])} ELSE {})
                                \cup Refuse(NoTransaction(s))
    [] c.verb = "dot"      -> (IF s.data THEN Take(s, c) ELSE {}) \cup Refuse(NoTransaction(s))
    [] c.verb = "LAST"     -> (IF s.rcpt THEN Take(s, c) ELSE {}) \cup Refuse(NoTransaction(s))
    [] c.verb = "QUIT"     -> {Answer("221", s)}
=============================================================================
