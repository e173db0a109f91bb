--------------------------- MODULE SendClientProofs ---------------------------
(***************************************************************************)
(* What holds of class Send against any server that keeps the order of     *)
(* RFC 5321, for any number of mail exchangers, calls and chunks: the two  *)
(* agree on which messages were taken, and the reply that is left unread   *)
(* after a pipelined MAIL was refused does no harm.                        *)
(***************************************************************************)
EXTENDS SendClient, SequenceTheorems, TLAPS

-----------------------------------------------------------------------------
(***************************************************************************)
(* The inductive invariant.                                                *)
(***************************************************************************)
\* What the server keeps of a transaction: recipients after a sender, DATA and chunks after
\* a recipient.
Sane(s) ==
  /\ s.rcpt => s.mail
  /\ s.data => s.rcpt
  /\ s.chunks > 0 => s.rcpt

\* The replies with one of the codes, and what the server can announce.
Coded(codes) == {r \in [code : Codes, ext : SUBSET Extensions] : r.code \in codes}

\* The commands that the server will still read.
Live == IF up THEN cmds ELSE <<>>

Greeted == {"greeting", "ehlo", "helo", "starttls", "handshake", "ehlo_tls"}

\* Where the client has asked for nothing.
Unasked == {"idle", "aborted", "greeting", "handshake"}

\* What the command was whose reply the client waits for.
VerbOf ==
  [w \in Waits \ {"greeting", "mail_pipelined"} |->
     CASE w \in {"ehlo", "ehlo_tls"} -> "EHLO"
       [] w = "helo" -> "HELO"
       [] w = "starttls" -> "STARTTLS"
       [] w = "mail" -> "MAIL"
       [] w = "rcpt" -> "RCPT"
       [] w = "data" -> "DATA"
       [] w = "dot" -> "dot"
       [] w = "bdat" -> "BDAT"
       [] w = "last" -> "LAST"
       [] w = "rset" -> "RSET"
       [] w = "quit" -> "QUIT"]

Asked(c) ==
  /\ c \in Commands /\ c.verb = VerbOf[pc]
  /\ c.verb \in {"dot", "LAST"} => c.m = calls
  /\ c.verb = "LAST" => c.n = bulk.n

\* What is on its way: nothing where nothing was asked, else the command.
Asking ==
  IF pc \in Unasked THEN Live = <<>>
  ELSE pc \in DOMAIN VerbOf /\ \E c \in Commands : Asked(c) /\ Live = <<c>>

\* What the server keeps before it reads that command.
Before ==
  /\ pc \in Greeted \cup {"mail"} => ~server.mail
  /\ pc \in {"idle", "rcpt", "data", "rset"} => server.chunks = 0
  /\ pc = "bdat" => ~bulk.error /\ (server.rcpt => server.chunks + bulk.left + 1 = bulk.n)
  /\ pc = "last" => (server.rcpt => server.chunks = bulk.n /\ ~bulk.error)

\* And when it has answered with r.
After(r) ==
  /\ pc \in Greeted => ~server.mail
  /\ pc \in {"mail", "rcpt", "data", "dot", "last", "rset"} => server.chunks = 0
  /\ pc = "bdat" => IF r.code = "250"
                    THEN ~bulk.error /\ (server.rcpt => server.chunks + bulk.left = bulk.n)
                    ELSE ~server.rcpt
  /\ pc \in {"dot", "last"} /\ r.code \in Positive => [m |-> calls, whole |-> TRUE] \in stored

\* The next reply is that to the command in hand.
InStep ==
  \/ reps = <<>> /\ (up => Asking /\ Before)
  \/ /\ pc \in DOMAIN VerbOf \cup {"greeting"}
     /\ \E r \in Coded(Codes) : reps = <<r>> /\ Live = <<>> /\ After(r)

\* MAIL and RCPT were sent together.
Pipelined ==
  /\ pc = "mail_pipelined"
  /\ \/ reps = <<>> /\ (up => Live = <<Plain("MAIL"), Plain("RCPT")>> /\ ~server.mail)
     \/ \E r \in Coded(Codes) :
          /\ reps = <<r>> /\ (up => Live = <<Plain("RCPT")>>)
          /\ r.code \notin Positive => ~server.mail
          /\ server.chunks = 0
     \/ \E r \in Coded(Codes), q \in Coded({"250"} \cup Refusals) :
          /\ reps = <<r, q>> /\ Live = <<>>
          /\ r.code \notin Positive => ~server.mail
          /\ server.chunks = 0

\* The next reply is that to an earlier command, and the server has no transaction.
StaleVerbs == IF pc = "last" THEN {"BDAT"} ELSE {"RCPT", "RSET", "DATA", "BDAT", "LAST"}

StaleCodes == IF pc = "last" THEN Refusals ELSE {"250"} \cup Refusals

OwnCodes == CASE pc = "rset" -> {"250"} [] pc = "quit" -> {"221"} [] OTHER -> Refusals

Stale ==
  /\ pc \in {"idle", "data", "bdat", "last", "rset", "quit"} /\ ~server.mail
  /\ \/ \E y \in Commands :
          /\ y.verb \in StaleVerbs /\ reps = <<>>
          /\ IF pc = "idle" THEN Live = <<y>> ELSE \E c \in Commands : Asked(c) /\ Live = <<y, c>>
     \/ \E r \in Coded(StaleCodes) : reps = <<r>> /\ (up => Asking)
     \/ \E r \in Coded(StaleCodes), q \in Coded(OwnCodes) :
          pc # "idle" /\ reps = <<r, q>> /\ Live = <<>>

\* What a server that is no longer listened to may still do: nothing that cuts off a message.
Harmless ==
  \/ ~server.mail /\ \A i \in 1 .. Len(Live) : Live[i].verb # "MAIL"
  \/ \A i \in 1 .. Len(Live) : Live[i].verb \notin {"dot", "LAST"}
  \/ \E c \in Commands :
       /\ Live = <<c>> /\ c.m # 0
       /\ c.verb = "LAST" /\ server.rcpt => server.chunks = c.n

Adrift ==
  /\ conn = "none" => Live = <<>>
  /\ good => Live = <<>> \/ \E c \in Commands : c.verb = "QUIT" /\ Live = <<c>>
  /\ ~good => Harmless

Link == IF conn = "open" /\ good THEN InStep \/ Pipelined \/ Stale ELSE Adrift

\* Where the connection is in each state of the client.
Placed ==
  /\ pc \in Waits \cup {"handshake"} => conn # "none" /\ (good => conn = "open")
  /\ pc = "connect" => conn = "none"
  /\ conn # "none" \/ pc = "connect" => calls # 0
  /\ ~good => lost

\* A message that was taken and is not known to be is the one whose reply comes next.
Took ==
  ~lost => \A s \in stored :
             \/ s.m \in sent
             \/ /\ s.m = calls /\ pc \in {"dot", "last"}
                /\ reps # <<>> /\ Head(reps).code = "250"
                /\ pc = "last" => ~bulk.error

Typed == TypeOK /\ Sane(server) /\ reps \in Seq(Coded(Codes))

IInv == Typed /\ Placed /\ Link /\ SentIsStored /\ Took /\ NeverCutOff
-----------------------------------------------------------------------------
(***************************************************************************)
(* Sequences of one and two.                                               *)
(***************************************************************************)
LEMMA Ones ==
  ASSUME NEW S, NEW a \in S
  PROVE  /\ <<a>> \in Seq(S) /\ <<a>> # <<>> /\ Len(<<a>>) = 1 /\ <<a>>[1] = a
         /\ Head(<<a>>) = a /\ Tail(<<a>>) = <<>>
         /\ <<>> \o <<a>> = <<a>> /\ Append(<<>>, a) = <<a>>
         /\ ToSet(<<a>>) = {a}
<1>1. /\ <<a>> \in Seq(S) /\ <<a>> # <<>> /\ Len(<<a>>) = 1 /\ <<a>>[1] = a
      /\ Head(<<a>>) = a
  OBVIOUS
<1>2. Tail(<<a>>) = <<>>
  <2>1. Tail(<<a>>) \in Seq(S) /\ Len(Tail(<<a>>)) = 0
    BY <1>1, HeadTailProperties
  <2> QED
    BY <2>1, EmptySeq
<1>3. <<>> \o <<a>> = <<a>>
  BY <1>1, ConcatEmptySeq
<1>4. Append(<<>>, a) = <<a>>
  OBVIOUS
<1>5. ToSet(<<a>>) = {a}
  BY DEF ToSet
<1> QED
  BY <1>1, <1>2, <1>3, <1>4, <1>5

LEMMA Twos ==
  ASSUME NEW S, NEW a \in S, NEW b \in S
  PROVE  /\ <<a, b>> \in Seq(S) /\ <<a, b>> # <<>> /\ Len(<<a, b>>) = 2
         /\ <<a, b>>[1] = a /\ <<a, b>>[2] = b
         /\ Head(<<a, b>>) = a /\ Tail(<<a, b>>) = <<b>>
         /\ <<>> \o <<a, b>> = <<a, b>> /\ <<a>> \o <<b>> = <<a, b>>
         /\ Append(<<a>>, b) = <<a, b>>
<1>1. /\ <<a, b>> \in Seq(S) /\ <<a, b>> # <<>> /\ Len(<<a, b>>) = 2
      /\ <<a, b>>[1] = a /\ <<a, b>>[2] = b /\ Head(<<a, b>>) = a
  OBVIOUS
<1>2. Tail(<<a, b>>) = <<b>>
  <2> DEFINE t == Tail(<<a, b>>)
  <2>1. t \in Seq(S) /\ Len(t) = 1 /\ t[1] = b
    BY <1>1, HeadTailProperties
  <2> HIDE DEF t
  <2>2. \A i \in 1 .. Len(t) : t[i] = <<b>>[i]
    BY <2>1
  <2>3. t = <<b>>
    BY <2>1, <2>2, Ones, SeqEqual
  <2> QED
    BY <2>3 DEF t
<1>3. <<>> \o <<a, b>> = <<a, b>>
  BY <1>1, ConcatEmptySeq
<1>4. Append(<<a>>, b) = <<a, b>>
  <2> DEFINE t == Append(<<a>>, b)
  <2>1. t \in Seq(S) /\ Len(t) = 2 /\ t[1] = a /\ t[2] = b
    BY AppendProperties
  <2> HIDE DEF t
  <2>2. \A i \in 1 .. Len(t) : t[i] = <<a, b>>[i]
    <3>1. \A i \in 1 .. Len(t) : i = 1 \/ i = 2
      BY <2>1
    <3> QED
      BY <2>1, <3>1
  <2>3. t = <<a, b>>
    BY <1>1, <2>1, <2>2, SeqEqual
  <2> QED
    BY <2>3 DEF t
<1>5. <<a>> \o <<b>> = <<a, b>>
  <2> DEFINE t == <<a>> \o <<b>>
  <2>1. <<a>> \in Seq(S) /\ <<b>> \in Seq(S) /\ Len(<<a>>) = 1 /\ Len(<<b>>) = 1
    OBVIOUS
  <2>2. t \in Seq(S) /\ Len(t) = 2 /\ t[1] = a /\ t[2] = b
    <3>1. /\ t \in Seq(S) /\ Len(t) = Len(<<a>>) + Len(<<b>>)
          /\ \A i \in 1 .. Len(<<a>>) + Len(<<b>>) :
               t[i] = IF i <= Len(<<a>>) THEN <<a>>[i] ELSE <<b>>[i - Len(<<a>>)]
      BY <2>1, ConcatProperties
    <3> HIDE DEF t
    <3>2. Len(t) = 2 /\ t[1] = <<a>>[1] /\ t[2] = <<b>>[1]
      BY <2>1, <3>1
    <3> QED
      BY <3>1, <3>2
  <2> HIDE DEF t
  <2>3. \A i \in 1 .. Len(t) : t[i] = <<a, b>>[i]
    <3>1. \A i \in 1 .. Len(t) : i = 1 \/ i = 2
      BY <2>2
    <3> QED
      BY <2>2, <3>1
  <2>4. t = <<a, b>>
    BY <1>1, <2>2, <2>3, SeqEqual
  <2> QED
    BY <2>4 DEF t
<1> QED
  BY <1>1, <1>2, <1>3, <1>4, <1>5
-----------------------------------------------------------------------------
(***************************************************************************)
(* What the server does.                                                   *)
(***************************************************************************)
\* The server without a transaction keeps its TLS.
LEMMA NoTransactionType ==
  ASSUME NEW s \in Peer
  PROVE  /\ NoTransaction(s) \in Peer /\ Sane(NoTransaction(s))
         /\ ~NoTransaction(s).mail /\ ~NoTransaction(s).rcpt /\ NoTransaction(s).chunks = 0
<1>1. NoTransaction(s) \in Peer
  BY DEF Peer, NoTransaction
<1>2. ~NoTransaction(s).mail
  BY DEF Peer, NoTransaction
<1>3. ~NoTransaction(s).rcpt
  BY DEF Peer, NoTransaction
<1>4. ~NoTransaction(s).data
  BY DEF Peer, NoTransaction
<1>5. NoTransaction(s).chunks = 0
  BY DEF Peer, NoTransaction
<1> QED
  BY <1>1, <1>2, <1>3, <1>4, <1>5 DEF Sane

\* The parts of an answer.
LEMMA AnswerParts ==
  ASSUME NEW code, NEW s
  PROVE  /\ Answer(code, s).reply = Reply(code, {}) /\ Answer(code, s).s = s
         /\ Answer(code, s).took = {}
BY DEF Answer

\* A reply with one of the codes.
LEMMA ReplyType ==
  ASSUME NEW code \in Codes, NEW ext \in SUBSET Extensions
  PROVE  Reply(code, ext) \in Coded(Codes) /\ Reply(code, ext).code = code
BY DEF Reply, Coded

\* An answer after which the server has no transaction.
LEMMA RefuseNone ==
  ASSUME NEW s \in Peer, NEW a \in Refuse(NoTransaction(s))
  PROVE  /\ a.reply \in Coded(Codes) /\ a.reply.code \in Refusals /\ a.took = {}
         /\ a.s = NoTransaction(s)
<1>1. PICK code \in Refusals : a = Answer(code, NoTransaction(s))
  BY DEF Refuse
<1>2. code \in Codes
  BY DEF Refusals, Codes
<1> QED
  BY <1>1, <1>2, AnswerParts, ReplyType

LEMMA RefuseSame ==
  ASSUME NEW s \in Peer, NEW a \in Refuse(s)
  PROVE  a.reply \in Coded(Codes) /\ a.reply.code \in Refusals /\ a.took = {} /\ a.s = s
<1>1. PICK code \in Refusals : a = Answer(code, s)
  BY DEF Refuse
<1>2. code \in Codes
  BY DEF Refusals, Codes
<1> QED
  BY <1>1, <1>2, AnswerParts, ReplyType

\* A message is taken whole if every chunk has come.
LEMMA TakeParts ==
  ASSUME NEW s \in Peer, NEW c \in Commands, NEW a \in Take(s, c)
  PROVE  /\ a.reply \in Coded(Codes) /\ a.reply.code = "250" /\ a.s = NoTransaction(s)
         /\ a.took = {[m |-> c.m, whole |-> c.verb = "dot" \/ s.chunks = c.n]}
<1>1. "250" \in Codes
  BY DEF Codes
<1> QED
  BY <1>1, ReplyType DEF Take

\* One step of the server: what it says and what it then keeps, by what it was told.
LEMMA HelloStep ==
  ASSUME NEW s \in Peer, Sane(s), NEW c \in Commands, NEW a \in Answers(s, c),
         c.verb \in {"EHLO", "HELO", "STARTTLS"}
  PROVE  /\ a.reply \in Coded(Codes) /\ a.s \in Peer /\ Sane(a.s) /\ a.took = {}
         /\ ~s.mail => ~a.s.mail
<1>0. {"220", "250", "4xx", "5xx"} \subseteq Codes
  BY DEF Codes
<1>1. CASE c.verb = "EHLO"
  <2>1. a \in Hello(s) \/ a = Answer("5xx", s)
    BY <1>1 DEF Answers
  <2>2. CASE a \in Hello(s)
    <3>1. PICK ext \in SUBSET Extensions :
            /\ a.reply = Reply("250", ext) /\ a.took = {}
            /\ a.s = [NoTransaction(s) EXCEPT !.announced = @ \/ "STARTTLS" \in ext]
      BY <2>2 DEF Hello
    <3>2. PICK n \in Peer : n = NoTransaction(s)
      BY NoTransactionType
    <3>3. PICK b \in BOOLEAN : b = (n.announced \/ "STARTTLS" \in ext)
      OBVIOUS
    <3>4. a.s = [n EXCEPT !.announced = b]
      BY <3>1, <3>2, <3>3
    <3>5. [n EXCEPT !.announced = b] \in Peer
      BY DEF Peer
    <3>6. /\ a.s.mail = n.mail /\ a.s.rcpt = n.rcpt /\ a.s.data = n.data /\ a.s.chunks = n.chunks
      BY <3>4 DEF Peer
    <3>7. Sane(n) /\ ~n.mail
      BY <3>2, NoTransactionType
    <3> QED
      BY <1>0, <3>1, <3>4, <3>5, <3>6, <3>7, ReplyType DEF Sane
  <2>3. CASE a = Answer("5xx", s)
    BY <1>0, <2>3, AnswerParts, ReplyType
  <2> QED
    BY <2>1, <2>2, <2>3
<1>2. CASE c.verb = "HELO"
  <2>1. a = Answer("250", NoTransaction(s)) \/ a = Answer("5xx", s)
    BY <1>2 DEF Answers
  <2> QED
    BY <1>0, <2>1, AnswerParts, ReplyType, NoTransactionType
<1>3. CASE c.verb = "STARTTLS"
  <2>1. a = Answer("220", [NoTransaction(s) EXCEPT !.tls = TRUE]) \/ a = Answer("4xx", s)
    BY <1>3 DEF Answers
  <2>2. CASE a = Answer("220", [NoTransaction(s) EXCEPT !.tls = TRUE])
    <3>1. PICK n \in Peer : n = NoTransaction(s)
      BY NoTransactionType
    <3>2. PICK m : m = [n EXCEPT !.tls = TRUE]
      OBVIOUS
    <3>3. m \in Peer
      BY <3>2 DEF Peer
    <3>4. m.mail = n.mail /\ m.rcpt = n.rcpt /\ m.data = n.data /\ m.chunks = n.chunks
      BY <3>2 DEF Peer
    <3>5. Sane(n) /\ ~n.mail
      BY <3>1, NoTransactionType
    <3>6. a = Answer("220", m)
      BY <2>2, <3>1, <3>2
    <3> QED
      BY <1>0, <3>3, <3>4, <3>5, <3>6, AnswerParts, ReplyType DEF Sane
  <2>3. CASE a = Answer("4xx", s)
    BY <1>0, <2>3, AnswerParts, ReplyType
  <2> QED
    BY <2>1, <2>2, <2>3
<1> QED
  BY <1>1, <1>2, <1>3

LEMMA MailStep ==
  ASSUME NEW s \in Peer, Sane(s), NEW c \in Commands, NEW a \in Answers(s, c),
         c.verb = "MAIL"
  PROVE  /\ a.reply \in Coded(Codes) /\ a.s \in Peer /\ Sane(a.s) /\ a.took = {}
         /\ s.chunks = 0 => a.s.chunks = 0
         /\ ~s.mail /\ a.reply.code \notin Positive => ~a.s.mail
<1>0. "250" \in Codes /\ "250" \in Positive
  BY DEF Codes, Positive
<1>1. a = Answer("250", [NoTransaction(s) EXCEPT !.mail = TRUE]) \/ a \in Refuse(s)
  BY DEF Answers
<1>2. CASE a = Answer("250", [NoTransaction(s) EXCEPT !.mail = TRUE])
  <2>1. PICK n \in Peer : n = NoTransaction(s)
    BY NoTransactionType
  <2>2. PICK m : m = [n EXCEPT !.mail = TRUE]
    OBVIOUS
  <2>3. m \in Peer
    BY <2>2 DEF Peer
  <2>4. m.mail /\ m.rcpt = n.rcpt /\ m.data = n.data /\ m.chunks = n.chunks
    BY <2>2 DEF Peer
  <2>5. Sane(n) /\ n.chunks = 0
    BY <2>1, NoTransactionType
  <2>6. a = Answer("250", m)
    BY <1>2, <2>1, <2>2
  <2> QED
    BY <1>0, <2>3, <2>4, <2>5, <2>6, AnswerParts, ReplyType DEF Sane
<1>3. CASE a \in Refuse(s)
  BY <1>3, RefuseSame
<1> QED
  BY <1>1, <1>2, <1>3

LEMMA RcptStep ==
  ASSUME NEW s \in Peer, Sane(s), NEW c \in Commands, NEW a \in Answers(s, c),
         c.verb = "RCPT"
  PROVE  /\ a.reply \in Coded(Codes) /\ a.s \in Peer /\ Sane(a.s) /\ a.took = {}
         /\ a.s.chunks = s.chunks /\ a.s.mail = s.mail
         /\ a.reply.code \in {"250"} \cup Refusals
         /\ ~s.mail => a.reply.code \in Refusals
<1>0. "250" \in Codes
  BY DEF Codes
<1>1. (s.mail /\ a = Answer("250", [s EXCEPT !.rcpt = TRUE])) \/ a \in Refuse(s)
  BY DEF Answers
<1>2. CASE s.mail /\ a = Answer("250", [s EXCEPT !.rcpt = TRUE])
  <2>1. PICK m : m = [s EXCEPT !.rcpt = TRUE]
    OBVIOUS
  <2>2. m \in Peer
    BY <2>1 DEF Peer
  <2>3. m.mail = s.mail /\ m.rcpt /\ m.data = s.data /\ m.chunks = s.chunks
    BY <2>1 DEF Peer
  <2>4. a = Answer("250", m)
    BY <1>2, <2>1
  <2>5. Sane(m) /\ s.mail
    BY <1>2, <2>3 DEF Sane
  <2>6. a.reply = Reply("250", {}) /\ a.s = m /\ a.took = {}
    BY <2>4, AnswerParts
  <2>7. a.reply \in Coded(Codes) /\ a.reply.code = "250"
    BY <1>0, <2>6, ReplyType
  <2> QED
    BY <2>2, <2>3, <2>5, <2>6, <2>7
<1>3. CASE a \in Refuse(s)
  BY <1>3, RefuseSame
<1> QED
  BY <1>1, <1>2, <1>3

LEMMA DataStep ==
  ASSUME NEW s \in Peer, Sane(s), NEW c \in Commands, NEW a \in Answers(s, c),
         c.verb = "DATA"
  PROVE  /\ a.reply \in Coded(Codes) /\ a.s \in Peer /\ Sane(a.s) /\ a.took = {}
         /\ a.s.chunks = s.chunks /\ a.s.mail = s.mail
         /\ ~s.mail => a.reply.code \in Refusals
<1>0. "354" \in Codes
  BY DEF Codes
<1>1. (s.rcpt /\ a = Answer("354", [s EXCEPT !.data = TRUE])) \/ a \in Refuse(s)
  BY DEF Answers
<1>2. CASE s.rcpt /\ a = Answer("354", [s EXCEPT !.data = TRUE])
  <2>1. PICK m : m = [s EXCEPT !.data = TRUE]
    OBVIOUS
  <2>2. m \in Peer
    BY <2>1 DEF Peer
  <2>3. m.mail = s.mail /\ m.rcpt = s.rcpt /\ m.data /\ m.chunks = s.chunks
    BY <2>1 DEF Peer
  <2>4. a = Answer("354", m)
    BY <1>2, <2>1
  <2>5. Sane(m) /\ s.mail
    BY <1>2, <2>3 DEF Sane
  <2>6. a.reply = Reply("354", {}) /\ a.s = m /\ a.took = {}
    BY <2>4, AnswerParts
  <2>7. a.reply \in Coded(Codes) /\ a.reply.code = "354"
    BY <1>0, <2>6, ReplyType
  <2> QED
    BY <2>2, <2>3, <2>5, <2>6, <2>7
<1>3. CASE a \in Refuse(s)
  BY <1>3, RefuseSame
<1> QED
  BY <1>1, <1>2, <1>3

LEMMA BdatStep ==
  ASSUME NEW s \in Peer, Sane(s), NEW c \in Commands, NEW a \in Answers(s, c),
         c.verb = "BDAT"
  PROVE  /\ a.reply \in Coded(Codes) /\ a.s \in Peer /\ Sane(a.s) /\ a.took = {}
         /\ a.reply.code = "250" => a.s.chunks = s.chunks + 1 /\ s.rcpt
         /\ a.reply.code # "250" => ~a.s.rcpt
         /\ ~s.mail => ~a.s.mail /\ a.reply.code \in Refusals
<1>0. "250" \in Codes
  BY DEF Codes
<1>1. (s.rcpt /\ a = Answer("250", [s EXCEPT !.chunks = @ + 1])) \/ a \in Refuse(NoTransaction(s))
  BY DEF Answers
<1>2. CASE s.rcpt /\ a = Answer("250", [s EXCEPT !.chunks = @ + 1])
  <2>0. PICK k \in Nat : k = s.chunks + 1
    BY DEF Peer
  <2>1. PICK m : m = [s EXCEPT !.chunks = k]
    OBVIOUS
  <2>2. m \in Peer
    BY <2>1 DEF Peer
  <2>3. m.mail = s.mail /\ m.rcpt = s.rcpt /\ m.data = s.data /\ m.chunks = k
    BY <2>1 DEF Peer
  <2>4. a = Answer("250", m)
    BY <1>2, <2>0, <2>1
  <2>5. Sane(m) /\ s.mail
    BY <1>2, <2>3 DEF Sane
  <2>6. a.reply = Reply("250", {}) /\ a.s = m /\ a.took = {}
    BY <2>4, AnswerParts
  <2>7. a.reply \in Coded(Codes) /\ a.reply.code = "250"
    BY <1>0, <2>6, ReplyType
  <2> QED
    BY <1>2, <2>0, <2>2, <2>3, <2>5, <2>6, <2>7
<1>3. CASE a \in Refuse(NoTransaction(s))
  <2>1. "250" \notin Refusals
    BY DEF Refusals
  <2> QED
    BY <1>3, <2>1, RefuseNone, NoTransactionType
<1> QED
  BY <1>1, <1>2, <1>3

LEMMA DotStep ==
  ASSUME NEW s \in Peer, Sane(s), NEW c \in Commands, NEW a \in Answers(s, c),
         c.verb = "dot"
  PROVE  /\ a.reply \in Coded(Codes) /\ a.s \in Peer /\ Sane(a.s) /\ a.s.chunks = 0
         /\ ~a.s.mail
         /\ \/ a.took = {[m |-> c.m, whole |-> TRUE]} /\ a.reply.code = "250" /\ s.mail
            \/ a.took = {} /\ a.reply.code \in Refusals
<1>1. (s.data /\ a \in Take(s, c)) \/ a \in Refuse(NoTransaction(s))
  BY DEF Answers
<1>2. CASE s.data /\ a \in Take(s, c)
  <2>1. s.mail
    BY <1>2 DEF Sane
  <2>2. /\ a.reply \in Coded(Codes) /\ a.reply.code = "250" /\ a.s = NoTransaction(s)
        /\ a.took = {[m |-> c.m, whole |-> TRUE]}
    BY <1>2, TakeParts
  <2> QED
    BY <2>1, <2>2, NoTransactionType
<1>3. CASE a \in Refuse(NoTransaction(s))
  BY <1>3, RefuseNone, NoTransactionType
<1> QED
  BY <1>1, <1>2, <1>3

LEMMA LastStep ==
  ASSUME NEW s \in Peer, Sane(s), NEW c \in Commands, NEW a \in Answers(s, c),
         c.verb = "LAST"
  PROVE  /\ a.reply \in Coded(Codes) /\ a.s \in Peer /\ Sane(a.s) /\ a.s.chunks = 0
         /\ ~a.s.mail
         /\ \/ /\ a.took = {[m |-> c.m, whole |-> s.chunks = c.n]}
               /\ a.reply.code = "250" /\ s.rcpt /\ s.mail
            \/ a.took = {} /\ a.reply.code \in Refusals
<1>1. (s.rcpt /\ a \in Take(s, c)) \/ a \in Refuse(NoTransaction(s))
  BY DEF Answers
<1>2. CASE s.rcpt /\ a \in Take(s, c)
  <2>1. s.mail
    BY <1>2 DEF Sane
  <2>2. /\ a.reply \in Coded(Codes) /\ a.reply.code = "250" /\ a.s = NoTransaction(s)
        /\ a.took = {[m |-> c.m, whole |-> c.verb = "dot" \/ s.chunks = c.n]}
    BY <1>2, TakeParts
  <2>3. (c.verb = "dot" \/ s.chunks = c.n) = (s.chunks = c.n)
    OBVIOUS
  <2> QED
    BY <1>2, <2>1, <2>2, <2>3, NoTransactionType
<1>3. CASE a \in Refuse(NoTransaction(s))
  BY <1>3, RefuseNone, NoTransactionType
<1> QED
  BY <1>1, <1>2, <1>3

LEMMA RsetStep ==
  ASSUME NEW s \in Peer, Sane(s), NEW c \in Commands, NEW a \in Answers(s, c),
         c.verb = "RSET"
  PROVE  /\ a.reply \in Coded(Codes) /\ a.reply.code = "250" /\ a.took = {}
         /\ a.s \in Peer /\ Sane(a.s) /\ a.s.chunks = 0 /\ ~a.s.mail
<1>1. a = Answer("250", NoTransaction(s))
  BY DEF Answers
<1>2. "250" \in Codes
  BY DEF Codes
<1> QED
  BY <1>1, <1>2, AnswerParts, ReplyType, NoTransactionType

LEMMA QuitStep ==
  ASSUME NEW s \in Peer, Sane(s), NEW c \in Commands, NEW a \in Answers(s, c),
         c.verb = "QUIT"
  PROVE  /\ a.reply \in Coded(Codes) /\ a.reply.code = "221" /\ a.took = {} /\ a.s = s
<1>1. a = Answer("221", s)
  BY DEF Answers
<1>2. "221" \in Codes
  BY DEF Codes
<1> QED
  BY <1>1, <1>2, AnswerParts, ReplyType

\* What every answer has in common: only the end of a message is a promise, and only to
\* someone with a transaction; without one only MAIL opens one.
LEMMA AnyStep ==
  ASSUME NEW s \in Peer, Sane(s), NEW c \in Commands, NEW a \in Answers(s, c)
  PROVE  /\ a.reply \in Coded(Codes) /\ a.s \in Peer /\ Sane(a.s)
         /\ c.verb \notin {"dot", "LAST"} => a.took = {}
         /\ ~s.mail => a.took = {}
         /\ c.verb # "MAIL" /\ ~s.mail => ~a.s.mail
<1>1. c.verb \in {"EHLO", "HELO", "STARTTLS", "MAIL", "RCPT", "DATA", "dot", "BDAT", "LAST",
                  "RSET", "QUIT"}
  BY DEF Commands
<1>2. CASE c.verb \in {"EHLO", "HELO", "STARTTLS"}
  BY <1>2, HelloStep
<1>3. CASE c.verb = "MAIL"
  BY <1>3, MailStep
<1>4. CASE c.verb = "RCPT"
  BY <1>4, RcptStep
<1>5. CASE c.verb = "DATA"
  BY <1>5, DataStep
<1>6. CASE c.verb = "dot"
  BY <1>6, DotStep
<1>7. CASE c.verb = "BDAT"
  BY <1>7, BdatStep
<1>8. CASE c.verb = "LAST"
  BY <1>8, LastStep
<1>9. CASE c.verb = "RSET"
  BY <1>9, RsetStep
<1>10. CASE c.verb = "QUIT"
  BY <1>10, QuitStep
<1> QED
  BY <1>1, <1>2, <1>3, <1>4, <1>5, <1>6, <1>7, <1>8, <1>9, <1>10
-----------------------------------------------------------------------------
(***************************************************************************)
(* Writing and reading.                                                    *)
(***************************************************************************)
LEMMA VerbsAre ==
  /\ DOMAIN VerbOf = Waits \ {"greeting", "mail_pipelined"}
  /\ VerbOf["ehlo"] = "EHLO" /\ VerbOf["ehlo_tls"] = "EHLO" /\ VerbOf["helo"] = "HELO"
  /\ VerbOf["starttls"] = "STARTTLS" /\ VerbOf["mail"] = "MAIL" /\ VerbOf["rcpt"] = "RCPT"
  /\ VerbOf["data"] = "DATA" /\ VerbOf["dot"] = "dot" /\ VerbOf["bdat"] = "BDAT"
  /\ VerbOf["last"] = "LAST" /\ VerbOf["rset"] = "RSET" /\ VerbOf["quit"] = "QUIT"
  /\ VerbOf' = VerbOf
BY DEF VerbOf, Waits

Verbs == {"EHLO", "HELO", "STARTTLS", "MAIL", "RCPT", "DATA", "dot", "BDAT", "LAST", "RSET",
          "QUIT"}

LEMMA CommandParts ==
  ASSUME NEW verb \in Verbs, NEW m \in 0 .. MaxCalls, NEW n \in 0 .. MaxChunks
  PROVE  /\ Command(verb, m, n) \in Commands /\ Command(verb, m, n).verb = verb
         /\ Command(verb, m, n).m = m /\ Command(verb, m, n).n = n
BY DEF Command, Commands, Verbs

LEMMA PlainParts ==
  ASSUME NEW verb \in Verbs
  PROVE  Plain(verb) \in Commands /\ Plain(verb).verb = verb
BY CommandParts, BoundAssumption DEF Plain

LEMMA LiveType ==
  ASSUME cmds \in Seq(Commands)
  PROVE  Live \in Seq(Commands) /\ <<>> \in Seq(Commands)
BY DEF Live

\* One command written.
LEMMA WriteOne ==
  ASSUME cmds \in Seq(Commands), NEW c \in Commands, Write(<<c>>), UNCHANGED up
  PROVE  /\ cmds' \in Seq(Commands)
         /\ ~good' => Live' = Live
         /\ ~up => Live' = <<>>
         /\ good' /\ up /\ Live = <<>> => Live' = <<c>>
         /\ \A y \in Commands : good' /\ up /\ Live = <<y>> => Live' = <<y, c>>
<1>1. <<c>> \in Seq(Commands) /\ <<>> \o <<c>> = <<c>>
  BY Ones
<1>2. cmds \o <<c>> \in Seq(Commands)
  BY <1>1, ConcatProperties
<1>3. cmds' \in Seq(Commands)
  BY <1>2 DEF Write
<1>4. ~good' => Live' = Live
  BY DEF Live, Write
<1>5. ~up => Live' = <<>>
  BY DEF Live
<1>6. good' /\ up => Live = cmds /\ Live' = cmds \o <<c>>
  BY DEF Live, Write
<1>7. ASSUME NEW y \in Commands, good', up, Live = <<y>> PROVE Live' = <<y, c>>
  <2>1. <<y>> \o <<c>> = <<y, c>>
    BY Twos
  <2> QED
    BY <1>6, <1>7, <2>1
<1> QED
  BY <1>1, <1>3, <1>4, <1>5, <1>6, <1>7

\* Two commands written.
LEMMA WriteTwo ==
  ASSUME cmds \in Seq(Commands), NEW c \in Commands, NEW d \in Commands, Write(<<c, d>>),
         UNCHANGED up, Live = <<>>
  PROVE  /\ cmds' \in Seq(Commands)
         /\ ~good' \/ ~up => Live' = <<>>
         /\ good' /\ up => Live' = <<c, d>>
<1>1. <<c, d>> \in Seq(Commands) /\ <<>> \o <<c, d>> = <<c, d>>
  BY Twos
<1>2. cmds \o <<c, d>> \in Seq(Commands)
  BY <1>1, ConcatProperties
<1>3. cmds' \in Seq(Commands)
  BY <1>2 DEF Write
<1>4. ~good' \/ ~up => Live' = <<>>
  BY DEF Live, Write
<1>5. good' /\ up => Live = cmds /\ Live' = cmds \o <<c, d>>
  BY DEF Live, Write
<1> QED
  BY <1>1, <1>3, <1>4, <1>5

\* What a reply that is read answers.
Own(r) ==
  /\ pc \in DOMAIN VerbOf \cup {"greeting"}
  /\ r \in Coded(Codes) /\ After(r) /\ reps' = <<>> /\ Live = <<>>

OfMail(r) ==
  /\ pc = "mail_pipelined" /\ r \in Coded(Codes)
  /\ r.code \notin Positive => ~server.mail
  /\ server.chunks = 0
  /\ \/ reps' = <<>> /\ (up => Live = <<Plain("RCPT")>>)
     \/ \E q \in Coded({"250"} \cup Refusals) : reps' = <<q>> /\ Live = <<>>

OfEarlier(r) ==
  /\ pc \in {"data", "bdat", "last", "rset", "quit"} /\ ~server.mail
  /\ r \in Coded(StaleCodes)
  /\ \/ reps' = <<>> /\ (up => \E c \in Commands : Asked(c) /\ Live = <<c>>)
     \/ \E q \in Coded(OwnCodes) : reps' = <<q>> /\ Live = <<>>

LEMMA ReadCases ==
  ASSUME IInv, pc \in Waits, NEW r, Reads(pc, r)
  PROVE  /\ conn = "open" /\ good /\ UNCHANGED <<good, up, server>>
         /\ Own(r) \/ OfMail(r) \/ OfEarlier(r)
         /\ reps' \in Seq(Coded(Codes)) /\ r \in Coded(Codes)
<1>1. /\ good /\ reps # <<>> /\ r = Head(reps) /\ reps' = Tail(reps)
      /\ UNCHANGED <<good, up, server>>
  BY DEF Reads
<1>2. conn = "open" /\ reps \in Seq(Coded(Codes))
  BY <1>1 DEF IInv, Placed, Typed
<1>3. InStep \/ Pipelined \/ Stale
  BY <1>1, <1>2 DEF IInv, Link
<1>4. Tail(reps) \in Seq(Coded(Codes)) /\ Head(reps) \in Coded(Codes)
  BY <1>1, <1>2, HeadTailProperties
<1>5. ASSUME NEW x \in Coded(Codes), reps = <<x>> PROVE r = x /\ reps' = <<>>
  BY <1>1, <1>5, Ones
<1>6. ASSUME NEW x \in Coded(Codes), NEW y \in Coded(Codes), reps = <<x, y>>
      PROVE  r = x /\ reps' = <<y>>
  BY <1>1, <1>6, Twos
<1>7. \A codes : codes \subseteq Codes => Coded(codes) \subseteq Coded(Codes)
  BY DEF Coded
<1>8. /\ {"250"} \cup Refusals \subseteq Codes /\ StaleCodes \subseteq Codes
      /\ OwnCodes \subseteq Codes
  BY DEF Refusals, Codes, StaleCodes, OwnCodes
<1>9. CASE InStep
  <2>1. PICK x \in Coded(Codes) :
          /\ pc \in DOMAIN VerbOf \cup {"greeting"} /\ reps = <<x>> /\ Live = <<>> /\ After(x)
    BY <1>1, <1>9 DEF InStep
  <2> QED
    BY <1>1, <1>2, <1>4, <1>5, <2>1 DEF Own
<1>10. CASE Pipelined
  <2>1. CASE \E x \in Coded(Codes) :
          /\ reps = <<x>> /\ (up => Live = <<Plain("RCPT")>>)
          /\ x.code \notin Positive => ~server.mail
          /\ server.chunks = 0
    BY <1>1, <1>2, <1>4, <1>5, <1>10, <2>1 DEF OfMail, Pipelined
  <2>2. CASE \E x \in Coded(Codes), q \in Coded({"250"} \cup Refusals) :
          /\ reps = <<x, q>> /\ Live = <<>>
          /\ x.code \notin Positive => ~server.mail
          /\ server.chunks = 0
    <3>1. PICK x \in Coded(Codes), q \in Coded({"250"} \cup Refusals) :
          /\ reps = <<x, q>> /\ Live = <<>>
          /\ x.code \notin Positive => ~server.mail
          /\ server.chunks = 0
      BY <2>2
    <3>2. q \in Coded(Codes)
      BY <1>7, <1>8
    <3>3. r = x /\ reps' = <<q>>
      BY <1>6, <3>1, <3>2
    <3> QED
      BY <1>1, <1>2, <1>4, <1>10, <3>1, <3>3 DEF OfMail, Pipelined
  <2> QED
    BY <1>1, <1>10, <2>1, <2>2 DEF Pipelined
<1>11. CASE Stale
  <2>1. CASE \E x \in Coded(StaleCodes) : reps = <<x>> /\ (up => Asking)
    <3>1. PICK x \in Coded(StaleCodes) : reps = <<x>> /\ (up => Asking)
      BY <2>1
    <3>2. x \in Coded(Codes)
      BY <1>7, <1>8
    <3>3. r = x /\ reps' = <<>>
      BY <1>5, <3>1, <3>2
    <3>4. pc \in {"data", "bdat", "last", "rset", "quit"} /\ ~server.mail
      BY <1>11 DEF Stale, Waits
    <3>5. up => \E c \in Commands : Asked(c) /\ Live = <<c>>
      BY <3>1, <3>4 DEF Asking, Unasked
    <3> QED
      BY <1>1, <1>2, <1>4, <3>3, <3>4, <3>5 DEF OfEarlier
  <2>2. CASE \E x \in Coded(StaleCodes), q \in Coded(OwnCodes) :
               pc # "idle" /\ reps = <<x, q>> /\ Live = <<>>
    <3>1. PICK x \in Coded(StaleCodes), q \in Coded(OwnCodes) :
               pc # "idle" /\ reps = <<x, q>> /\ Live = <<>>
      BY <2>2
    <3>2. x \in Coded(Codes) /\ q \in Coded(Codes)
      BY <1>7, <1>8
    <3>3. r = x /\ reps' = <<q>>
      BY <1>6, <3>1, <3>2
    <3>4. pc \in {"data", "bdat", "last", "rset", "quit"} /\ ~server.mail
      BY <1>11 DEF Stale, Waits
    <3> QED
      BY <1>1, <1>2, <1>4, <3>1, <3>3, <3>4 DEF OfEarlier
  <2> QED
    BY <1>1, <1>11, <2>1, <2>2 DEF Stale
<1> QED
  BY <1>1, <1>2, <1>3, <1>4, <1>9, <1>10, <1>11

\* A read that fails leaves behind what can do no harm.
LEMMA FailsHarmless ==
  ASSUME IInv, pc \in Waits, ReadFails(pc)
  PROVE  /\ Harmless /\ conn # "none" /\ ~good' /\ lost' = TRUE
         /\ UNCHANGED <<reps, up, server>>
<1>1. /\ good => reps = <<>>
      /\ good' = FALSE /\ lost' = TRUE /\ UNCHANGED <<reps, up, server>>
  BY DEF ReadFails
<1>2. conn # "none" /\ (good => conn = "open") /\ calls # 0
  BY DEF IInv, Placed
<1>3. ASSUME NEW c \in Commands, Live = <<c>> PROVE \A i \in 1 .. Len(Live) : Live[i] = c
  BY <1>3, Ones
<1>4. ASSUME NEW c \in Commands, NEW d \in Commands, Live = <<c, d>>
      PROVE  \A i \in 1 .. Len(Live) : Live[i] = c \/ Live[i] = d
  <2>1. Len(Live) = 2 /\ Live[1] = c /\ Live[2] = d
    BY <1>4, Twos
  <2>2. \A i \in 1 .. Len(Live) : i = 1 \/ i = 2
    BY <2>1
  <2> QED
    BY <2>1, <2>2
<1>5. Live = <<>> => Harmless
  <2> SUFFICES ASSUME Live = <<>> PROVE Harmless
    OBVIOUS
  <2>1. \A i \in 1 .. Len(Live) : Live[i].verb \notin {"dot", "LAST"}
    BY EmptySeq
  <2> QED
    BY <2>1 DEF Harmless
<1> SUFFICES Harmless
  BY <1>1, <1>2
<1>6. CASE ~good
  BY <1>6 DEF IInv, Link, Adrift
<1>7. CASE good /\ InStep
  <2>1. up => Asking /\ Before
    <3>1. \A x : <<x>> # <<>>
      OBVIOUS
    <3> QED
      BY <1>1, <1>7, <3>1 DEF InStep
  <2>2. CASE ~up \/ pc \in Unasked
    BY <1>5, <2>1, <2>2 DEF Live, Asking
  <2>3. CASE up /\ pc \notin Unasked
    <3>1. PICK c \in Commands : Asked(c) /\ Live = <<c>>
      <4>1. Asking
        BY <2>1, <2>3
      <4> QED
        BY <2>3, <4>1 DEF Asking
    <3>2. CASE c.verb \notin {"dot", "LAST"}
      BY <1>3, <3>1, <3>2 DEF Harmless
    <3>3. CASE c.verb \in {"dot", "LAST"}
      <4>1. c.m # 0 /\ (c.verb = "LAST" => c.n = bulk.n /\ VerbOf[pc] = "LAST")
        BY <1>2, <3>1, <3>3 DEF Asked
      <4>2. c.verb = "LAST" => pc = "last"
        BY <4>1, <2>1, <2>3, VerbsAre DEF Asking, Waits, Unasked
      <4>3. c.verb = "LAST" /\ server.rcpt => server.chunks = c.n
        BY <2>1, <2>3, <4>1, <4>2 DEF Before
      <4>4. \E d \in Commands :
              /\ Live = <<d>> /\ d.m # 0
              /\ d.verb = "LAST" /\ server.rcpt => server.chunks = d.n
        BY <3>1, <4>1, <4>3
      <4> QED
        BY <4>4 DEF Harmless
    <3> QED
      BY <3>2, <3>3
  <2> QED
    BY <2>2, <2>3
<1>8. CASE good /\ Pipelined
  <2>1. up => Live = <<Plain("MAIL"), Plain("RCPT")>> /\ ~server.mail
    BY <1>1, <1>8, Ones, Twos DEF Pipelined
  <2>2. PICK c \in Commands, d \in Commands :
          c = Plain("MAIL") /\ d = Plain("RCPT") /\ c.verb = "MAIL" /\ d.verb = "RCPT"
    <3>1. /\ Plain("MAIL") \in Commands /\ Plain("MAIL").verb = "MAIL"
          /\ Plain("RCPT") \in Commands /\ Plain("RCPT").verb = "RCPT"
      BY PlainParts DEF Verbs
    <3> QED
      BY <3>1
  <2>3. CASE ~up
    BY <1>5, <2>3 DEF Live
  <2>4. CASE up
    <3>1. \A i \in 1 .. Len(Live) : Live[i] = c \/ Live[i] = d
      BY <1>4, <2>1, <2>2, <2>4
    <3>2. \A i \in 1 .. Len(Live) : Live[i].verb \notin {"dot", "LAST"}
      BY <2>2, <3>1
    <3> QED
      BY <3>2 DEF Harmless
  <2> QED
    BY <2>3, <2>4
<1>9. CASE good /\ Stale
  <2>1. pc \in {"data", "bdat", "last", "rset", "quit"} /\ ~server.mail
    BY <1>9 DEF Stale, Waits
  <2>2. PICK y \in Commands : /\ y.verb \in StaleVerbs
                              /\ \E c \in Commands : Asked(c) /\ Live = <<y, c>>
    <3>1. \A x : <<x>> # <<>>
      OBVIOUS
    <3>2. \A x, z : <<x, z>> # <<>>
      OBVIOUS
    <3> QED
      BY <1>1, <1>9, <2>1, <3>1, <3>2 DEF Stale
  <2>3. PICK c \in Commands : Asked(c) /\ Live = <<y, c>>
    BY <2>2
  <2>4. c.verb # "MAIL" /\ y.verb # "MAIL"
    BY <2>1, <2>2, <2>3, VerbsAre DEF Asked, StaleVerbs
  <2>5. \A i \in 1 .. Len(Live) : Live[i] = y \/ Live[i] = c
    BY <1>4, <2>3
  <2>6. \A i \in 1 .. Len(Live) : Live[i].verb # "MAIL"
    BY <2>4, <2>5
  <2> QED
    BY <2>1, <2>6 DEF Harmless
<1>10. good => InStep \/ Pipelined \/ Stale
  BY <1>2 DEF IInv, Link
<1> QED
  BY <1>1, <1>2, <1>6, <1>7, <1>8, <1>9, <1>10

\* Nothing changes of the harmless rest.
LEMMA Drifts ==
  ASSUME Harmless, ~good', UNCHANGED <<up, server>>,
         \/ Live' = Live /\ conn' # "none"
         \/ cmds' = <<>>
  PROVE  Link'
<1>1. CASE Live' = Live /\ conn' # "none"
  BY <1>1 DEF Link, Adrift, Harmless
<1>2. CASE cmds' = <<>>
  <2>1. Live' = <<>>
    BY <1>2 DEF Live
  <2> QED
    BY <2>1 DEF Link, Adrift, Harmless
<1> QED
  BY <1>1, <1>2

\* The client waits for the answer to what it has asked for, or has asked for nothing.
LEMMA Arrives ==
  ASSUME good', conn' = "open", reps' = <<>>,
         up' => /\ \/ pc' \in Unasked /\ Live' = <<>>
                   \/ /\ pc' \in DOMAIN VerbOf
                      /\ \E c \in Commands : Asked(c)' /\ Live' = <<c>>
                /\ Before'
  PROVE  Link'
<1>1. DOMAIN VerbOf \cap Unasked = {} /\ VerbOf' = VerbOf
  BY VerbsAre DEF Unasked, Waits
<1>2. up' => Asking'
  BY <1>1 DEF Asking, Unasked
<1> QED
  BY <1>2 DEF Link, InStep

\* What of the messages nobody touches stays agreed.
LEMMA RestKept ==
  ASSUME IInv, UNCHANGED <<sent, stored>>, lost' = lost \/ lost' = TRUE,
         pc \notin {"dot", "last"} \/ lost' = TRUE
  PROVE  SentIsStored' /\ Took' /\ NeverCutOff'
BY DEF IInv, SentIsStored, Took, NeverCutOff

LEMMA RepliesType == Coded(Codes) \subseteq Replies
BY ExtensionAssumption DEF Coded, Replies

LEMMA TypedKept ==
  ASSUME IInv, cmds' \in Seq(Commands), reps' \in Seq(Coded(Codes)), UNCHANGED server,
         pc' \in Waits \cup {"idle", "connect", "handshake", "aborted"}, mxs' \in 0 .. MaxMx,
         conn' \in {"none", "open", "closed"}, good' \in BOOLEAN, ehlo_ok' \in BOOLEAN,
         ehlo_params' \subseteq Extensions, up' \in BOOLEAN, lost' \in BOOLEAN,
         bulk' \in [n : 0 .. MaxChunks, left : 0 .. MaxChunks, error : BOOLEAN],
         calls' \in 0 .. MaxCalls, sent' \subseteq 1 .. MaxCalls, UNCHANGED stored
  PROVE  Typed'
<1>1. reps' \in Seq(Replies)
  BY RepliesType, SeqMonotonic
<1>2. TypeOK'
  BY <1>1 DEF IInv, Typed, TypeOK
<1>3. Sane(server)'
  BY DEF IInv, Typed, Sane
<1>4. (reps \in Seq(Coded(Codes)))'
  BY DEF Coded, Codes
<1> QED
  BY <1>2, <1>3, <1>4 DEF Typed
-----------------------------------------------------------------------------
(***************************************************************************)
(* The connection and the server.                                          *)
(***************************************************************************)
LEMMA BreakStep == IInv /\ Break => IInv'
<1> SUFFICES ASSUME IInv, Break PROVE IInv'
  OBVIOUS
<1>1. /\ up' = FALSE /\ lost' = TRUE /\ Live' = <<>>
      /\ UNCHANGED <<pc, mxs, conn, ehlo_ok, ehlo_params, good, bulk, cmds, reps, server, calls,
                     sent, stored>>
  BY DEF Break, session, history, Live
<1>2. Typed'
  BY <1>1, TypedKept DEF IInv, Typed, TypeOK
<1>3. Placed'
  BY <1>1 DEF IInv, Placed
<1>4. SentIsStored' /\ Took' /\ NeverCutOff'
  BY <1>1, RestKept
<1>5. Link'
  <2>1. CASE ~(conn = "open" /\ good)
    <3>1. Harmless'
      <4>1. \A i \in 1 .. Len(Live') : Live'[i].verb \notin {"dot", "LAST"}
        BY <1>1, EmptySeq
      <4> QED
        BY <4>1 DEF Harmless
    <3> QED
      BY <1>1, <2>1, <3>1 DEF Link, Adrift
  <2>2. CASE conn = "open" /\ good /\ reps = <<>>
    BY <1>1, <2>2 DEF Link, InStep
  <2>3. CASE conn = "open" /\ good /\ reps # <<>> /\ InStep
    <3>1. PICK r \in Coded(Codes) :
            pc \in DOMAIN VerbOf \cup {"greeting"} /\ reps = <<r>> /\ After(r)
      BY <2>3 DEF InStep
    <3>2. After(r)'
      BY <1>1, <3>1 DEF After
    <3>3. InStep'
      BY <1>1, <3>1, <3>2, VerbsAre DEF InStep, Coded, Codes
    <3> QED
      BY <1>1, <2>3, <3>3 DEF Link
  <2>4. CASE conn = "open" /\ good /\ reps # <<>> /\ Pipelined
    <3>1. Pipelined'
      BY <1>1, <2>4 DEF Pipelined, Coded
    <3> QED
      BY <1>1, <2>4, <3>1 DEF Link
  <2>5. CASE conn = "open" /\ good /\ reps # <<>> /\ Stale
    <3>1. StaleCodes' = StaleCodes /\ OwnCodes' = OwnCodes
      BY <1>1 DEF StaleCodes, OwnCodes
    <3>2. Coded(StaleCodes)' = Coded(StaleCodes) /\ Coded(OwnCodes)' = Coded(OwnCodes)
      BY <3>1 DEF Coded
    <3>3. Stale'
      BY <1>1, <2>5, <3>2 DEF Stale
    <3> QED
      BY <1>1, <2>5, <3>3 DEF Link
  <2> QED
    BY <2>1, <2>2, <2>3, <2>4, <2>5 DEF IInv, Link
<1> QED
  BY <1>2, <1>3, <1>4, <1>5 DEF IInv

\* The server reads command c, the next one, and gives answer a.
Answering(c, a) ==
  /\ c \in Commands /\ a \in Answers(server, c)
  /\ server' = a.s /\ stored' = stored \cup a.took
  /\ reps = <<>> => reps' = <<a.reply>>
  /\ \A r \in Coded(Codes) : reps = <<r>> => reps' = <<r, a.reply>>
  /\ reps # <<>> => reps' # <<>> /\ Head(reps') = Head(reps)
  /\ Live # <<>> /\ up
  /\ \E j \in 1 .. Len(Live) : c = Live[j]
  /\ \A i \in 1 .. Len(Live') : \E j \in 1 .. Len(Live) : Live'[i] = Live[j]
  /\ \A x \in Commands : Live = <<x>> => c = x /\ Live' = <<>>
  /\ \A x, y \in Commands :
       Live = <<x, y>> => c = x /\ (x.verb # "QUIT" => up' /\ Live' = <<y>>)
  /\ UNCHANGED <<pc, mxs, conn, ehlo_ok, ehlo_params, good, bulk, calls, sent, lost>>
  /\ cmds' \in Seq(Commands) /\ reps' \in Seq(Coded(Codes)) /\ up' \in BOOLEAN
  /\ a.reply \in Coded(Codes) /\ a.s \in Peer /\ Sane(a.s)

LEMMA ServerAnswers ==
  ASSUME IInv, ServerStep
  PROVE  \E c, a : Answering(c, a)
<1>1. up /\ cmds # <<>> /\ cmds \in Seq(Commands) /\ reps \in Seq(Coded(Codes))
      /\ server \in Peer /\ Sane(server)
  BY DEF IInv, Typed, TypeOK, ServerStep
<1>2. PICK c \in Commands : c = Head(cmds)
  BY <1>1, HeadTailProperties
<1>3. PICK a \in Answers(server, c) :
        reps' = Append(reps, a.reply) /\ server' = a.s /\ stored' = stored \cup a.took
  BY <1>2 DEF ServerStep
<1>4. /\ cmds' = Tail(cmds) /\ up' = (c.verb # "QUIT")
      /\ UNCHANGED <<pc, mxs, conn, ehlo_ok, ehlo_params, good, bulk, calls, sent, lost>>
  BY <1>2 DEF ServerStep, session
<1>5. a.reply \in Coded(Codes) /\ a.s \in Peer /\ Sane(a.s)
  BY <1>1, AnyStep
<1>6. PICK q \in Coded(Codes) : q = a.reply
  BY <1>5
<1>7. /\ reps' \in Seq(Coded(Codes))
      /\ reps = <<>> => reps' = <<q>>
      /\ \A r \in Coded(Codes) : reps = <<r>> => reps' = <<r, q>>
      /\ reps # <<>> => reps' # <<>> /\ Head(reps') = Head(reps)
  <2>1. reps' = Append(reps, q)
    BY <1>3, <1>6
  <2>2. reps' \in Seq(Coded(Codes)) /\ Len(reps') = Len(reps) + 1
        /\ \A i \in 1 .. Len(reps) : reps'[i] = reps[i]
    BY <1>1, <2>1, AppendProperties
  <2>3. reps = <<>> => reps' = <<q>>
    BY <2>1, Ones
  <2>4. ASSUME NEW r \in Coded(Codes), reps = <<r>> PROVE reps' = <<r, q>>
    <3>1. Append(<<r>>, q) = <<r, q>>
      BY Twos
    <3> QED
      BY <2>1, <2>4, <3>1
  <2>5. ASSUME reps # <<>> PROVE reps' # <<>> /\ Head(reps') = Head(reps)
    <3>1. Len(reps) \in Nat \ {0} /\ Head(reps) = reps[1]
      BY <1>1, <2>5, EmptySeq
    <3>2. reps' # <<>> /\ reps'[1] = reps[1]
      BY <2>2, <3>1, EmptySeq
    <3>3. Head(reps') = reps'[1]
      BY <2>2, <3>2
    <3> QED
      BY <3>1, <3>2, <3>3
  <2> QED
    BY <2>2, <2>3, <2>4, <2>5
<1>8. Live = cmds
  BY <1>1 DEF Live
<1>9. cmds' \in Seq(Commands)
  BY <1>1, <1>4, HeadTailProperties
<1>10. ASSUME NEW x \in Commands, Live = <<x>> PROVE c = x /\ Live' = <<>>
  <2>1. Head(<<x>>) = x /\ Tail(<<x>>) = <<>>
    BY Ones
  <2>2. c = x /\ cmds' = <<>>
    BY <1>2, <1>4, <1>8, <1>10, <2>1
  <2> QED
    BY <2>2 DEF Live
<1>11. ASSUME NEW x \in Commands, NEW y \in Commands, Live = <<x, y>>
       PROVE  c = x /\ (x.verb # "QUIT" => up' /\ Live' = <<y>>)
  <2>1. Head(<<x, y>>) = x /\ Tail(<<x, y>>) = <<y>>
    BY Twos
  <2>2. c = x /\ cmds' = <<y>>
    BY <1>2, <1>4, <1>8, <1>11, <2>1
  <2> QED
    BY <1>4, <2>2 DEF Live
<1>12. \E j \in 1 .. Len(Live) : c = Live[j]
  <2>1. Len(cmds) \in Nat \ {0} /\ Head(cmds) = cmds[1]
    BY <1>1, EmptySeq
  <2> QED
    BY <1>2, <1>8, <2>1
<1>13. ASSUME NEW i \in 1 .. Len(Live') PROVE \E j \in 1 .. Len(Live) : Live'[i] = Live[j]
  <2>1. Live' = cmds' \/ Live' = <<>>
    BY DEF Live
  <2>2. CASE Live' = <<>>
    BY <2>2, EmptySeq
  <2>3. CASE Live' = cmds'
    <3>1. /\ Len(cmds') = Len(cmds) - 1 /\ Len(cmds) \in Nat
          /\ \A k \in 1 .. Len(cmds') : cmds'[k] = cmds[k + 1]
      BY <1>1, <1>4, HeadTailProperties
    <3>2. i \in 1 .. Len(cmds')
      BY <2>3
    <3>3. i + 1 \in 1 .. Len(cmds) /\ cmds'[i] = cmds[i + 1]
      BY <3>1, <3>2
    <3> QED
      BY <1>8, <2>3, <3>3
  <2> QED
    BY <2>1, <2>2, <2>3
<1> QED
  BY <1>1, <1>3, <1>4, <1>5, <1>6, <1>7, <1>8, <1>9, <1>10, <1>11, <1>12, <1>13 DEF Answering

\* The server takes a message whole, and the client will know if it still listens.
Promised(c, a) ==
  \/ a.took = {}
  \/ /\ a.took = {[m |-> c.m, whole |-> TRUE]} /\ c.m # 0
     /\ \/ lost
        \/ /\ c.m = calls /\ pc \in {"dot", "last"} /\ reps = <<>> /\ a.reply.code = "250"
           /\ pc = "last" => ~bulk.error

LEMMA InStepAnswered ==
  ASSUME IInv, NEW c, NEW a, Answering(c, a), conn = "open", good, InStep
  PROVE  InStep' /\ Promised(c, a)
<1>1. /\ c \in Commands /\ a \in Answers(server, c) /\ up /\ Live # <<>>
      /\ server' = a.s /\ stored' = stored \cup a.took /\ a.reply \in Coded(Codes)
      /\ UNCHANGED <<pc, mxs, conn, ehlo_ok, ehlo_params, good, bulk, calls, sent, lost>>
      /\ reps = <<>> => reps' = <<a.reply>>
      /\ \A x \in Commands : Live = <<x>> => c = x /\ Live' = <<>>
  BY DEF Answering
<1>2. reps = <<>> /\ Asking /\ Before
  BY <1>1 DEF InStep
<1>3. pc \notin Unasked /\ pc \in DOMAIN VerbOf /\ \E x \in Commands : Asked(x) /\ Live = <<x>>
  BY <1>1, <1>2 DEF Asking
<1>4. Asked(c) /\ Live' = <<>> /\ reps' = <<a.reply>>
  BY <1>1, <1>2, <1>3
<1>5. c.verb = VerbOf[pc] /\ (c.verb \in {"dot", "LAST"} => c.m = calls)
      /\ (c.verb = "LAST" => c.n = bulk.n)
  BY <1>4 DEF Asked
<1>6. calls # 0 /\ server \in Peer /\ Sane(server)
  BY DEF IInv, Placed, Typed, TypeOK
<1>7. a.reply.code \in Codes
  BY <1>1 DEF Coded
<1> SUFFICES After(a.reply)' /\ Promised(c, a)
  BY <1>1, <1>3, <1>4, VerbsAre DEF InStep, Coded, Codes
<1>8. pc \in {"ehlo", "ehlo_tls", "helo", "starttls", "mail", "rcpt", "data", "dot", "bdat", "last",
              "rset", "quit"}
  BY <1>3, VerbsAre DEF Waits
<1>9. CASE pc \in {"ehlo", "ehlo_tls", "helo", "starttls"}
  <2>1. c.verb \in {"EHLO", "HELO", "STARTTLS"}
    BY <1>5, <1>9, VerbsAre
  <2>2. ~server.mail
    BY <1>2, <1>9 DEF Before, Greeted
  <2>3. ~a.s.mail /\ a.took = {}
    BY <1>1, <1>6, <2>1, <2>2, HelloStep
  <2> QED
    BY <1>1, <1>9, <2>3 DEF After, Promised, Greeted
<1>10. CASE pc = "mail"
  <2>1. c.verb = "MAIL"
    BY <1>5, <1>10, VerbsAre
  <2>2. ~server.mail
    BY <1>2, <1>10 DEF Before, Greeted
  <2>3. server.chunks = 0
    BY <1>6, <2>2 DEF Sane, Peer
  <2>4. a.s.chunks = 0 /\ a.took = {}
    BY <1>1, <1>6, <2>1, <2>3, MailStep
  <2> QED
    BY <1>1, <1>10, <2>4 DEF After, Promised, Greeted
<1>11. CASE pc \in {"rcpt", "data"}
  <2>1. c.verb \in {"RCPT", "DATA"}
    BY <1>5, <1>11, VerbsAre
  <2>2. server.chunks = 0
    BY <1>2, <1>11 DEF Before
  <2>4. a.s.chunks = 0 /\ a.took = {}
    BY <1>1, <1>6, <2>1, <2>2, RcptStep, DataStep
  <2> QED
    BY <1>1, <1>11, <2>4 DEF After, Promised, Greeted
<1>12. CASE pc = "dot"
  <2>1. c.verb = "dot"
    BY <1>5, <1>12, VerbsAre
  <2>2. /\ a.s.chunks = 0
        /\ \/ a.took = {[m |-> c.m, whole |-> TRUE]} /\ a.reply.code = "250"
           \/ a.took = {} /\ a.reply.code \in Refusals
    BY <1>1, <1>6, <2>1, DotStep
  <2>3. Refusals \cap Positive = {}
    BY DEF Refusals, Positive
  <2>4. Promised(c, a)
    BY <1>2, <1>5, <1>6, <1>12, <2>1, <2>2 DEF Promised
  <2>5. a.reply.code \in Positive => [m |-> calls, whole |-> TRUE] \in stored'
    BY <1>1, <1>5, <2>1, <2>2, <2>3
  <2>6. After(a.reply)'
    BY <1>1, <1>12, <2>2, <2>5 DEF After, Greeted
  <2> QED
    BY <2>4, <2>6
<1>13. CASE pc = "bdat"
  <2>1. c.verb = "BDAT"
    BY <1>5, <1>13, VerbsAre
  <2>2. /\ a.took = {}
        /\ a.reply.code = "250" => a.s.chunks = server.chunks + 1 /\ server.rcpt
        /\ a.reply.code # "250" => ~a.s.rcpt
    BY <1>1, <1>6, <2>1, BdatStep
  <2>3. ~bulk.error /\ (server.rcpt => server.chunks + bulk.left + 1 = bulk.n)
    BY <1>2, <1>13 DEF Before
  <2>4. server.chunks \in Nat /\ bulk.left \in Nat
    BY DEF IInv, Typed, TypeOK, Peer
  <2>5. a.reply.code = "250" => a.s.chunks + bulk.left = bulk.n
    BY <2>2, <2>3, <2>4
  <2>6. After(a.reply)'
    BY <1>1, <1>13, <2>2, <2>3, <2>5 DEF After, Greeted
  <2> QED
    BY <2>2, <2>6 DEF Promised
<1>14. CASE pc = "last"
  <2>1. c.verb = "LAST"
    BY <1>5, <1>14, VerbsAre
  <2>2. /\ a.s.chunks = 0
        /\ \/ /\ a.took = {[m |-> c.m, whole |-> server.chunks = c.n]}
              /\ a.reply.code = "250" /\ server.rcpt
           \/ a.took = {} /\ a.reply.code \in Refusals
    BY <1>1, <1>6, <2>1, LastStep
  <2>3. server.rcpt => server.chunks = bulk.n /\ ~bulk.error
    BY <1>2, <1>14 DEF Before
  <2>4. Refusals \cap Positive = {}
    BY DEF Refusals, Positive
  <2>5. CASE a.took = {} /\ a.reply.code \in Refusals
    BY <1>1, <1>14, <2>2, <2>4, <2>5 DEF Promised, After, Greeted
  <2>6. CASE /\ a.took = {[m |-> c.m, whole |-> server.chunks = c.n]}
             /\ a.reply.code = "250" /\ server.rcpt
    <3>1. a.took = {[m |-> c.m, whole |-> TRUE]} /\ ~bulk.error
      <4>1. (server.chunks = c.n) = TRUE /\ ~bulk.error
        BY <1>5, <2>1, <2>3, <2>6
      <4> QED
        BY <2>6, <4>1
    <3>2. Promised(c, a)
      BY <1>2, <1>5, <1>6, <1>14, <2>1, <2>6, <3>1 DEF Promised
    <3>3. [m |-> calls, whole |-> TRUE] \in stored'
      BY <1>1, <1>5, <2>1, <3>1
    <3>4. After(a.reply)'
      BY <1>1, <1>14, <2>2, <3>3 DEF After, Greeted
    <3> QED
      BY <3>2, <3>4
  <2> QED
    BY <2>2, <2>5, <2>6
<1>15. CASE pc = "rset"
  <2>1. c.verb = "RSET"
    BY <1>5, <1>15, VerbsAre
  <2>2. a.s.chunks = 0 /\ a.took = {}
    BY <1>1, <1>6, <2>1, RsetStep
  <2> QED
    BY <1>1, <1>15, <2>2 DEF After, Promised, Greeted
<1>16. CASE pc = "quit"
  <2>1. c.verb = "QUIT"
    BY <1>5, <1>16, VerbsAre
  <2>2. a.took = {}
    BY <1>1, <1>6, <2>1, QuitStep
  <2> QED
    BY <1>1, <1>16, <2>2 DEF After, Promised, Greeted
<1> QED
  BY <1>8, <1>9, <1>10, <1>11, <1>12, <1>13, <1>14, <1>15, <1>16

LEMMA PipelinedAnswered ==
  ASSUME IInv, NEW c, NEW a, Answering(c, a), Pipelined
  PROVE  Pipelined' /\ Promised(c, a)
<1>1. /\ c \in Commands /\ a \in Answers(server, c) /\ up /\ Live # <<>>
      /\ server' = a.s /\ a.reply \in Coded(Codes)
      /\ UNCHANGED <<pc, mxs, conn, ehlo_ok, ehlo_params, good, bulk, calls, sent, lost>>
      /\ reps = <<>> => reps' = <<a.reply>>
      /\ \A r \in Coded(Codes) : reps = <<r>> => reps' = <<r, a.reply>>
      /\ \A x \in Commands : Live = <<x>> => c = x /\ Live' = <<>>
      /\ \A x, y \in Commands :
           Live = <<x, y>> => c = x /\ (x.verb # "QUIT" => up' /\ Live' = <<y>>)
  BY DEF Answering
<1>2. /\ Plain("MAIL") \in Commands /\ Plain("MAIL").verb = "MAIL"
      /\ Plain("RCPT") \in Commands /\ Plain("RCPT").verb = "RCPT"
  BY PlainParts DEF Verbs
<1>3. server \in Peer /\ Sane(server) /\ pc = "mail_pipelined"
  BY DEF IInv, Typed, TypeOK, Pipelined
<1>4. \A codes : Coded(codes)' = Coded(codes)
  BY DEF Coded
<1>5. Positive \cap Refusals = {} /\ Positive' = Positive
  BY DEF Positive, Refusals
<1>6. CASE /\ reps = <<>> /\ (up => Live = <<Plain("MAIL"), Plain("RCPT")>> /\ ~server.mail)
  <2>1. /\ c.verb = "MAIL" /\ Live' = <<Plain("RCPT")>> /\ reps' = <<a.reply>> /\ ~server.mail
    BY <1>1, <1>2, <1>6
  <2>2. server.chunks = 0
    BY <1>3, <2>1 DEF Sane, Peer
  <2>3. a.s.chunks = 0 /\ a.took = {} /\ (a.reply.code \notin Positive => ~a.s.mail)
    BY <1>1, <1>3, <2>1, <2>2, MailStep
  <2> QED
    BY <1>1, <1>3, <1>4, <2>1, <2>3 DEF Pipelined, Promised, Positive, Coded, Codes
<1>7. CASE \E r \in Coded(Codes) :
             /\ reps = <<r>> /\ (up => Live = <<Plain("RCPT")>>)
             /\ r.code \notin Positive => ~server.mail
             /\ server.chunks = 0
  <2>1. PICK r \in Coded(Codes) :
             /\ reps = <<r>> /\ (up => Live = <<Plain("RCPT")>>)
             /\ r.code \notin Positive => ~server.mail
             /\ server.chunks = 0
    BY <1>7
  <2>2. /\ c.verb = "RCPT" /\ Live' = <<>> /\ reps' = <<r, a.reply>>
    BY <1>1, <1>2, <2>1
  <2>3. /\ a.s.chunks = 0 /\ a.s.mail = server.mail /\ a.took = {}
        /\ a.reply.code \in {"250"} \cup Refusals
    BY <1>1, <1>3, <2>1, <2>2, RcptStep
  <2>4. a.reply \in Coded({"250"} \cup Refusals)
    BY <1>1, <2>3 DEF Coded
  <2> QED
    BY <1>1, <1>3, <2>1, <2>2, <2>3, <2>4 DEF Pipelined, Promised, Positive, Coded, Codes, Refusals
<1>8. CASE \E r \in Coded(Codes), q \in Coded({"250"} \cup Refusals) :
             /\ reps = <<r, q>> /\ Live = <<>>
             /\ r.code \notin Positive => ~server.mail
             /\ server.chunks = 0
  BY <1>1, <1>8
<1> QED
  BY <1>6, <1>7, <1>8 DEF Pipelined

\* What the server says to someone without a transaction.
LEMMA NobodysAnswer ==
  ASSUME NEW s \in Peer, Sane(s), ~s.mail, NEW c \in Commands, NEW a \in Answers(s, c),
         c.verb \in {"RCPT", "RSET", "DATA", "BDAT", "LAST", "QUIT"}
  PROVE  /\ a.reply \in Coded(Codes) /\ a.took = {} /\ ~a.s.mail
         /\ c.verb = "RSET" => a.reply.code = "250"
         /\ c.verb = "QUIT" => a.reply.code = "221"
         /\ c.verb \notin {"RSET", "QUIT"} => a.reply.code \in Refusals
<1>1. a.reply \in Coded(Codes) /\ a.took = {} /\ ~a.s.mail
  BY AnyStep
<1>2. c.verb = "RSET" => a.reply.code = "250"
  BY RsetStep
<1>3. c.verb = "QUIT" => a.reply.code = "221"
  BY QuitStep
<1>4. c.verb = "RCPT" => a.reply.code \in Refusals
  BY RcptStep
<1>5. c.verb = "DATA" => a.reply.code \in Refusals
  BY DataStep
<1>6. c.verb = "BDAT" => a.reply.code \in Refusals
  BY BdatStep
<1>7. c.verb = "LAST" => a.reply.code \in Refusals
  BY LastStep
<1> QED
  BY <1>1, <1>2, <1>3, <1>4, <1>5, <1>6, <1>7

LEMMA StaleAnswered ==
  ASSUME IInv, NEW c, NEW a, Answering(c, a), Stale
  PROVE  Stale' /\ Promised(c, a)
<1>1. /\ c \in Commands /\ a \in Answers(server, c) /\ up /\ Live # <<>>
      /\ server' = a.s /\ a.reply \in Coded(Codes)
      /\ UNCHANGED <<pc, mxs, conn, ehlo_ok, ehlo_params, good, bulk, calls, sent, lost>>
      /\ reps = <<>> => reps' = <<a.reply>>
      /\ \A r \in Coded(Codes) : reps = <<r>> => reps' = <<r, a.reply>>
      /\ \A x \in Commands : Live = <<x>> => c = x /\ Live' = <<>>
      /\ \A x, y \in Commands :
           Live = <<x, y>> => c = x /\ (x.verb # "QUIT" => up' /\ Live' = <<y>>)
  BY DEF Answering
<1>2. server \in Peer /\ Sane(server)
  BY DEF IInv, Typed, TypeOK
<1>3. pc \in {"idle", "data", "bdat", "last", "rset", "quit"} /\ ~server.mail
  BY DEF Stale
<1>4. \A codes : Coded(codes)' = Coded(codes)
  BY DEF Coded
<1>5. StaleCodes' = StaleCodes /\ OwnCodes' = OwnCodes
  BY <1>1 DEF StaleCodes, OwnCodes
<1>6. Coded(StaleCodes)' = Coded(StaleCodes) /\ Coded(OwnCodes)' = Coded(OwnCodes)
  BY <1>5 DEF Coded
<1>7. ASSUME NEW x, Asked(x) PROVE Asked(x)'
  BY <1>1, <1>7, VerbsAre DEF Asked, Commands
<1>8. StaleCodes \subseteq Codes
  BY DEF StaleCodes, Codes, Refusals
<1>9. CASE \E y \in Commands :
             /\ y.verb \in StaleVerbs /\ reps = <<>>
             /\ IF pc = "idle" THEN Live = <<y>>
                               ELSE \E x \in Commands : Asked(x) /\ Live = <<y, x>>
  <2>1. PICK y \in Commands :
             /\ y.verb \in StaleVerbs /\ reps = <<>>
             /\ IF pc = "idle" THEN Live = <<y>>
                               ELSE \E x \in Commands : Asked(x) /\ Live = <<y, x>>
    BY <1>9
  <2>2. y.verb \in {"RCPT", "RSET", "DATA", "BDAT", "LAST"} /\ (pc = "last" => y.verb = "BDAT")
    BY <2>1 DEF StaleVerbs
  <2>3. c = y /\ (up' => Asking')
    <3>1. CASE pc = "idle"
      BY <1>1, <2>1, <3>1 DEF Asking, Unasked
    <3>2. CASE pc # "idle"
      <4>1. PICK x \in Commands : Asked(x) /\ Live = <<y, x>>
        BY <2>1, <3>2
      <4>2. c = y /\ Live' = <<x>> /\ Asked(x)'
        BY <1>1, <1>7, <2>2, <4>1
      <4>3. pc \in DOMAIN VerbOf /\ pc \notin Unasked
        BY <1>3, <3>2, VerbsAre DEF Waits, Unasked
      <4> QED
        BY <1>1, <4>2, <4>3, VerbsAre DEF Asking, Unasked, Commands
    <3> QED
      BY <3>1, <3>2
  <2>4. /\ a.took = {} /\ ~a.s.mail /\ a.reply.code \in {"250"} \cup Refusals
        /\ y.verb # "RSET" => a.reply.code \in Refusals
    BY <1>1, <1>2, <1>3, <2>2, <2>3, NobodysAnswer
  <2>5. a.reply \in Coded(StaleCodes)
    BY <1>1, <2>2, <2>4 DEF StaleCodes, Coded
  <2>6. reps' = <<a.reply>>
    BY <1>1, <2>1
  <2> QED
    BY <1>1, <1>3, <1>6, <2>3, <2>4, <2>5, <2>6 DEF Stale, Promised
<1>10. CASE \E r \in Coded(StaleCodes) : reps = <<r>> /\ (up => Asking)
  <2>1. PICK r \in Coded(StaleCodes) : reps = <<r>> /\ (up => Asking)
    BY <1>10
  <2>2. r \in Coded(Codes)
    BY <1>8 DEF Coded
  <2>3. pc # "idle" /\ pc \in DOMAIN VerbOf /\ Asked(c) /\ Live' = <<>>
    BY <1>1, <2>1 DEF Asking, Unasked
  <2>4. c.verb = VerbOf[pc]
    BY <2>3 DEF Asked
  <2>5. c.verb \in {"DATA", "BDAT", "LAST", "RSET", "QUIT"}
    BY <1>3, <2>3, <2>4, VerbsAre
  <2>6. (pc = "rset" <=> c.verb = "RSET") /\ (pc = "quit" <=> c.verb = "QUIT")
    BY <1>3, <2>3, <2>4, VerbsAre
  <2>7. /\ a.took = {} /\ ~a.s.mail
        /\ c.verb = "RSET" => a.reply.code = "250"
        /\ c.verb = "QUIT" => a.reply.code = "221"
        /\ c.verb \notin {"RSET", "QUIT"} => a.reply.code \in Refusals
    BY <1>1, <1>2, <1>3, <2>5, NobodysAnswer
  <2>8. a.reply \in Coded(OwnCodes)
    BY <1>1, <2>6, <2>7 DEF OwnCodes, Coded
  <2>9. reps' = <<r, a.reply>>
    BY <1>1, <2>1, <2>2
  <2> QED
    BY <1>1, <1>3, <1>6, <2>3, <2>7, <2>8, <2>9 DEF Stale, Promised
<1>11. CASE \E r \in Coded(StaleCodes), q \in Coded(OwnCodes) :
              pc # "idle" /\ reps = <<r, q>> /\ Live = <<>>
  BY <1>1, <1>11
<1> QED
  BY <1>9, <1>10, <1>11 DEF Stale

LEMMA AdriftAnswered ==
  ASSUME IInv, NEW c, NEW a, Answering(c, a), ~(conn = "open" /\ good)
  PROVE  Adrift' /\ Promised(c, a)
<1>1. /\ c \in Commands /\ a \in Answers(server, c) /\ up /\ Live # <<>>
      /\ server' = a.s /\ up' \in BOOLEAN
      /\ UNCHANGED <<pc, mxs, conn, ehlo_ok, ehlo_params, good, bulk, calls, sent, lost>>
      /\ \A x \in Commands : Live = <<x>> => c = x /\ Live' = <<>>
  BY DEF Answering
<1>2. /\ server \in Peer /\ Sane(server) /\ (~good => lost)
  BY DEF IInv, Typed, TypeOK, Placed
<1>3. Adrift
  BY DEF IInv, Link
<1>4. conn # "none"
  BY <1>1, <1>3 DEF Adrift
<1>5. CASE good
  <2>1. c.verb = "QUIT" /\ Live' = <<>>
    BY <1>1, <1>3, <1>5 DEF Adrift
  <2>2. a.took = {}
    BY <1>1, <1>2, <2>1, QuitStep
  <2> QED
    BY <1>1, <1>4, <1>5, <2>1, <2>2 DEF Adrift, Promised
<1>6. CASE ~good
  <2>1. Harmless /\ lost
    BY <1>2, <1>3, <1>6 DEF Adrift
  <2> SUFFICES Harmless' /\ Promised(c, a)
    BY <1>1, <1>4, <1>6 DEF Adrift
  <2>2. CASE \E x \in Commands :
               /\ Live = <<x>> /\ x.m # 0
               /\ x.verb = "LAST" /\ server.rcpt => server.chunks = x.n
    <3>1. Live' = <<>> /\ c.m # 0 /\ (c.verb = "LAST" /\ server.rcpt => server.chunks = c.n)
      BY <1>1, <2>2
    <3>2. Harmless'
      <4>1. \A i \in 1 .. Len(Live') : Live'[i].verb \notin {"dot", "LAST"}
        BY <3>1, EmptySeq
      <4> QED
        BY <4>1 DEF Harmless
    <3>3. a.took = {} \/ a.took = {[m |-> c.m, whole |-> TRUE]}
      <4>1. CASE c.verb \notin {"dot", "LAST"}
        BY <1>1, <1>2, <4>1, AnyStep
      <4>2. CASE c.verb = "dot"
        BY <1>1, <1>2, <4>2, DotStep
      <4>3. CASE c.verb = "LAST"
        <5>1. \/ a.took = {[m |-> c.m, whole |-> server.chunks = c.n]} /\ server.rcpt
              \/ a.took = {}
          BY <1>1, <1>2, <4>3, LastStep
        <5>2. server.rcpt => (server.chunks = c.n) = TRUE
          BY <3>1, <4>3
        <5> QED
          BY <5>1, <5>2
      <4> QED
        BY <4>1, <4>2, <4>3
    <3> QED
      BY <2>1, <3>1, <3>2, <3>3 DEF Promised
  <2>3. CASE ~server.mail /\ \A i \in 1 .. Len(Live) : Live[i].verb # "MAIL"
    <3>1. c.verb # "MAIL" /\ \A i \in 1 .. Len(Live') : Live'[i].verb # "MAIL"
      BY <2>3 DEF Answering
    <3>2. a.took = {} /\ ~a.s.mail
      BY <1>1, <1>2, <2>3, <3>1, AnyStep
    <3> QED
      BY <1>1, <3>1, <3>2 DEF Harmless, Promised
  <2>4. CASE \A i \in 1 .. Len(Live) : Live[i].verb \notin {"dot", "LAST"}
    <3>1. /\ c.verb \notin {"dot", "LAST"}
          /\ \A i \in 1 .. Len(Live') : Live'[i].verb \notin {"dot", "LAST"}
      BY <2>4 DEF Answering
    <3>2. a.took = {}
      BY <1>1, <1>2, <3>1, AnyStep
    <3> QED
      BY <3>1, <3>2 DEF Harmless, Promised
  <2> QED
    BY <2>1, <2>2, <2>3, <2>4 DEF Harmless
<1> QED
  BY <1>5, <1>6

LEMMA ServerStepKeeps == IInv /\ ServerStep => IInv'
<1> SUFFICES ASSUME IInv, ServerStep PROVE IInv'
  OBVIOUS
<1>1. PICK c, a : Answering(c, a)
  BY ServerAnswers
<1>2. Link' /\ Promised(c, a)
  <2>1. UNCHANGED <<conn, good>>
    BY <1>1 DEF Answering
  <2>2. CASE conn = "open" /\ good
    <3>1. CASE InStep
      BY <1>1, <2>1, <2>2, <3>1, InStepAnswered DEF Link
    <3>2. CASE Pipelined
      BY <1>1, <2>1, <2>2, <3>2, PipelinedAnswered DEF Link
    <3>3. CASE Stale
      BY <1>1, <2>1, <2>2, <3>3, StaleAnswered DEF Link
    <3> QED
      BY <2>2, <3>1, <3>2, <3>3 DEF IInv, Link
  <2>3. CASE ~(conn = "open" /\ good)
    BY <1>1, <2>1, <2>3, AdriftAnswered DEF Link
  <2> QED
    BY <2>2, <2>3
<1>3. /\ c \in Commands /\ server' = a.s /\ stored' = stored \cup a.took
      /\ reps # <<>> => reps' # <<>> /\ Head(reps') = Head(reps)
      /\ reps = <<>> => reps' = <<a.reply>>
      /\ UNCHANGED <<pc, mxs, conn, ehlo_ok, ehlo_params, good, bulk, calls, sent, lost>>
      /\ cmds' \in Seq(Commands) /\ reps' \in Seq(Coded(Codes)) /\ up' \in BOOLEAN
      /\ a.reply \in Coded(Codes) /\ a.s \in Peer /\ Sane(a.s)
  BY <1>1 DEF Answering
<1>4. stored' \subseteq [m : 1 .. MaxCalls, whole : BOOLEAN]
  <2>1. stored \subseteq [m : 1 .. MaxCalls, whole : BOOLEAN]
    BY DEF IInv, Typed, TypeOK
  <2>2. c.m \in 0 .. MaxCalls
    BY <1>3 DEF Commands
  <2>3. c.m # 0 => [m |-> c.m, whole |-> TRUE] \in [m : 1 .. MaxCalls, whole : BOOLEAN]
    BY <2>2, BoundAssumption
  <2> QED
    BY <1>2, <1>3, <2>1, <2>3 DEF Promised
<1>5. Typed'
  <2>1. reps' \in Seq(Replies)
    BY <1>3, RepliesType, SeqMonotonic
  <2>2. TypeOK'
    BY <1>3, <1>4, <2>1 DEF IInv, Typed, TypeOK
  <2>3. Sane(server)'
    BY <1>3 DEF Sane
  <2>4. (reps \in Seq(Coded(Codes)))'
    BY <1>3 DEF Coded, Codes
  <2> QED
    BY <2>2, <2>3, <2>4 DEF Typed
<1>6. Placed'
  BY <1>3 DEF IInv, Placed
<1>7. SentIsStored'
  BY <1>3 DEF IInv, SentIsStored
<1>8. NeverCutOff'
  BY <1>2, <1>3 DEF IInv, NeverCutOff, Promised
<1>9. Took'
  <2> SUFFICES ASSUME ~lost, NEW s \in stored'
               PROVE  \/ s.m \in sent
                      \/ /\ s.m = calls /\ pc \in {"dot", "last"}
                         /\ reps' # <<>> /\ Head(reps').code = "250"
                         /\ pc = "last" => ~bulk.error
    BY <1>3 DEF Took
  <2>1. CASE s \in stored
    <3>1. \/ s.m \in sent
          \/ /\ s.m = calls /\ pc \in {"dot", "last"}
             /\ reps # <<>> /\ Head(reps).code = "250"
             /\ pc = "last" => ~bulk.error
      BY <2>1 DEF IInv, Took
    <3> QED
      BY <1>3, <3>1
  <2>2. CASE s \notin stored
    <3>1. /\ s = [m |-> c.m, whole |-> TRUE] /\ c.m = calls /\ pc \in {"dot", "last"}
          /\ reps = <<>> /\ a.reply.code = "250" /\ (pc = "last" => ~bulk.error)
      BY <1>2, <1>3, <2>2 DEF Promised
    <3>2. reps' = <<a.reply>>
      BY <1>3, <3>1
    <3>3. reps' # <<>> /\ Head(reps') = a.reply
      BY <1>3, <3>2, Ones
    <3> QED
      BY <3>1, <3>3
  <2> QED
    BY <2>1, <2>2
<1> QED
  BY <1>2, <1>5, <1>6, <1>7, <1>8, <1>9 DEF IInv
-----------------------------------------------------------------------------
(***************************************************************************)
(* The client goes on.                                                     *)
(***************************************************************************)
\* On the same connection, in the same call or at its end.
LEMMA GoesOn ==
  ASSUME IInv, Link', conn # "none", good => conn = "open",
         UNCHANGED <<mxs, conn, server, up, sent, stored, calls>>,
         good' = good \/ good' = FALSE, lost' = lost \/ lost' = TRUE, ~good' => lost',
         ehlo_ok' \in BOOLEAN, ehlo_params' \subseteq Extensions,
         bulk' \in [n : 0 .. MaxChunks, left : 0 .. MaxChunks, error : BOOLEAN],
         cmds' \in Seq(Commands), reps' \in Seq(Coded(Codes)),
         pc' \in Waits \cup {"idle", "handshake", "aborted"},
         pc \notin {"dot", "last"} \/ lost' = TRUE
  PROVE  IInv'
<1>1. TypeOK
  BY DEF IInv, Typed
<1>2. SentIsStored' /\ Took' /\ NeverCutOff'
  BY RestKept
<1>3. Typed'
  BY <1>1, TypedKept DEF TypeOK
<1>4. Placed'
  <2>1. "connect" \notin Waits
    BY DEF Waits
  <2> QED
    BY <2>1 DEF IInv, Placed
<1> QED
  BY <1>2, <1>3, <1>4 DEF IInv

\* A read fails and the call goes on or returns.
LEMMA FailsOn ==
  ASSUME IInv, pc \in Waits, ReadFails(pc),
         UNCHANGED <<mxs, session, calls, sent, stored, cmds>>,
         bulk' \in [n : 0 .. MaxChunks, left : 0 .. MaxChunks, error : BOOLEAN],
         pc' \in Waits \cup {"idle", "handshake", "aborted"}
  PROVE  IInv'
<1>1. /\ Harmless /\ conn # "none" /\ ~good' /\ lost' = TRUE
      /\ UNCHANGED <<reps, up, server>>
  BY FailsHarmless
<1>2. Live' = Live /\ UNCHANGED <<conn, ehlo_ok, ehlo_params>>
  BY <1>1 DEF Live, session
<1>3. Link'
  BY <1>1, <1>2, Drifts
<1>4. (good => conn = "open") /\ good' = FALSE
  BY DEF IInv, Placed, ReadFails
<1>5. /\ ehlo_ok' \in BOOLEAN /\ ehlo_params' \subseteq Extensions /\ cmds' \in Seq(Commands)
      /\ reps' \in Seq(Coded(Codes))
  BY <1>1, <1>2 DEF IInv, Typed, TypeOK
<1> QED
  BY <1>1, <1>2, <1>3, <1>4, <1>5, GoesOn

\* The connection is given up for the next mail exchanger.
LEMMA NextMxKeeps ==
  ASSUME IInv, NextMx, UNCHANGED server, reps' \in Seq(Coded(Codes)), conn # "none",
         good' \in BOOLEAN, up' \in BOOLEAN,
         lost' = lost \/ lost' = TRUE, ~good' => lost', pc \notin {"dot", "last"}
  PROVE  IInv'
<1>1. TypeOK
  BY DEF IInv, Typed
<1>2. /\ pc' = "connect" /\ conn' = "none" /\ cmds' = <<>>
      /\ UNCHANGED <<mxs, ehlo_ok, ehlo_params, bulk, calls, sent, stored>>
  BY DEF NextMx, history
<1>3. SentIsStored' /\ Took' /\ NeverCutOff'
  BY <1>2, RestKept
<1>4. Typed'
  <2>1. cmds' \in Seq(Commands)
    BY <1>2
  <2> QED
    BY <1>1, <1>2, <2>1, TypedKept DEF TypeOK
<1>5. Placed'
  BY <1>2 DEF IInv, Placed, Waits
<1>6. Link'
  <2>1. Live' = <<>>
    BY <1>2 DEF Live
  <2>2. Harmless'
    <3>1. \A i \in 1 .. Len(Live') : Live'[i].verb \notin {"dot", "LAST"}
      BY <2>1, EmptySeq
    <3> QED
      BY <3>1 DEF Harmless
  <2> QED
    BY <1>2, <2>1, <2>2 DEF Link, Adrift
<1> QED
  BY <1>3, <1>4, <1>5, <1>6 DEF IInv

LEMMA FailsNext ==
  ASSUME IInv, pc \in Waits, ReadFails(pc), NextMx, pc \notin {"dot", "last"}
  PROVE  IInv'
<1>1. /\ conn # "none" /\ good' = FALSE /\ lost' = TRUE /\ UNCHANGED <<reps, up, server>>
  BY FailsHarmless DEF ReadFails
<1>2. reps' \in Seq(Coded(Codes)) /\ up' \in BOOLEAN
  BY <1>1 DEF IInv, Typed, TypeOK
<1> QED
  BY <1>1, <1>2, NextMxKeeps

LEMMA ReadNext ==
  ASSUME IInv, pc \in Waits, NEW r, Reads(pc, r), NextMx, UNCHANGED lost,
         pc \notin {"dot", "last"}
  PROVE  IInv'
<1>1. /\ conn = "open" /\ good /\ UNCHANGED <<good, up, server>> /\ reps' \in Seq(Coded(Codes))
  BY ReadCases
<1>2. good' \in BOOLEAN /\ up' \in BOOLEAN /\ (~good' => lost')
  BY <1>1 DEF IInv, Typed, TypeOK
<1> QED
  BY <1>1, <1>2, NextMxKeeps

\* A reply is read and the same call goes on or returns.
LEMMA ReadsOn ==
  ASSUME IInv, pc \in Waits, NEW r, Reads(pc, r), Link', pc \notin {"dot", "last"},
         UNCHANGED <<mxs, conn, calls, sent, stored, lost>>,
         ehlo_ok' \in BOOLEAN, ehlo_params' \subseteq Extensions,
         bulk' \in [n : 0 .. MaxChunks, left : 0 .. MaxChunks, error : BOOLEAN],
         cmds' \in Seq(Commands),
         pc' \in Waits \cup {"idle", "handshake", "aborted"}
  PROVE  IInv'
<1>1. /\ conn = "open" /\ good /\ UNCHANGED <<good, up, server>> /\ reps' \in Seq(Coded(Codes))
  BY ReadCases
<1> QED
  BY <1>1, GoesOn

\* A call returns, or the program ends, after the last reply to what it wrote.
LEMMA ReturnsInStep ==
  ASSUME IInv, NEW r, Own(r), pc \notin {"ehlo", "greeting", "bdat"}, good', conn' = "open",
         UNCHANGED <<cmds, up, server>>, pc' = "idle",
         pc \in {"rcpt", "data", "mail", "rset", "dot", "last"}
  PROVE  Link'
<1>1. reps' = <<>> /\ Live' = <<>> /\ server.chunks = 0
  BY DEF Own, After, Live
<1>2. Before'
  BY <1>1 DEF Before, Greeted
<1> QED
  BY <1>1, <1>2, Arrives DEF Unasked

LEMMA ReturnsStale ==
  ASSUME IInv, NEW r, OfEarlier(r), good', conn' = "open",
         UNCHANGED <<cmds, up, server>>, pc' = "idle", pc \in {"data", "last", "rset"}
  PROVE  Link'
<1>1. ~server.mail /\ Live' = Live /\ server \in Peer /\ Sane(server)
  BY DEF OfEarlier, Live, IInv, Typed, TypeOK
<1>2. StaleCodes' = {"250"} \cup Refusals /\ StaleVerbs' = {"RCPT", "RSET", "DATA", "BDAT", "LAST"}
  BY DEF StaleCodes, StaleVerbs
<1>3. CASE reps' = <<>> /\ ~up
  BY <1>3, Arrives
<1>4. CASE reps' = <<>> /\ up
  <2>1. PICK y \in Commands : Asked(y) /\ Live = <<y>>
    BY <1>4 DEF OfEarlier
  <2>2. y.verb = VerbOf[pc]
    BY <2>1 DEF Asked
  <2>3. y.verb \in StaleVerbs'
    BY <1>2, <2>2, VerbsAre
  <2>4. Stale'
    BY <1>1, <1>4, <2>1, <2>3 DEF Stale, Commands
  <2> QED
    BY <2>4 DEF Link
<1>5. CASE \E q \in Coded(OwnCodes) : reps' = <<q>> /\ Live = <<>>
  <2>1. PICK q \in Coded(OwnCodes) : reps' = <<q>> /\ Live = <<>>
    BY <1>5
  <2>2. OwnCodes \subseteq {"250"} \cup Refusals
    BY DEF OwnCodes
  <2>3. q \in Coded(StaleCodes)'
    BY <1>2, <2>1, <2>2 DEF Coded
  <2>4. Asking'
    BY <1>1, <2>1 DEF Asking, Unasked
  <2>5. Stale'
    BY <1>1, <2>1, <2>3, <2>4 DEF Stale
  <2> QED
    BY <2>5 DEF Link
<1> QED
  BY <1>3, <1>4, <1>5 DEF OfEarlier
-----------------------------------------------------------------------------
(***************************************************************************)
(* Opening a session.                                                      *)
(***************************************************************************)
LEMMA ConnectFailsKeeps == IInv /\ (ConnectFails \/ RanOut) => IInv'
<1> SUFFICES ASSUME IInv, ConnectFails \/ RanOut PROVE IInv'
  OBVIOUS
<1>1. /\ pc = "connect" /\ pc' \in {"connect", "idle"} /\ mxs' \in 0 .. MaxMx
      /\ UNCHANGED <<conn, ehlo_ok, ehlo_params, good, bulk, cmds, reps, up, server, calls, sent,
                     stored, lost>>
  BY BoundAssumption
     DEF ConnectFails, RanOut, Return, Await, session, link, history, IInv, Typed, TypeOK
<1>2. Typed'
  <2>1. TypeOK /\ Typed
    BY DEF IInv, Typed
  <2> QED
    BY <1>1, <2>1, TypedKept DEF TypeOK, Typed
<1>3. Placed'
  BY <1>1 DEF IInv, Placed, Waits
<1>4. SentIsStored' /\ Took' /\ NeverCutOff'
  BY <1>1, RestKept
<1>5. Link'
  <2>1. conn = "none" /\ Adrift
    BY <1>1 DEF IInv, Placed, Link
  <2>2. Live' = Live
    BY <1>1 DEF Live
  <2> QED
    BY <1>1, <2>1, <2>2 DEF Link, Adrift, Harmless
<1> QED
  BY <1>2, <1>3, <1>4, <1>5 DEF IInv

LEMMA ConnectKeeps == IInv /\ Connect => IInv'
<1> SUFFICES ASSUME IInv, Connect PROVE IInv'
  OBVIOUS
<1>1. /\ pc = "connect" /\ mxs > 0 /\ mxs' = mxs - 1
      /\ conn' = "open" /\ good' = TRUE /\ ehlo_ok' = FALSE /\ ehlo_params' = {}
      /\ cmds' = <<>> /\ up' = TRUE /\ server' = Fresh
      /\ reps' \in {<<>>} \cup {<<greeting>> : greeting \in Greetings}
      /\ pc' = "greeting"
      /\ UNCHANGED <<bulk, calls, sent, stored, lost>>
  BY DEF Connect, history
<1>2. TypeOK /\ calls # 0
  BY <1>1 DEF IInv, Typed, Placed
<1>3. Fresh \in Peer /\ ~Fresh.mail /\ Sane(Fresh)
  BY DEF Fresh, Peer, Sane
<1>4. Greetings \subseteq Coded(Codes)
  <2> SUFFICES ASSUME NEW g \in Greetings PROVE g \in Coded(Codes)
    OBVIOUS
  <2>1. PICK code \in {"220"} \cup Refusals : g = Reply(code, {})
    BY DEF Greetings
  <2>2. code \in Codes
    BY <2>1 DEF Codes, Refusals
  <2> QED
    BY <2>1, <2>2, ReplyType
<1>5. reps' = <<>> \/ \E g \in Coded(Codes) : reps' = <<g>>
  BY <1>1, <1>4
<1>6. reps' \in Seq(Coded(Codes)) /\ reps' \in Seq(Replies)
  <2>1. <<>> \in Seq(Coded(Codes)) /\ \A g \in Coded(Codes) : <<g>> \in Seq(Coded(Codes))
    OBVIOUS
  <2>2. reps' \in Seq(Coded(Codes))
    BY <1>5, <2>1
  <2> QED
    BY <2>2, RepliesType, SeqMonotonic
<1>7. Typed'
  <2>1. TypeOK'
    <3>1. mxs' \in 0 .. MaxMx /\ cmds' \in Seq(Commands) /\ pc' \in Waits
      BY <1>1, <1>2, BoundAssumption DEF TypeOK, Waits
    <3> QED
      BY <1>1, <1>2, <1>3, <1>6, <3>1 DEF TypeOK
  <2>2. Sane(server)'
    <3>1. server' = Fresh /\ server'.mail = Fresh.mail /\ Sane(Fresh)
      BY <1>1, <1>3
    <3> QED
      BY <3>1 DEF Sane
  <2>3. (reps \in Seq(Coded(Codes)))'
    BY <1>6 DEF Coded, Codes
  <2> QED
    BY <2>1, <2>2, <2>3 DEF Typed
<1>8. Placed'
  BY <1>1, <1>2 DEF Placed, Waits, IInv
<1>9. SentIsStored' /\ Took' /\ NeverCutOff'
  BY <1>1, RestKept
<1>10. Link'
  <2>1. Live' = <<>> /\ ~server'.mail
    BY <1>1, <1>3 DEF Live
  <2>2. Before' /\ Asking'
    BY <1>1, <2>1 DEF Before, Greeted, Asking, Unasked
  <2>3. \A r : After(r)'
    BY <1>1, <2>1 DEF After, Greeted
  <2>4. InStep'
    <3>1. CASE reps' = <<>>
      BY <2>2, <3>1 DEF InStep
    <3>2. CASE \E g \in Coded(Codes) : reps' = <<g>>
      BY <1>1, <2>1, <2>3, <3>2 DEF InStep, Coded, Codes
    <3> QED
      BY <1>5, <3>1, <3>2
  <2> QED
    BY <1>1, <2>4 DEF Link
<1> QED
  BY <1>7, <1>8, <1>9, <1>10 DEF IInv

\* A reply that is read while the session is opened is the answer to what was asked.
LEMMA OpeningRead ==
  ASSUME IInv, pc \in {"greeting", "ehlo", "helo", "starttls", "ehlo_tls"}, NEW r, Reads(pc, r)
  PROVE  /\ reps' = <<>> /\ Live = <<>> /\ ~server.mail /\ server.chunks = 0
         /\ conn = "open" /\ good /\ UNCHANGED <<good, up, server>>
<1>1. /\ conn = "open" /\ good /\ UNCHANGED <<good, up, server>>
      /\ Own(r) \/ OfMail(r) \/ OfEarlier(r)
  BY ReadCases DEF Waits
<1>2. Own(r)
  BY <1>1 DEF OfMail, OfEarlier
<1>3. reps' = <<>> /\ Live = <<>> /\ ~server.mail
  BY <1>2 DEF Own, After, Greeted
<1>4. server \in Peer /\ Sane(server)
  BY DEF IInv, Typed, TypeOK
<1> QED
  BY <1>1, <1>3, <1>4 DEF Sane, Peer

\* One command of the opening is written and its answer waited for.
LEMMA AsksNext ==
  ASSUME IInv, conn = "open", good, conn' = "open", UNCHANGED <<good, up, server>>,
         reps' = <<>>, Live = <<>>, ~server.mail, NEW verb \in Verbs \ {"dot", "LAST"},
         Write(<<Plain(verb)>>),
         pc' \in {"ehlo", "helo", "starttls", "ehlo_tls", "mail"}, VerbOf[pc'] = verb
  PROVE  Link' /\ cmds' \in Seq(Commands)
<1>1. PICK c \in Commands : c = Plain(verb) /\ c.verb = verb
  BY PlainParts
<1>2. cmds \in Seq(Commands)
  BY DEF IInv, Typed, TypeOK
<1>3. cmds' \in Seq(Commands) /\ (up => Live' = <<c>>)
  BY <1>1, <1>2, WriteOne
<1>4. Asked(c)'
  BY <1>1, VerbsAre DEF Asked, Commands
<1>5. Before'
  BY DEF Before, Greeted
<1>6. pc' \in DOMAIN VerbOf
  BY VerbsAre DEF Waits
<1> QED
  BY <1>1, <1>3, <1>4, <1>5, <1>6, Arrives DEF Commands

LEMMA GreetingOkKeeps == IInv /\ GreetingOk => IInv'
<1> SUFFICES ASSUME IInv, GreetingOk PROVE IInv'
  OBVIOUS
<1>1. PICK r : pc = "greeting" /\ Reads(pc, r)
  BY DEF GreetingOk, Read, Reads
<1>2. PICK verb \in {"EHLO", "HELO"} :
        /\ Write(<<Plain(verb)>>) /\ pc' \in {"ehlo", "helo"} /\ VerbOf[pc'] = verb
        /\ UNCHANGED <<mxs, conn, ehlo_ok, ehlo_params, bulk, calls, sent, stored, lost>>
  BY VerbsAre DEF GreetingOk, Await, session, history
<1>3. Link' /\ cmds' \in Seq(Commands)
  BY <1>1, <1>2, OpeningRead, AsksNext DEF Verbs
<1>4. TypeOK
  BY DEF IInv, Typed
<1> QED
  BY <1>1, <1>2, <1>3, <1>4, ReadsOn DEF TypeOK, Waits

LEMMA GreetingNotOkKeeps == IInv /\ GreetingNotOk => IInv'
<1> SUFFICES ASSUME IInv, GreetingNotOk PROVE IInv'
  OBVIOUS
<1>1. CASE Read("greeting", Codes \ {"220"}) /\ NextMx /\ UNCHANGED lost
  BY <1>1, ReadNext DEF Read, Reads, Waits
<1>2. CASE ReadFails("greeting") /\ NextMx
  <2>1. pc = "greeting" /\ pc \in Waits
    BY <1>2 DEF ReadFails, Waits
  <2> QED
    BY <1>2, <2>1, FailsNext
<1> QED
  BY <1>1, <1>2 DEF GreetingNotOk

\* The envelope, in one write or in two.
LEMMA EnvelopeSent ==
  ASSUME IInv, conn = "open", good, conn' = "open", UNCHANGED <<good, up, server>>,
         reps' = <<>>, Live = <<>>, ~server.mail, NEW params, SendEnvelope(params)
  PROVE  Link' /\ cmds' \in Seq(Commands) /\ pc' \in {"mail", "mail_pipelined"}
<1>1. CASE "PIPELINING" \in params
  <2>1. Write(<<Plain("MAIL"), Plain("RCPT")>>) /\ pc' = "mail_pipelined"
    BY <1>1 DEF SendEnvelope
  <2>2. Plain("MAIL") \in Commands /\ Plain("RCPT") \in Commands
    BY PlainParts DEF Verbs
  <2>3. cmds \in Seq(Commands)
    BY DEF IInv, Typed, TypeOK
  <2>4. cmds' \in Seq(Commands) /\ (up => Live' = <<Plain("MAIL"), Plain("RCPT")>>)
    BY <2>1, <2>2, <2>3, WriteTwo
  <2>5. Plain("MAIL")' = Plain("MAIL") /\ Plain("RCPT")' = Plain("RCPT")
    BY DEF Plain, Command
  <2>6. Pipelined'
    BY <2>1, <2>4, <2>5 DEF Pipelined
  <2> QED
    BY <2>1, <2>4, <2>6 DEF Link
<1>2. CASE "PIPELINING" \notin params
  <2>1. Write(<<Plain("MAIL")>>) /\ pc' = "mail"
    BY <1>2 DEF SendEnvelope
  <2>2. VerbOf[pc'] = "MAIL" /\ "MAIL" \in Verbs \ {"dot", "LAST"}
    BY <2>1, VerbsAre DEF Verbs
  <2> QED
    BY <2>1, <2>2, AsksNext
<1> QED
  BY <1>1, <1>2

LEMMA AfterHelloSent ==
  ASSUME IInv, conn = "open", good, conn' = "open", UNCHANGED <<good, up, server>>,
         reps' = <<>>, Live = <<>>, ~server.mail, NEW params, AfterHello(params)
  PROVE  Link' /\ cmds' \in Seq(Commands) /\ pc' \in {"starttls", "mail", "mail_pipelined"}
<1>1. CASE "STARTTLS" \in params
  <2>1. Write(<<Plain("STARTTLS")>>) /\ pc' = "starttls"
    BY <1>1 DEF AfterHello
  <2>2. VerbOf[pc'] = "STARTTLS" /\ "STARTTLS" \in Verbs \ {"dot", "LAST"}
    BY <2>1, VerbsAre DEF Verbs
  <2> QED
    BY <2>1, <2>2, AsksNext
<1>2. CASE "STARTTLS" \notin params
  BY <1>2, EnvelopeSent DEF AfterHello
<1> QED
  BY <1>1, <1>2

LEMMA EhloOkKeeps == IInv /\ EhloOk => IInv'
<1> SUFFICES ASSUME IInv, EhloOk PROVE IInv'
  OBVIOUS
<1>1. PICK r : /\ pc = "ehlo" /\ Reads(pc, r)
               /\ ehlo_ok' = TRUE /\ ehlo_params' = ehlo_params \cup r.ext
               /\ AfterHello(ehlo_params')
               /\ UNCHANGED <<mxs, conn, bulk, calls, sent, stored, lost>>
  BY DEF EhloOk, Reads, history
<1>2. r \in Coded(Codes)
  BY <1>1, ReadCases DEF Waits
<1>3. TypeOK
  BY DEF IInv, Typed
<1>4. ehlo_params' \subseteq Extensions
  BY <1>1, <1>2, <1>3 DEF Coded, TypeOK
<1>5. PICK params : params = ehlo_params'
  OBVIOUS
<1>6. Link' /\ cmds' \in Seq(Commands) /\ pc' \in {"starttls", "mail", "mail_pipelined"}
  BY <1>1, <1>5, OpeningRead, AfterHelloSent
<1> QED
  BY <1>1, <1>3, <1>4, <1>6, ReadsOn DEF TypeOK, Waits

LEMMA EhloNotOkKeeps == IInv /\ EhloNotOk => IInv'
<1> SUFFICES ASSUME IInv, EhloNotOk PROVE IInv'
  OBVIOUS
<1>1. /\ pc' = "helo" /\ Write(<<Plain("HELO")>>)
      /\ UNCHANGED <<mxs, session, conn, ehlo_ok, ehlo_params, bulk, calls, sent, stored>>
  BY DEF EhloNotOk, Await, session, history
<1>2. TypeOK
  BY DEF IInv, Typed
<1>3. CASE Read("ehlo", Codes \ {"250"}) /\ UNCHANGED lost
  <2>1. PICK r : pc = "ehlo" /\ Reads(pc, r)
    BY <1>3 DEF Read, Reads
  <2>2. VerbOf[pc'] = "HELO" /\ "HELO" \in Verbs \ {"dot", "LAST"}
    BY <1>1, VerbsAre DEF Verbs
  <2>3. Link' /\ cmds' \in Seq(Commands)
    BY <1>1, <2>1, <2>2, OpeningRead, AsksNext
  <2> QED
    BY <1>1, <1>2, <1>3, <2>1, <2>3, ReadsOn DEF TypeOK, Waits
<1>4. CASE ReadFails("ehlo")
  <2>1. pc = "ehlo" /\ pc \in Waits /\ good' = FALSE
    BY <1>4 DEF ReadFails, Waits
  <2>2. UNCHANGED cmds
    BY <1>1, <2>1 DEF Write
  <2> QED
    BY <1>1, <1>2, <1>4, <2>1, <2>2, FailsOn DEF TypeOK, Waits
<1> QED
  BY <1>3, <1>4 DEF EhloNotOk

LEMMA HeloOkKeeps == IInv /\ HeloOk => IInv'
<1> SUFFICES ASSUME IInv, HeloOk PROVE IInv'
  OBVIOUS
<1>1. PICK r : pc = "helo" /\ Reads(pc, r)
  BY DEF HeloOk, Read, Reads
<1>2. /\ AfterHello(ehlo_params)
      /\ UNCHANGED <<mxs, conn, ehlo_ok, ehlo_params, bulk, calls, sent, stored, lost>>
  BY DEF HeloOk, session, history
<1>3. TypeOK
  BY DEF IInv, Typed
<1>4. Link' /\ cmds' \in Seq(Commands) /\ pc' \in {"starttls", "mail", "mail_pipelined"}
  BY <1>1, <1>2, OpeningRead, AfterHelloSent
<1> QED
  BY <1>1, <1>2, <1>3, <1>4, ReadsOn DEF TypeOK, Waits

LEMMA HeloNotOkKeeps == IInv /\ HeloNotOk => IInv'
<1> SUFFICES ASSUME IInv, HeloNotOk PROVE IInv'
  OBVIOUS
<1>1. CASE Read("helo", Codes \ {"250"}) /\ NextMx /\ UNCHANGED lost
  BY <1>1, ReadNext DEF Read, Reads, Waits
<1>2. CASE ReadFails("helo") /\ NextMx
  <2>1. pc = "helo" /\ pc \in Waits
    BY <1>2 DEF ReadFails, Waits
  <2> QED
    BY <1>2, <2>1, FailsNext
<1> QED
  BY <1>1, <1>2 DEF HeloNotOk

LEMMA StarttlsAnsweredKeeps == IInv /\ StarttlsAnswered => IInv'
<1> SUFFICES ASSUME IInv, StarttlsAnswered PROVE IInv'
  OBVIOUS
<1>1. TypeOK
  BY DEF IInv, Typed
<1>2. CASE Read("starttls", Codes) /\ Await("handshake") /\ UNCHANGED <<cmds, lost>>
  <2>1. PICK r : pc = "starttls" /\ Reads(pc, r)
    BY <1>2 DEF Read, Reads
  <2>2. /\ pc' = "handshake"
        /\ UNCHANGED <<mxs, conn, ehlo_ok, ehlo_params, bulk, calls, sent, stored, lost, cmds>>
    BY <1>2 DEF Await, session, history
  <2>3. /\ reps' = <<>> /\ Live = <<>> /\ ~server.mail
        /\ conn = "open" /\ good /\ UNCHANGED <<good, up, server>>
    BY <2>1, OpeningRead
  <2>4. Live' = <<>>
    BY <2>2, <2>3 DEF Live
  <2>5. Before'
    BY <2>2, <2>3 DEF Before, Greeted
  <2>6. Link'
    BY <2>2, <2>3, <2>4, <2>5, Arrives DEF Unasked
  <2> QED
    BY <1>1, <2>1, <2>2, <2>6, ReadsOn DEF TypeOK, Waits
<1>3. CASE ReadFails("starttls") /\ NextMx
  <2>1. pc = "starttls" /\ pc \in Waits
    BY <1>3 DEF ReadFails, Waits
  <2> QED
    BY <1>3, <2>1, FailsNext
<1> QED
  BY <1>2, <1>3 DEF StarttlsAnswered

LEMMA HandshakeKeeps == IInv /\ Handshake => IInv'
<1> SUFFICES ASSUME IInv, Handshake PROVE IInv'
  OBVIOUS
<1>1. /\ pc = "handshake" /\ UNCHANGED <<good, reps, up, server, lost>>
      /\ UNCHANGED <<mxs, conn, ehlo_ok, ehlo_params, bulk, calls, sent, stored>>
      /\ \/ pc' = "aborted" /\ UNCHANGED cmds
         \/ up /\ pc' = "ehlo_tls" /\ Write(<<Plain("EHLO")>>)
  BY DEF Handshake, Abort, Await, session, history
<1>2. TypeOK /\ conn # "none" /\ (good => conn = "open") /\ (~good => lost)
  BY <1>1 DEF IInv, Typed, Placed
<1>3. Link' /\ cmds' \in Seq(Commands)
  <2>1. CASE ~good
    <3>1. Harmless
      BY <2>1 DEF IInv, Link, Adrift
    <3>2. UNCHANGED cmds
      BY <1>1, <2>1 DEF Write
    <3>3. Live' = Live
      BY <1>1, <3>2 DEF Live
    <3> QED
      BY <1>1, <1>2, <2>1, <3>1, <3>2, <3>3, Drifts DEF TypeOK
  <2>2. CASE good
    <3>1. InStep
      BY <1>1, <1>2, <2>2 DEF IInv, Link, Pipelined, Stale
    <3>2. reps = <<>> /\ (up => Live = <<>> /\ ~server.mail)
      BY <1>1, <3>1, VerbsAre DEF InStep, Asking, Unasked, Before, Greeted, Waits
    <3>3. Live = <<>>
      BY <3>2 DEF Live
    <3>4. CASE pc' = "aborted" /\ UNCHANGED cmds
      <4>1. Live' = <<>> /\ Before'
        BY <1>1, <3>3, <3>4 DEF Live, Before, Greeted
      <4>2. Link'
        BY <1>1, <1>2, <2>2, <3>2, <3>4, <4>1, Arrives DEF Unasked
      <4> QED
        BY <1>2, <3>4, <4>2 DEF TypeOK
    <3>5. CASE up /\ pc' = "ehlo_tls" /\ Write(<<Plain("EHLO")>>)
      <4>1. VerbOf[pc'] = "EHLO" /\ "EHLO" \in Verbs \ {"dot", "LAST"}
        BY <3>5, VerbsAre DEF Verbs
      <4> QED
        BY <1>1, <1>2, <2>2, <3>2, <3>3, <3>5, <4>1, AsksNext
    <3> QED
      BY <1>1, <3>4, <3>5
  <2> QED
    BY <2>1, <2>2
<1>4. /\ good' \in BOOLEAN /\ pc' \in Waits \cup {"idle", "handshake", "aborted"}
      /\ reps' \in Seq(Coded(Codes))
  BY <1>1, <1>2 DEF IInv, Typed, TypeOK, Waits
<1> QED
  BY <1>1, <1>2, <1>3, <1>4, GoesOn DEF TypeOK

LEMMA EhloTlsAnsweredKeeps == IInv /\ EhloTlsAnswered => IInv'
<1> SUFFICES ASSUME IInv, EhloTlsAnswered PROVE IInv'
  OBVIOUS
<1>1. CASE ReadFails("ehlo_tls") /\ NextMx
  <2>1. pc = "ehlo_tls" /\ pc \in Waits
    BY <1>1 DEF ReadFails, Waits
  <2> QED
    BY <1>1, <2>1, FailsNext
<1>2. CASE ~(ReadFails("ehlo_tls") /\ NextMx)
  <2>1. PICK r : /\ pc = "ehlo_tls" /\ Reads(pc, r)
                 /\ ehlo_params' = ehlo_params \cup r.ext
                 /\ SendEnvelope(ehlo_params')
                 /\ UNCHANGED <<mxs, conn, ehlo_ok, bulk, calls, sent, stored, lost>>
    BY <1>2 DEF EhloTlsAnswered, Reads, history
  <2>2. r \in Coded(Codes)
    BY <2>1, ReadCases DEF Waits
  <2>3. TypeOK
    BY DEF IInv, Typed
  <2>4. ehlo_params' \subseteq Extensions
    BY <2>1, <2>2, <2>3 DEF Coded, TypeOK
  <2>5. PICK params : params = ehlo_params'
    OBVIOUS
  <2>6. Link' /\ cmds' \in Seq(Commands) /\ pc' \in {"mail", "mail_pipelined"}
    BY <2>1, <2>5, OpeningRead, EnvelopeSent
  <2> QED
    BY <2>1, <2>3, <2>4, <2>6, ReadsOn DEF TypeOK, Waits
<1> QED
  BY <1>1, <1>2
-----------------------------------------------------------------------------
(***************************************************************************)
(* The envelope and the message.                                           *)
(***************************************************************************)
\* In step, one more command is written.
LEMMA WritesNext ==
  ASSUME IInv, conn' = "open", good, UNCHANGED <<good, up, server>>,
         reps' = <<>>, Live = <<>>, NEW c \in Commands, Write(<<c>>),
         pc' \in DOMAIN VerbOf, Asked(c)', Before'
  PROVE  Link' /\ cmds' \in Seq(Commands)
<1>1. cmds \in Seq(Commands)
  BY DEF IInv, Typed, TypeOK
<1>2. cmds' \in Seq(Commands) /\ (up => Live' = <<c>>)
  BY <1>1, WriteOne
<1> QED
  BY <1>2, Arrives DEF Commands

LEMMA MailAnsweredKeeps == IInv /\ MailAnswered => IInv'
<1> SUFFICES ASSUME IInv, MailAnswered PROVE IInv'
  OBVIOUS
<1>1. TypeOK
  BY DEF IInv, Typed
<1>2. /\ UNCHANGED <<mxs, session, conn, ehlo_ok, ehlo_params, bulk, calls, sent, stored>>
      /\ pc' \in {"rcpt", "idle"} /\ pc = "mail" /\ pc \in Waits
  BY DEF MailAnswered, Return, Await, session, history, Read, Reads, ReadFails, Waits
<1>3. CASE ReadFails("mail") /\ Return /\ UNCHANGED cmds
  BY <1>1, <1>2, <1>3, FailsOn DEF TypeOK, Waits
<1>4. ASSUME NEW r, Reads(pc, r)
      PROVE  Own(r) /\ conn = "open" /\ good /\ UNCHANGED <<good, up, server>> /\ reps' = <<>>
             /\ Live = <<>> /\ server.chunks = 0
  BY <1>2, <1>4, ReadCases DEF OfMail, OfEarlier, Own, After
<1>5. CASE Read("mail", Positive) /\ Write(<<Plain("RCPT")>>) /\ Await("rcpt") /\ UNCHANGED lost
  <2>1. PICK r : Reads(pc, r)
    BY <1>5 DEF Read, Reads
  <2>2. PICK c \in Commands : c = Plain("RCPT") /\ c.verb = "RCPT"
    BY PlainParts DEF Verbs
  <2>3. pc' = "rcpt" /\ Write(<<c>>)
    BY <1>5, <2>2 DEF Await
  <2>4. Asked(c)' /\ pc' \in DOMAIN VerbOf
    BY <2>2, <2>3, VerbsAre DEF Asked, Commands, Waits
  <2>5. Before'
    BY <1>4, <2>1, <2>3 DEF Before, Greeted
  <2>6. Link' /\ cmds' \in Seq(Commands)
    BY <1>2, <1>4, <2>1, <2>3, <2>4, <2>5, WritesNext
  <2> QED
    BY <1>1, <1>2, <1>5, <2>1, <2>3, <2>6, ReadsOn DEF TypeOK, Waits
<1>6. CASE Read("mail", Codes \ Positive) /\ Return /\ UNCHANGED <<cmds, lost>>
  <2>1. PICK r : Reads(pc, r)
    BY <1>6 DEF Read, Reads
  <2>2. pc' = "idle" /\ UNCHANGED <<cmds, lost>>
    BY <1>6 DEF Return, Await
  <2>3. Link'
    BY <1>2, <1>4, <2>1, <2>2, ReturnsInStep
  <2> QED
    BY <1>1, <1>2, <2>1, <2>2, <2>3, ReadsOn DEF TypeOK, Waits
<1> QED
  BY <1>3, <1>5, <1>6 DEF MailAnswered

LEMMA MailPipelinedAnsweredKeeps == IInv /\ MailPipelinedAnswered => IInv'
<1> SUFFICES ASSUME IInv, MailPipelinedAnswered PROVE IInv'
  OBVIOUS
<1>1. TypeOK
  BY DEF IInv, Typed
<1>2. /\ UNCHANGED <<mxs, session, conn, ehlo_ok, ehlo_params, bulk, calls, sent, stored, cmds>>
      /\ pc' \in {"rcpt", "idle"} /\ pc = "mail_pipelined" /\ pc \in Waits
  BY DEF MailPipelinedAnswered, Return, Await, session, history, Read, Reads, ReadFails, Waits
<1>3. CASE ReadFails("mail_pipelined") /\ Return /\ UNCHANGED cmds
  BY <1>1, <1>2, <1>3, FailsOn DEF TypeOK, Waits
<1>4. CASE ~(ReadFails("mail_pipelined") /\ Return /\ UNCHANGED cmds)
  <2>1. PICK r : /\ Reads(pc, r) /\ UNCHANGED lost
                 /\ \/ r.code \in Positive /\ pc' = "rcpt"
                    \/ r.code \notin Positive /\ pc' = "idle"
    BY <1>2, <1>4 DEF MailPipelinedAnswered, Return, Await, Read, Reads
  <2>2. /\ conn = "open" /\ good /\ UNCHANGED <<good, up, server>> /\ OfMail(r)
    BY <1>2, <2>1, ReadCases, VerbsAre DEF OfEarlier, Own
  <2>3. /\ server.chunks = 0 /\ (pc' = "idle" => ~server.mail)
        /\ \/ reps' = <<>> /\ (up => Live = <<Plain("RCPT")>>)
           \/ \E q \in Coded({"250"} \cup Refusals) : reps' = <<q>> /\ Live = <<>>
    BY <2>1, <2>2 DEF OfMail
  <2>4. Live' = Live
    BY <1>2, <2>2 DEF Live
  <2>5. PICK c \in Commands : c = Plain("RCPT") /\ c.verb = "RCPT"
    BY PlainParts DEF Verbs
  <2>6. CASE pc' = "rcpt" /\ reps' = <<>> /\ (up => Live = <<Plain("RCPT")>>)
    <3>1. Asked(c)' /\ pc' \in DOMAIN VerbOf
      BY <2>5, <2>6, VerbsAre DEF Asked, Commands, Waits
    <3>2. Before'
      BY <2>2, <2>3, <2>6 DEF Before, Greeted
    <3>3. Link'
      BY <1>2, <2>2, <2>4, <2>5, <2>6, <3>1, <3>2, Arrives DEF Commands
    <3> QED
      BY <1>1, <1>2, <2>1, <3>3, ReadsOn DEF TypeOK, Waits
  <2>7. CASE pc' = "rcpt" /\ \E q \in Coded({"250"} \cup Refusals) : reps' = <<q>> /\ Live = <<>>
    <3>1. PICK q \in Coded({"250"} \cup Refusals) : reps' = <<q>> /\ Live = <<>>
      BY <2>7
    <3>2. q \in Coded(Codes)
      BY DEF Coded, Refusals, Codes
    <3>3. After(q)'
      BY <2>2, <2>3, <2>7 DEF After, Greeted
    <3>4. InStep'
      BY <2>4, <2>7, <3>1, <3>2, <3>3, VerbsAre DEF InStep, Waits, Coded, Codes
    <3>5. Link'
      BY <1>2, <2>2, <3>4 DEF Link
    <3> QED
      BY <1>1, <1>2, <2>1, <3>5, ReadsOn DEF TypeOK, Waits
  <2>8. CASE pc' = "idle"
    <3>1. ~server'.mail
      BY <2>2, <2>3, <2>8
    <3>2. Link'
      <4>1. CASE reps' = <<>> /\ ~up
        BY <1>2, <2>2, <4>1, Arrives
      <4>2. CASE reps' = <<>> /\ up
        <5>1. Live' = <<c>> /\ c.verb \in StaleVerbs'
          BY <2>3, <2>4, <2>5, <2>8, <4>2 DEF StaleVerbs
        <5>2. Stale'
          BY <2>5, <2>8, <3>1, <4>2, <5>1 DEF Stale, Commands
        <5> QED
          BY <1>2, <2>2, <5>2 DEF Link
      <4>3. CASE \E q \in Coded({"250"} \cup Refusals) : reps' = <<q>> /\ Live = <<>>
        <5>1. PICK q \in Coded({"250"} \cup Refusals) : reps' = <<q>> /\ Live = <<>>
          BY <4>3
        <5>2. q \in Coded(StaleCodes)'
          BY <2>8 DEF StaleCodes, Coded, Refusals
        <5>3. Asking'
          BY <2>4, <2>8, <5>1 DEF Asking, Unasked
        <5>4. Stale'
          BY <2>8, <3>1, <5>1, <5>2, <5>3 DEF Stale
        <5> QED
          BY <1>2, <2>2, <5>4 DEF Link
      <4> QED
        BY <2>3, <4>1, <4>2, <4>3
    <3> QED
      BY <1>1, <1>2, <2>1, <3>2, ReadsOn DEF TypeOK, Waits
  <2> QED
    BY <1>2, <2>3, <2>6, <2>7, <2>8
<1> QED
  BY <1>3, <1>4

LEMMA RcptAnsweredKeeps == IInv /\ RcptAnswered => IInv'
<1> SUFFICES ASSUME IInv, RcptAnswered PROVE IInv'
  OBVIOUS
<1>1. TypeOK
  BY DEF IInv, Typed
<1>2. /\ UNCHANGED <<mxs, session, conn, ehlo_ok, ehlo_params, bulk, calls, sent, stored, cmds>>
      /\ pc' = "idle" /\ pc = "rcpt" /\ pc \in Waits
  BY DEF RcptAnswered, Return, Await, session, history, Read, Reads, ReadFails, Waits
<1>3. CASE ReadFails("rcpt")
  BY <1>1, <1>2, <1>3, FailsOn DEF TypeOK, Waits
<1>4. CASE ~ReadFails("rcpt")
  <2>1. PICK r : Reads(pc, r) /\ UNCHANGED lost
    BY <1>4 DEF RcptAnswered, Read, Reads
  <2>2. /\ conn = "open" /\ good /\ UNCHANGED <<good, up, server>> /\ Own(r)
    BY <1>2, <2>1, ReadCases DEF OfEarlier, OfMail
  <2>3. Link'
    BY <1>2, <2>2, ReturnsInStep
  <2> QED
    BY <1>1, <1>2, <2>1, <2>3, ReadsOn DEF TypeOK, Waits
<1> QED
  BY <1>3, <1>4

LEMMA DataWriteFailsKeeps == IInv /\ DataWriteFails => IInv'
<1> SUFFICES ASSUME IInv, DataWriteFails PROVE IInv'
  OBVIOUS
<1>1. TypeOK /\ reps \in Seq(Coded(Codes))
  BY DEF IInv, Typed
<1>2. /\ pc = "data" /\ good /\ reps # <<>> /\ reps' = Tail(reps)
      /\ good' = FALSE /\ up' = FALSE /\ lost' = TRUE /\ pc' = "idle"
      /\ UNCHANGED <<mxs, conn, ehlo_ok, ehlo_params, bulk, calls, sent, stored, cmds, server>>
  BY DEF DataWriteFails, Return, Await, session, history
<1>3. conn = "open"
  BY <1>2 DEF IInv, Placed, Waits
<1>4. reps' \in Seq(Coded(Codes))
  BY <1>1, <1>2, HeadTailProperties
<1>5. Link'
  <2>1. Live' = <<>>
    BY <1>2 DEF Live
  <2>2. \A i \in 1 .. Len(Live') : Live'[i].verb \notin {"dot", "LAST"}
    BY <2>1, EmptySeq
  <2>3. Harmless'
    BY <2>2 DEF Harmless
  <2> QED
    BY <1>2, <1>3, <2>1, <2>3 DEF Link, Adrift
<1>6. Typed'
  BY <1>1, <1>2, <1>4, TypedKept DEF TypeOK
<1>7. Placed'
  BY <1>2, <1>3 DEF IInv, Placed, Waits
<1>8. SentIsStored' /\ Took' /\ NeverCutOff'
  BY <1>2, RestKept
<1> QED
  BY <1>5, <1>6, <1>7, <1>8 DEF IInv

LEMMA DataAnsweredKeeps == IInv /\ DataAnswered => IInv'
<1> SUFFICES ASSUME IInv, DataAnswered PROVE IInv'
  OBVIOUS
<1>1. TypeOK
  BY DEF IInv, Typed
<1>2. /\ UNCHANGED <<mxs, session, conn, ehlo_ok, ehlo_params, bulk, calls, sent, stored>>
      /\ pc' \in {"dot", "idle"} /\ pc = "data" /\ pc \in Waits
  BY DEF DataAnswered, Return, Await, session, history, Read, Reads, ReadFails, Waits
<1>3. CASE ReadFails("data") /\ Return /\ UNCHANGED cmds
  BY <1>1, <1>2, <1>3, FailsOn DEF TypeOK, Waits
<1>4. CASE Read("data", {"354"}) /\ Write(<<Command("dot", calls, 1)>>) /\ Await("dot")
             /\ UNCHANGED lost
  <2>1. PICK r : Reads(pc, r) /\ r.code = "354"
    BY <1>4 DEF Read, Reads
  <2>2. /\ conn = "open" /\ good /\ UNCHANGED <<good, up, server>>
        /\ Own(r) \/ OfEarlier(r)
    BY <1>2, <2>1, ReadCases DEF OfMail
  <2>3. Own(r)
    BY <1>2, <2>1, <2>2 DEF OfEarlier, StaleCodes, Coded, Refusals
  <2>4. reps' = <<>> /\ Live = <<>>
    BY <2>3 DEF Own
  <2>5. PICK c \in Commands : c = Command("dot", calls, 1) /\ c.verb = "dot" /\ c.m = calls
    <3>1. "dot" \in Verbs /\ calls \in 0 .. MaxCalls /\ 1 \in 0 .. MaxChunks
      BY <1>1, BoundAssumption DEF Verbs, TypeOK
    <3> QED
      BY <3>1, CommandParts
  <2>6. pc' = "dot" /\ Write(<<c>>)
    BY <1>4, <2>5 DEF Await
  <2>7. Asked(c)' /\ pc' \in DOMAIN VerbOf
    BY <1>2, <2>5, <2>6, VerbsAre DEF Asked, Commands, Waits
  <2>8. Before'
    BY <2>6 DEF Before, Greeted
  <2>9. Link' /\ cmds' \in Seq(Commands)
    BY <1>2, <2>2, <2>4, <2>6, <2>7, <2>8, WritesNext
  <2> QED
    BY <1>1, <1>2, <1>4, <2>1, <2>6, <2>9, ReadsOn DEF TypeOK, Waits
<1>5. CASE Read("data", Codes \ {"354"}) /\ Return /\ UNCHANGED <<cmds, lost>>
  <2>1. PICK r : Reads(pc, r)
    BY <1>5 DEF Read, Reads
  <2>2. pc' = "idle" /\ UNCHANGED <<cmds, lost>>
    BY <1>5 DEF Return, Await
  <2>3. /\ conn = "open" /\ good /\ UNCHANGED <<good, up, server>>
        /\ Own(r) \/ OfEarlier(r)
    BY <1>2, <2>1, ReadCases DEF OfMail
  <2>4. Link'
    BY <1>2, <2>2, <2>3, ReturnsInStep, ReturnsStale
  <2> QED
    BY <1>1, <1>2, <2>1, <2>2, <2>4, ReadsOn DEF TypeOK, Waits
<1> QED
  BY <1>3, <1>4, <1>5 DEF DataAnswered

\* The reply that decides about a message is read.
LEMMA Concludes ==
  ASSUME IInv, pc \in {"dot", "last"}, pc' = "idle", NEW r, Reads(pc, r),
         NEW ok \in BOOLEAN, sent' = IF ok THEN sent \cup {calls} ELSE sent,
         ok <=> r.code \in Positive /\ (pc = "last" => r.code = "250" /\ ~bulk.error),
         UNCHANGED <<mxs, session, bulk, cmds, calls, stored, lost>>
  PROVE  IInv'
<1>0. UNCHANGED <<conn, ehlo_ok, ehlo_params>>
  BY DEF session
<1>1. TypeOK /\ calls # 0 /\ pc \in Waits
  BY DEF IInv, Typed, Placed, Waits
<1>2. /\ conn = "open" /\ good /\ UNCHANGED <<good, up, server>>
      /\ Own(r) \/ OfEarlier(r)
      /\ reps' \in Seq(Coded(Codes))
  BY <1>1, ReadCases DEF OfMail
<1>3. Link'
  <2>1. CASE Own(r)
    BY <1>0, <1>2, <2>1, ReturnsInStep
  <2>2. CASE OfEarlier(r)
    <3>1. pc = "last"
      BY <2>2 DEF OfEarlier
    <3> QED
      BY <1>0, <1>2, <2>2, <3>1, ReturnsStale
  <2> QED
    BY <1>2, <2>1, <2>2
<1>4. ok => [m |-> calls, whole |-> TRUE] \in stored
  <2> SUFFICES ASSUME ok PROVE [m |-> calls, whole |-> TRUE] \in stored
    OBVIOUS
  <2>1. CASE Own(r)
    BY <2>1 DEF Own, After
  <2>2. CASE OfEarlier(r)
    BY <2>2 DEF OfEarlier, StaleCodes, Coded, Refusals
  <2> QED
    BY <1>2, <2>1, <2>2
<1>5. Typed'
  <2>1. sent' \subseteq 1 .. MaxCalls
    BY <1>1 DEF TypeOK
  <2>2. pc' \in {"idle"} /\ up' \in BOOLEAN
    BY <1>1, <1>2 DEF TypeOK
  <2> QED
    BY <1>0, <1>1, <1>2, <2>1, <2>2, TypedKept DEF TypeOK
<1>6. Placed'
  BY <1>0, <1>2 DEF IInv, Placed, Waits
<1>7. SentIsStored'
  BY <1>4 DEF IInv, SentIsStored
<1>8. NeverCutOff'
  BY DEF IInv, NeverCutOff
<1>9. Took'
  <2> SUFFICES ASSUME ~lost, NEW s \in stored PROVE s.m \in sent'
    BY DEF Took
  <2>1. \/ s.m \in sent
        \/ s.m = calls /\ Head(reps).code = "250" /\ (pc = "last" => ~bulk.error)
    BY DEF IInv, Took
  <2>2. r = Head(reps)
    BY DEF Reads
  <2>3. "250" \in Positive
    BY DEF Positive
  <2> QED
    BY <2>1, <2>2, <2>3
<1> QED
  BY <1>3, <1>5, <1>6, <1>7, <1>8, <1>9 DEF IInv

LEMMA DotAnsweredKeeps == IInv /\ DotAnswered => IInv'
<1> SUFFICES ASSUME IInv, DotAnswered PROVE IInv'
  OBVIOUS
<1>1. pc = "dot" /\ pc \in Waits
  BY DEF DotAnswered, Reads, ReadFails, Waits
<1>2. CASE ReadFails("dot") /\ Return /\ UNCHANGED cmds
  <2>1. /\ UNCHANGED <<mxs, session, conn, ehlo_ok, ehlo_params, bulk, calls, sent, stored, cmds>>
        /\ pc' = "idle"
    BY <1>2 DEF Return, Await, session, history
  <2>2. TypeOK
    BY DEF IInv, Typed
  <2> QED
    BY <1>1, <1>2, <2>1, <2>2, FailsOn DEF TypeOK, Waits
<1>3. CASE \E r \in ToSet(reps) :
             /\ Reads("dot", r)
             /\ sent' = IF Sent(r) THEN sent \cup {calls} ELSE sent
             /\ pc' = "idle"
             /\ UNCHANGED <<mxs, session, bulk, cmds, calls, stored, lost>>
  <2>1. PICK r : /\ Reads(pc, r) /\ pc' = "idle"
                 /\ sent' = IF Sent(r) THEN sent \cup {calls} ELSE sent
                 /\ UNCHANGED <<mxs, session, bulk, cmds, calls, stored, lost>>
    BY <1>1, <1>3
  <2>2. PICK ok \in BOOLEAN : ok <=> r.code \in Positive
    OBVIOUS
  <2>3. sent' = IF ok THEN sent \cup {calls} ELSE sent
    BY <2>1, <2>2 DEF Sent
  <2> QED
    BY <1>1, <2>1, <2>2, <2>3, Concludes
<1> QED
  BY <1>2, <1>3 DEF DotAnswered

LEMMA LastAnsweredKeeps == IInv /\ LastAnswered => IInv'
<1> SUFFICES ASSUME IInv, LastAnswered PROVE IInv'
  OBVIOUS
<1>1. pc = "last" /\ pc \in Waits
  BY DEF LastAnswered, Reads, ReadFails, Waits
<1>2. CASE ReadFails("last") /\ Abort /\ UNCHANGED cmds
  <2>1. /\ UNCHANGED <<mxs, session, conn, ehlo_ok, ehlo_params, bulk, calls, sent, stored, cmds>>
        /\ pc' = "aborted"
    BY <1>2 DEF Abort, Await, session, history
  <2>2. TypeOK
    BY DEF IInv, Typed
  <2> QED
    BY <1>1, <1>2, <2>1, <2>2, FailsOn DEF TypeOK, Waits
<1>3. CASE \E r \in ToSet(reps) :
             /\ Reads("last", r)
             /\ sent' = IF r.code = "250" /\ ~bulk.error THEN sent \cup {calls} ELSE sent
             /\ pc' = "idle"
             /\ UNCHANGED <<mxs, session, bulk, cmds, calls, stored, lost>>
  <2>1. PICK r : /\ Reads(pc, r) /\ pc' = "idle"
                 /\ sent' = IF r.code = "250" /\ ~bulk.error THEN sent \cup {calls} ELSE sent
                 /\ UNCHANGED <<mxs, session, bulk, cmds, calls, stored, lost>>
    BY <1>1, <1>3
  <2>2. PICK ok \in BOOLEAN : ok <=> r.code = "250" /\ ~bulk.error
    OBVIOUS
  <2>3. sent' = IF ok THEN sent \cup {calls} ELSE sent
    BY <2>1, <2>2
  <2>4. ok <=> r.code \in Positive /\ (pc = "last" => r.code = "250" /\ ~bulk.error)
    BY <1>1, <2>2 DEF Positive
  <2> QED
    BY <1>1, <2>1, <2>3, <2>4, Concludes
<1> QED
  BY <1>2, <1>3 DEF LastAnswered

LEMMA RsetAnsweredKeeps == IInv /\ RsetAnswered => IInv'
<1> SUFFICES ASSUME IInv, RsetAnswered PROVE IInv'
  OBVIOUS
<1>1. TypeOK
  BY DEF IInv, Typed
<1>2. /\ UNCHANGED <<mxs, session, conn, ehlo_ok, ehlo_params, bulk, calls, sent, stored, cmds>>
      /\ pc' = "idle" /\ pc = "rset" /\ pc \in Waits
  BY DEF RsetAnswered, Return, Await, session, history, Read, Reads, ReadFails, Waits
<1>3. CASE ReadFails("rset")
  BY <1>1, <1>2, <1>3, FailsOn DEF TypeOK, Waits
<1>4. CASE ~ReadFails("rset")
  <2>1. PICK r : Reads(pc, r) /\ UNCHANGED lost
    BY <1>4 DEF RsetAnswered, Read, Reads
  <2>2. /\ conn = "open" /\ good /\ UNCHANGED <<good, up, server>>
        /\ Own(r) \/ OfEarlier(r)
    BY <1>2, <2>1, ReadCases DEF OfMail
  <2>3. Link'
    BY <1>2, <2>2, ReturnsInStep, ReturnsStale
  <2> QED
    BY <1>1, <1>2, <2>1, <2>3, ReadsOn DEF TypeOK, Waits
<1> QED
  BY <1>3, <1>4

LEMMA QuitAnsweredKeeps == IInv /\ QuitAnswered => IInv'
<1> SUFFICES ASSUME IInv, QuitAnswered PROVE IInv'
  OBVIOUS
<1>1. TypeOK
  BY DEF IInv, Typed
<1>2. /\ UNCHANGED <<mxs, ehlo_ok, ehlo_params, bulk, calls, sent, stored, cmds>>
      /\ conn' = "closed" /\ pc' = "idle" /\ pc = "quit" /\ pc \in Waits
  BY DEF QuitAnswered, history, Read, Reads, ReadFails, Waits
<1>3. UNCHANGED <<server, up>> /\ reps' \in Seq(Coded(Codes)) /\ Link' /\ (~good' => lost')
      /\ good' \in BOOLEAN /\ conn # "none" /\ (lost' = lost \/ lost' = TRUE)
  <2>1. CASE ReadFails("quit")
    <3>1. /\ Harmless /\ conn # "none" /\ ~good' /\ lost' = TRUE /\ good' = FALSE
          /\ UNCHANGED <<reps, up, server>>
      BY <1>2, <2>1, FailsHarmless DEF ReadFails
    <3>2. Live' = Live
      BY <1>2, <3>1 DEF Live
    <3>3. Link'
      BY <1>2, <3>1, <3>2, Drifts
    <3> QED
      BY <1>1, <3>1, <3>3 DEF IInv, Typed
  <2>2. CASE ~ReadFails("quit")
    <3>1. PICK r : Reads(pc, r) /\ UNCHANGED lost
      BY <2>2 DEF QuitAnswered, Read, Reads
    <3>2. /\ conn = "open" /\ good /\ UNCHANGED <<good, up, server>>
          /\ Own(r) \/ OfEarlier(r)
          /\ reps' \in Seq(Coded(Codes))
      BY <1>2, <3>1, ReadCases DEF OfMail
    <3>3. Live' = Live
      BY <1>2, <3>2 DEF Live
    <3>4. Live = <<>> \/ \E c \in Commands : c.verb = "QUIT" /\ Live = <<c>>
      <4>1. CASE Own(r)
        BY <4>1 DEF Own
      <4>2. CASE OfEarlier(r)
        <5>1. ~up => Live = <<>>
          BY DEF Live
        <5> QED
          BY <1>2, <4>2, <5>1, VerbsAre DEF OfEarlier, Asked
      <4> QED
        BY <3>2, <4>1, <4>2
    <3>5. Link'
      BY <1>2, <3>2, <3>3, <3>4 DEF Link, Adrift, Commands
    <3> QED
      BY <1>1, <3>1, <3>2, <3>5 DEF TypeOK
  <2> QED
    BY <2>1, <2>2
<1>4. Typed'
  BY <1>1, <1>2, <1>3, TypedKept DEF TypeOK
<1>5. Placed'
  BY <1>2, <1>3 DEF IInv, Placed, Waits
<1>6. SentIsStored' /\ Took' /\ NeverCutOff'
  BY <1>2, <1>3, RestKept
<1> QED
  BY <1>3, <1>4, <1>5, <1>6 DEF IInv
-----------------------------------------------------------------------------
(***************************************************************************)
(* What is written behind a reply that nobody has read.                    *)
(***************************************************************************)
LEMMA StaleGoesOn ==
  ASSUME cmds \in Seq(Commands), ~server.mail, good, conn' = "open",
         UNCHANGED <<good, up, server>>, pc' \in {"data", "bdat", "last", "rset", "quit"},
         NEW c \in Commands, Write(<<c>>), Asked(c)',
         \/ reps' = <<>> /\ (up => \E y \in Commands : y.verb \in StaleVerbs' /\ Live = <<y>>)
         \/ \E q \in Coded(StaleCodes)' : reps' = <<q>> /\ Live = <<>>
  PROVE  Link' /\ cmds' \in Seq(Commands)
<1>1. /\ cmds' \in Seq(Commands)
      /\ up /\ Live = <<>> => Live' = <<c>>
      /\ \A y \in Commands : up /\ Live = <<y>> => Live' = <<y, c>>
  BY WriteOne
<1>2. pc' \in DOMAIN VerbOf /\ pc' \notin Unasked
  BY VerbsAre DEF Waits, Unasked
<1>3. CASE reps' = <<>> /\ ~up
  BY <1>1, <1>3, Arrives
<1>4. CASE reps' = <<>> /\ up
  <2>1. PICK y \in Commands : y.verb \in StaleVerbs' /\ Live = <<y>>
    BY <1>4
  <2>2. Live' = <<y, c>>
    BY <1>1, <1>4, <2>1
  <2>3. Stale'
    BY <1>4, <2>1, <2>2 DEF Stale, Commands
  <2> QED
    BY <1>1, <2>3 DEF Link
<1>5. CASE \E q \in Coded(StaleCodes)' : reps' = <<q>> /\ Live = <<>>
  <2>1. PICK q \in Coded(StaleCodes)' : reps' = <<q>> /\ Live = <<>>
    BY <1>5
  <2>2. up' => Asking'
    <3>1. up => Live' = <<c>>
      BY <1>1, <2>1
    <3> QED
      BY <1>2, <3>1, VerbsAre DEF Asking, Commands, Unasked
  <2>3. Stale'
    BY <2>1, <2>2 DEF Stale
  <2> QED
    BY <1>1, <2>3 DEF Link
<1> QED
  BY <1>1, <1>3, <1>4, <1>5

LEMMA BulkLess ==
  ASSUME bulk \in [n : 0 .. MaxChunks, left : 0 .. MaxChunks, error : BOOLEAN], bulk.left > 0,
         bulk' = [bulk EXCEPT !.left = @ - 1]
  PROVE  /\ bulk' \in [n : 0 .. MaxChunks, left : 0 .. MaxChunks, error : BOOLEAN]
         /\ bulk'.left + 1 = bulk.left /\ bulk'.n = bulk.n /\ bulk'.error = bulk.error
<1>1. PICK b \in [n : 0 .. MaxChunks, left : 0 .. MaxChunks, error : BOOLEAN] : b = bulk
  OBVIOUS
<1>2. PICK k \in 0 .. MaxChunks : k = b.left - 1 /\ k + 1 = b.left
  BY <1>1, BoundAssumption
<1>3. PICK d : d = [b EXCEPT !.left = k]
  OBVIOUS
<1>4. bulk' = d
  BY <1>1, <1>2, <1>3
<1>5. d \in [n : 0 .. MaxChunks, left : 0 .. MaxChunks, error : BOOLEAN]
  BY <1>3
<1>6. d.left = k /\ d.n = b.n /\ d.error = b.error
  BY <1>3
<1> QED
  BY <1>1, <1>2, <1>4, <1>5, <1>6

LEMMA BulkFailed ==
  ASSUME bulk \in [n : 0 .. MaxChunks, left : 0 .. MaxChunks, error : BOOLEAN],
         bulk' = [bulk EXCEPT !.error = TRUE]
  PROVE  /\ bulk' \in [n : 0 .. MaxChunks, left : 0 .. MaxChunks, error : BOOLEAN]
         /\ bulk'.n = bulk.n
<1>1. PICK b \in [n : 0 .. MaxChunks, left : 0 .. MaxChunks, error : BOOLEAN] : b = bulk
  OBVIOUS
<1>2. PICK d : d = [b EXCEPT !.error = TRUE]
  OBVIOUS
<1>3. bulk' = d
  BY <1>1, <1>2
<1>4. d \in [n : 0 .. MaxChunks, left : 0 .. MaxChunks, error : BOOLEAN]
  BY <1>2
<1>5. d.n = b.n
  BY <1>2
<1> QED
  BY <1>1, <1>3, <1>4, <1>5

\* The next chunk, or the end, of which the server knows where it belongs.
LEMMA BdatGoesOn ==
  ASSUME IInv, pc = "bdat", NEW r, Reads(pc, r),
         UNCHANGED <<mxs, session, calls, sent, stored, lost>>,
         bulk' \in [n : 0 .. MaxChunks, left : 0 .. MaxChunks, error : BOOLEAN],
         bulk'.n = bulk.n, NEW verb,
         \/ pc' = "bdat" /\ verb = "BDAT"
         \/ pc' = "last" /\ verb = "LAST",
         Write(<<Command(verb, calls, bulk.n)>>),
         Own(r) => Before'
  PROVE  IInv'
<1>1. TypeOK /\ pc \in Waits
  BY DEF IInv, Typed, Waits
<1>2. UNCHANGED <<conn, ehlo_ok, ehlo_params>>
  BY DEF session
<1>3. PICK c \in Commands :
        c = Command(verb, calls, bulk.n) /\ c.verb = verb /\ c.m = calls /\ c.n = bulk.n
  <2>1. verb \in Verbs /\ calls \in 0 .. MaxCalls /\ bulk.n \in 0 .. MaxChunks
    BY <1>1 DEF Verbs, TypeOK
  <2> QED
    BY <2>1, CommandParts
<1>4. Asked(c)' /\ pc' \in DOMAIN VerbOf
  BY <1>3, VerbsAre DEF Asked, Commands, Waits
<1>5. /\ conn = "open" /\ good /\ UNCHANGED <<good, up, server>>
      /\ Own(r) \/ OfEarlier(r)
  BY <1>1, ReadCases DEF OfMail
<1>6. Link' /\ cmds' \in Seq(Commands)
  <2>1. CASE Own(r)
    <3>1. reps' = <<>> /\ Live = <<>>
      BY <2>1 DEF Own
    <3> QED
      BY <1>2, <1>3, <1>4, <1>5, <2>1, <3>1, WritesNext
  <2>2. CASE OfEarlier(r)
    <3>1. /\ ~server.mail
          /\ \/ reps' = <<>> /\ (up => \E y \in Commands : Asked(y) /\ Live = <<y>>)
             \/ \E q \in Coded(OwnCodes) : reps' = <<q>> /\ Live = <<>>
      BY <2>2 DEF OfEarlier
    <3>2. \A y : Asked(y) => y.verb \in StaleVerbs'
      BY VerbsAre DEF Asked, StaleVerbs
    <3>3. \A q \in Coded(OwnCodes) : q \in Coded(StaleCodes)'
      BY DEF OwnCodes, StaleCodes, Coded, Refusals
    <3>4. cmds \in Seq(Commands)
      BY <1>1 DEF TypeOK
    <3>5. pc' \in {"data", "bdat", "last", "rset", "quit"} /\ Write(<<c>>)
      BY <1>3
    <3>6. \/ reps' = <<>> /\ (up => \E y \in Commands : y.verb \in StaleVerbs' /\ Live = <<y>>)
          \/ \E q \in Coded(StaleCodes)' : reps' = <<q>> /\ Live = <<>>
      BY <3>1, <3>2, <3>3
    <3> QED
      BY <1>2, <1>4, <1>5, <3>1, <3>4, <3>5, <3>6, StaleGoesOn
  <2> QED
    BY <1>5, <2>1, <2>2
<1> QED
  BY <1>1, <1>2, <1>6, ReadsOn DEF TypeOK, Waits

LEMMA BdatAnsweredKeeps == IInv /\ BdatAnswered => IInv'
<1> SUFFICES ASSUME IInv, BdatAnswered PROVE IInv'
  OBVIOUS
<1>1. TypeOK /\ server \in Peer /\ Sane(server)
  BY DEF IInv, Typed, TypeOK
<1>2. /\ UNCHANGED <<mxs, session, calls, sent, stored>> /\ pc = "bdat" /\ pc \in Waits
      /\ bulk \in [n : 0 .. MaxChunks, left : 0 .. MaxChunks, error : BOOLEAN]
  BY <1>1 DEF BdatAnswered, history, Read, Reads, ReadFails, Waits, TypeOK
<1>3. bulk.left \in Nat /\ bulk.n \in Nat /\ server.chunks \in Nat
  BY <1>1, <1>2, BoundAssumption DEF Peer
<1>4. ASSUME NEW r, Reads(pc, r)
      PROVE  /\ UNCHANGED server
             /\ Own(r) => IF r.code = "250"
                          THEN ~bulk.error /\ (server.rcpt => server.chunks + bulk.left = bulk.n)
                          ELSE ~server.rcpt
  BY <1>2, <1>4, ReadCases DEF Own, After
<1>5. CASE /\ Read("bdat", {"250"}) /\ bulk.left > 0 /\ UNCHANGED lost
           /\ pc' = "bdat" /\ bulk' = [bulk EXCEPT !.left = @ - 1]
           /\ Write(<<Command("BDAT", calls, bulk.n)>>)
  <2>1. PICK r : Reads(pc, r) /\ r.code = "250"
    BY <1>5 DEF Read, Reads
  <2>2. /\ bulk' \in [n : 0 .. MaxChunks, left : 0 .. MaxChunks, error : BOOLEAN]
        /\ bulk'.left + 1 = bulk.left /\ bulk'.n = bulk.n /\ bulk'.error = bulk.error
        /\ bulk'.left \in Nat
    <3>1. /\ bulk' \in [n : 0 .. MaxChunks, left : 0 .. MaxChunks, error : BOOLEAN]
          /\ bulk'.left + 1 = bulk.left /\ bulk'.n = bulk.n /\ bulk'.error = bulk.error
      BY <1>2, <1>5, BulkLess
    <3> QED
      BY <3>1, BoundAssumption
  <2>3. Own(r) => Before'
    <3> SUFFICES ASSUME Own(r) PROVE Before'
      OBVIOUS
    <3>1. ~bulk.error /\ (server.rcpt => server.chunks + bulk.left = bulk.n) /\ server' = server
      BY <1>4, <2>1
    <3>2. server.rcpt => server.chunks + bulk'.left + 1 = bulk'.n
      BY <1>3, <2>2, <3>1
    <3>3. ~bulk'.error /\ (server'.rcpt => server'.chunks + bulk'.left + 1 = bulk'.n)
      BY <2>2, <3>1, <3>2
    <3> QED
      BY <1>5, <3>3 DEF Before, Greeted
  <2> QED
    BY <1>2, <1>5, <2>1, <2>2, <2>3, BdatGoesOn
<1>6. CASE /\ Read("bdat", {"250"}) /\ ~(bulk.left > 0) /\ UNCHANGED <<bulk, lost>>
           /\ pc' = "last" /\ Write(<<Command("LAST", calls, bulk.n)>>)
  <2>1. PICK r : Reads(pc, r) /\ r.code = "250"
    BY <1>6 DEF Read, Reads
  <2>2. Own(r) => Before'
    <3> SUFFICES ASSUME Own(r) PROVE Before'
      OBVIOUS
    <3>1. ~bulk.error /\ (server.rcpt => server.chunks + bulk.left = bulk.n) /\ server' = server
      BY <1>4, <2>1
    <3>2. server.rcpt => server.chunks = bulk.n
      BY <1>3, <1>6, <3>1
    <3> QED
      BY <1>6, <3>1, <3>2 DEF Before, Greeted
  <2> QED
    BY <1>2, <1>6, <2>1, <2>2, BdatGoesOn
<1>7. CASE /\ Read("bdat", Codes \ {"250"}) /\ UNCHANGED lost
           /\ pc' = "last" /\ bulk' = [bulk EXCEPT !.error = TRUE]
           /\ Write(<<Command("LAST", calls, bulk.n)>>)
  <2>1. PICK r : Reads(pc, r) /\ r.code # "250"
    BY <1>7 DEF Read, Reads
  <2>2. /\ bulk' \in [n : 0 .. MaxChunks, left : 0 .. MaxChunks, error : BOOLEAN]
        /\ bulk'.n = bulk.n
    BY <1>2, <1>7, BulkFailed
  <2>3. Own(r) => Before'
    BY <1>4, <1>7, <2>1 DEF Before, Greeted
  <2> QED
    BY <1>2, <1>7, <2>1, <2>2, <2>3, BdatGoesOn
<1>8. CASE /\ ReadFails("bdat")
           /\ pc' = "last" /\ bulk' = [bulk EXCEPT !.error = TRUE]
           /\ Write(<<Command("LAST", calls, bulk.n)>>)
  <2>1. bulk' \in [n : 0 .. MaxChunks, left : 0 .. MaxChunks, error : BOOLEAN]
    BY <1>2, <1>8, BulkFailed
  <2>2. UNCHANGED cmds
    BY <1>8 DEF Write, ReadFails
  <2> QED
    BY <1>2, <1>8, <2>1, <2>2, FailsOn DEF Waits
<1> QED
  BY <1>5, <1>6, <1>7, <1>8 DEF BdatAnswered
-----------------------------------------------------------------------------
(***************************************************************************)
(* The calls of the owner.                                                 *)
(***************************************************************************)
LEMMA CallMailKeeps == IInv /\ CallMail => IInv'
<1> SUFFICES ASSUME IInv, CallMail PROVE IInv'
  OBVIOUS
<1>1. /\ pc = "idle" /\ calls < MaxCalls /\ (cmds = <<>> \/ ~up)
      /\ calls' = calls + 1 /\ conn' = "none" /\ mxs' \in 0 .. MaxMx
      /\ pc' \in {"aborted", "connect"}
      /\ UNCHANGED <<good, ehlo_ok, ehlo_params, bulk, cmds, reps, up, server, sent, stored, lost>>
  BY DEF CallMail, link
<1>2. TypeOK /\ reps \in Seq(Coded(Codes))
  BY DEF IInv, Typed
<1>3. calls' \in 0 .. MaxCalls /\ calls' # 0
  BY <1>1, <1>2, BoundAssumption DEF TypeOK
<1>4. Typed'
  BY <1>1, <1>2, <1>3, TypedKept DEF TypeOK
<1>5. Placed'
  BY <1>1, <1>3 DEF IInv, Placed, Waits
<1>6. SentIsStored' /\ Took' /\ NeverCutOff'
  BY <1>1, RestKept
<1>7. Link'
  <2>1. Live' = <<>>
    BY <1>1 DEF Live
  <2>2. \A i \in 1 .. Len(Live') : Live'[i].verb \notin {"dot", "LAST"}
    BY <2>1, EmptySeq
  <2>3. Harmless'
    BY <2>2 DEF Harmless
  <2> QED
    BY <1>1, <2>1, <2>3 DEF Link, Adrift
<1> QED
  BY <1>4, <1>5, <1>6, <1>7 DEF IInv

LEMMA CallKeeps ==
  ASSUME IInv, NEW c \in Commands, NEW wait \in {"data", "bdat", "rset", "quit"},
         Call(<<c>>, wait), c.verb = VerbOf[wait],
         bulk' \in [n : 0 .. MaxChunks, left : 0 .. MaxChunks, error : BOOLEAN],
         wait = "bdat" => ~bulk'.error /\ bulk'.left + 1 = bulk'.n
  PROVE  IInv'
<1>1. /\ pc = "idle" /\ calls < MaxCalls /\ conn # "none" /\ calls' = calls + 1
      /\ UNCHANGED <<mxs, conn, ehlo_ok, ehlo_params, good, reps, up, server, sent, stored, lost>>
      /\ \/ conn = "closed" /\ good /\ pc' = "aborted" /\ UNCHANGED cmds
         \/ ~(conn = "closed" /\ good) /\ pc' = wait /\ Write(<<c>>)
  BY DEF Call, session
<1>2. TypeOK /\ reps \in Seq(Coded(Codes)) /\ (~good => lost)
  BY DEF IInv, Typed, Placed
<1>3. calls' \in 0 .. MaxCalls /\ calls' # 0
  BY <1>1, <1>2, BoundAssumption DEF TypeOK
<1>4. c.verb \notin {"dot", "LAST"} /\ wait \in Waits /\ wait \in DOMAIN VerbOf
  BY VerbsAre DEF Waits
<1>5. Link' /\ cmds' \in Seq(Commands)
  <2>1. CASE conn = "closed" /\ good
    <3>1. UNCHANGED cmds /\ Live' = Live
      BY <1>1, <2>1 DEF Live
    <3> QED
      BY <1>1, <1>2, <2>1, <3>1 DEF IInv, Link, Adrift, TypeOK
  <2>2. CASE ~good
    <3>1. Harmless
      BY <2>2 DEF IInv, Link, Adrift
    <3>2. UNCHANGED cmds
      BY <1>1, <2>2 DEF Write
    <3>3. Live' = Live
      BY <1>1, <3>2 DEF Live
    <3> QED
      BY <1>1, <1>2, <2>2, <3>1, <3>2, <3>3, Drifts DEF TypeOK
  <2>3. CASE conn = "open" /\ good
    <3>1. pc' = wait /\ Write(<<c>>) /\ conn' = "open" /\ UNCHANGED <<good, up, server, reps>>
      BY <1>1, <2>3
    <3>2. Asked(c)'
      BY <1>4, <3>1, VerbsAre DEF Asked, Commands
    <3>3. InStep \/ Stale
      BY <1>1, <2>3 DEF IInv, Link, Pipelined
    <3>4. CASE InStep
      <4>1. reps = <<>> /\ (up => Live = <<>> /\ server.chunks = 0)
        BY <1>1, <3>4, VerbsAre DEF InStep, Asking, Unasked, Before, Waits
      <4>2. Live = <<>>
        BY <4>1 DEF Live
      <4>3. CASE up
        <5>1. Before'
          <6>1. CASE wait = "bdat"
            <7>1. 0 + bulk'.left + 1 = bulk'.n
              BY <6>1, BoundAssumption
            <7>2. server'.chunks = 0 /\ ~bulk'.error
              BY <3>1, <4>1, <4>3, <6>1
            <7> QED
              BY <3>1, <6>1, <7>1, <7>2 DEF Before, Greeted
          <6>2. CASE wait # "bdat"
            BY <3>1, <4>1, <4>3, <6>2 DEF Before, Greeted
          <6> QED
            BY <6>1, <6>2
        <5> QED
          BY <1>4, <2>3, <3>1, <3>2, <4>1, <4>2, <5>1, WritesNext
      <4>4. CASE ~up
        <5>1. Link'
          BY <2>3, <3>1, <4>1, <4>4, Arrives
        <5> QED
          BY <1>2, <3>1, <4>4, <5>1, WriteOne DEF TypeOK
      <4> QED
        BY <4>3, <4>4
    <3>5. CASE Stale
      <4>1. ~server.mail
        BY <3>5 DEF Stale
      <4>2. /\ StaleVerbs' = StaleVerbs /\ StaleCodes' = StaleCodes
        BY <1>1, <3>1 DEF StaleVerbs, StaleCodes
      <4>3. Coded(StaleCodes)' = Coded(StaleCodes)
        BY <4>2 DEF Coded
      <4>4. \/ reps' = <<>> /\ (up => \E y \in Commands : y.verb \in StaleVerbs' /\ Live = <<y>>)
            \/ \E q \in Coded(StaleCodes)' : reps' = <<q>> /\ Live = <<>>
        <5>1. CASE \E y \in Commands : y.verb \in StaleVerbs /\ reps = <<>> /\ Live = <<y>>
          BY <3>1, <4>2, <5>1
        <5>2. CASE \E q \in Coded(StaleCodes) : reps = <<q>> /\ (up => Asking)
          <6>1. Live = <<>>
            BY <1>1, <5>2 DEF Asking, Unasked, Live
          <6> QED
            BY <3>1, <4>3, <5>2, <6>1
        <5> QED
          BY <1>1, <3>5, <5>1, <5>2 DEF Stale
      <4>5. cmds \in Seq(Commands) /\ pc' \in {"data", "bdat", "last", "rset", "quit"}
        BY <1>2, <3>1 DEF TypeOK
      <4> QED
        BY <2>3, <3>1, <3>2, <4>1, <4>4, <4>5, StaleGoesOn
    <3> QED
      BY <3>3, <3>4, <3>5
  <2> QED
    BY <1>1, <1>2, <2>1, <2>2, <2>3 DEF TypeOK
<1>6. Typed'
  BY <1>1, <1>2, <1>3, <1>4, <1>5, TypedKept DEF TypeOK
<1>7. Placed'
  <2>1. conn = "closed" /\ good => pc' = "aborted"
    BY <1>1
  <2>2. good /\ pc' \in Waits \cup {"handshake"} => conn = "open"
    BY <1>1, <1>2, <2>1 DEF Waits, TypeOK
  <2> QED
    BY <1>1, <1>2, <1>3, <1>4, <2>2 DEF Placed, Waits
<1>8. SentIsStored' /\ Took' /\ NeverCutOff'
  BY <1>1, RestKept
<1> QED
  BY <1>5, <1>6, <1>7, <1>8 DEF IInv

LEMMA CallSendKeeps == IInv /\ CallSend => IInv'
<1> SUFFICES ASSUME IInv, CallSend PROVE IInv'
  OBVIOUS
<1>1. TypeOK
  BY DEF IInv, Typed
<1>2. CASE Call(<<Plain("DATA")>>, "data") /\ UNCHANGED bulk
  <2>1. PICK c \in Commands : c = Plain("DATA") /\ c.verb = "DATA"
    BY PlainParts DEF Verbs
  <2>2. c.verb = VerbOf["data"] /\ Call(<<c>>, "data")
    BY <1>2, <2>1, VerbsAre
  <2> QED
    BY <1>1, <1>2, <2>2, CallKeeps DEF TypeOK
<1>3. CASE \E n \in 1 .. MaxChunks :
             /\ bulk' = [n |-> n, left |-> n - 1, error |-> FALSE]
             /\ Call(<<Command("BDAT", calls', n)>>, "bdat")
  <2>1. PICK n \in 1 .. MaxChunks :
             /\ bulk' = [n |-> n, left |-> n - 1, error |-> FALSE]
             /\ Call(<<Command("BDAT", calls', n)>>, "bdat")
    BY <1>3
  <2>2. calls' \in 0 .. MaxCalls
    BY <1>1, <2>1, BoundAssumption DEF Call, TypeOK
  <2>3. "BDAT" \in Verbs /\ n \in 0 .. MaxChunks
    BY BoundAssumption DEF Verbs
  <2>4. PICK c \in Commands : c = Command("BDAT", calls', n) /\ c.verb = "BDAT"
    BY <2>2, <2>3, CommandParts
  <2>5. c.verb = VerbOf["bdat"] /\ Call(<<c>>, "bdat")
    BY <2>1, <2>4, VerbsAre
  <2>6. PICK k \in 0 .. MaxChunks : k = n - 1 /\ k + 1 = n
    BY BoundAssumption
  <2>7. /\ bulk' \in [n : 0 .. MaxChunks, left : 0 .. MaxChunks, error : BOOLEAN]
        /\ ~bulk'.error /\ bulk'.left = k /\ bulk'.n = n
    BY <2>1, <2>3, <2>6
  <2>8. bulk'.left + 1 = bulk'.n
    BY <2>6, <2>7
  <2> QED
    BY <2>5, <2>7, <2>8, CallKeeps
<1> QED
  BY <1>2, <1>3 DEF CallSend

LEMMA CallRsetKeeps == IInv /\ (CallRset \/ CallQuit) => IInv'
<1> SUFFICES ASSUME IInv, CallRset \/ CallQuit PROVE IInv'
  OBVIOUS
<1>1. TypeOK
  BY DEF IInv, Typed
<1>2. CASE CallRset
  <2>1. PICK c \in Commands : c = Plain("RSET") /\ c.verb = "RSET"
    BY PlainParts DEF Verbs
  <2>2. c.verb = VerbOf["rset"] /\ Call(<<c>>, "rset") /\ UNCHANGED bulk
    BY <1>2, <2>1, VerbsAre DEF CallRset
  <2> QED
    BY <1>1, <2>2, CallKeeps DEF TypeOK
<1>3. CASE CallQuit
  <2>1. PICK c \in Commands : c = Plain("QUIT") /\ c.verb = "QUIT"
    BY PlainParts DEF Verbs
  <2>2. c.verb = VerbOf["quit"] /\ Call(<<c>>, "quit") /\ UNCHANGED bulk
    BY <1>3, <2>1, VerbsAre DEF CallQuit
  <2> QED
    BY <1>1, <2>2, CallKeeps DEF TypeOK
<1> QED
  BY <1>2, <1>3
-----------------------------------------------------------------------------
(***************************************************************************)
(* Every step keeps the invariant, and what follows from it.               *)
(***************************************************************************)
LEMMA InitHolds == Init => IInv
<1> SUFFICES ASSUME Init PROVE IInv
  OBVIOUS
<1>1. Fresh \in Peer /\ Sane(Fresh)
  BY DEF Fresh, Peer, Sane
<1>2. NoBulk \in [n : 0 .. MaxChunks, left : 0 .. MaxChunks, error : BOOLEAN]
  BY BoundAssumption DEF NoBulk
<1>3. <<>> \in Seq(Commands) /\ <<>> \in Seq(Replies) /\ <<>> \in Seq(Coded(Codes))
  OBVIOUS
<1>4. Typed
  <2>1. mxs \in 0 .. MaxMx /\ calls \in 0 .. MaxCalls
    BY BoundAssumption DEF Init
  <2>2. TypeOK
    BY <1>1, <1>2, <1>3, <2>1 DEF Init, TypeOK
  <2>3. Sane(server) /\ reps \in Seq(Coded(Codes))
    BY <1>1, <1>3 DEF Init
  <2> QED
    BY <2>2, <2>3 DEF Typed
<1>5. Placed /\ SentIsStored /\ Took /\ NeverCutOff
  BY DEF Init, Placed, Waits, SentIsStored, Took, NeverCutOff
<1>6. Link
  BY DEF Init, Link, Adrift, Live
<1> QED
  BY <1>4, <1>5, <1>6 DEF IInv

LEMMA Unmoved ==
  ASSUME IInv, UNCHANGED <<pc, mxs, conn, ehlo_ok, ehlo_params, good, bulk, cmds, reps, up, server,
                           calls, sent, stored, lost>>
  PROVE  IInv'
<1>1. Typed'
  BY TypedKept DEF IInv, Typed, TypeOK
<1>2. Placed' /\ SentIsStored' /\ Took' /\ NeverCutOff'
  BY DEF IInv, Placed, SentIsStored, Took, NeverCutOff
<1>3. Live' = Live
  BY DEF Live
<1>4. /\ StaleCodes' = StaleCodes /\ OwnCodes' = OwnCodes /\ StaleVerbs' = StaleVerbs
      /\ \A codes : Coded(codes)' = Coded(codes)
  BY DEF StaleCodes, OwnCodes, StaleVerbs, Coded
<1>5. Coded(StaleCodes)' = Coded(StaleCodes) /\ Coded(OwnCodes)' = Coded(OwnCodes)
  BY <1>4 DEF Coded
<1>6. \A c : Asked(c)' <=> Asked(c)
  BY VerbsAre DEF Asked, Commands
<1>7. (Asking' <=> Asking) /\ (Before' <=> Before) /\ \A r : After(r)' <=> After(r)
  <2>1. Asking' <=> Asking
    BY <1>3, <1>6, VerbsAre DEF Asking, Commands, Unasked
  <2>2. Before' <=> Before
    BY DEF Before
  <2>3. \A r : After(r)' <=> After(r)
    BY DEF After, Positive
  <2> QED
    BY <2>1, <2>2, <2>3
<1>8. InStep => InStep'
  BY <1>3, <1>7, VerbsAre DEF InStep, Coded, Codes
<1>9. Pipelined => Pipelined'
  BY <1>3 DEF Pipelined, Coded
<1>10. Stale => Stale'
  BY <1>3, <1>4, <1>5, <1>6, <1>7 DEF Stale, Commands
<1>11. Adrift => Adrift'
  BY <1>3 DEF Adrift, Harmless
<1>12. Link'
  BY <1>8, <1>9, <1>10, <1>11 DEF IInv, Link
<1> QED
  BY <1>1, <1>2, <1>12 DEF IInv

LEMMA NextKeeps == IInv /\ [Next]_vars => IInv'
<1> SUFFICES ASSUME IInv, [Next]_vars PROVE IInv'
  OBVIOUS
<1>1. CASE Opening
  BY <1>1, ConnectFailsKeeps, ConnectKeeps, GreetingOkKeeps, GreetingNotOkKeeps, EhloOkKeeps,
     EhloNotOkKeeps, HeloOkKeeps, HeloNotOkKeeps, StarttlsAnsweredKeeps, HandshakeKeeps,
     EhloTlsAnsweredKeeps DEF Opening
<1>2. CASE Answered
  BY <1>2, MailAnsweredKeeps, MailPipelinedAnsweredKeeps, RcptAnsweredKeeps, DataAnsweredKeeps,
     DataWriteFailsKeeps, DotAnsweredKeeps, BdatAnsweredKeeps, LastAnsweredKeeps,
     RsetAnsweredKeeps, QuitAnsweredKeeps DEF Answered
<1>3. CASE Owner
  BY <1>3, CallMailKeeps, CallSendKeeps, CallRsetKeeps DEF Owner
<1>4. CASE ServerStep
  BY <1>4, ServerStepKeeps
<1>5. CASE Break
  BY <1>5, BreakStep
<1>6. CASE UNCHANGED vars
  <2>1. UNCHANGED <<pc, mxs, conn, ehlo_ok, ehlo_params, good, bulk, cmds, reps, up, server,
                    calls, sent, stored, lost>>
    BY <1>6 DEF vars, session, link, history
  <2> QED
    BY <2>1, Unmoved
<1> QED
  BY <1>1, <1>2, <1>3, <1>4, <1>5, <1>6 DEF Next

LEMMA Invariant == Spec => []IInv
<1> QED
  BY InitHolds, NextKeeps, PTL DEF Spec

LEMMA InvariantAgrees == IInv => MessagesAgree
<1> SUFFICES ASSUME IInv PROVE MessagesAgree
  OBVIOUS
<1>1. TypeOK /\ SentIsStored /\ NeverCutOff
  BY DEF IInv, Typed
<1>2. StoredIsSent
  BY DEF IInv, Took, StoredIsSent
<1> QED
  BY <1>1, <1>2 DEF MessagesAgree

LEMMA InvariantOutOfStep == IInv => OutOfStepHasNoMail
<1> SUFFICES ASSUME IInv, pc = "idle", conn = "open", good, up, Len(cmds) + Len(reps) > 0
             PROVE  Len(cmds) + Len(reps) = 1 /\ ~server.mail
  BY DEF OutOfStepHasNoMail
<1>1. Live = cmds /\ (InStep \/ Stale)
  BY DEF Live, IInv, Link, Pipelined
<1>2. Len(<<>>) = 0 /\ \A x : Len(<<x>>) = 1
  OBVIOUS
<1>3. ~InStep
  <2>1. InStep => reps = <<>> /\ cmds = <<>>
    BY <1>1, VerbsAre DEF InStep, Asking, Unasked, Waits
  <2>2. ~(reps = <<>> /\ cmds = <<>>)
    BY <1>2
  <2> QED
    BY <2>1, <2>2
<1>4. ~server.mail
  BY <1>1, <1>3 DEF Stale
<1>5. \/ \E y \in Commands : reps = <<>> /\ cmds = <<y>>
      \/ \E r \in Coded(StaleCodes) : reps = <<r>> /\ cmds = <<>>
  BY <1>1, <1>3 DEF Stale, Asking, Unasked
<1>6. \/ Len(reps) = 0 /\ Len(cmds) = 1
      \/ Len(reps) = 1 /\ Len(cmds) = 0
  BY <1>2, <1>5
<1>7. Len(cmds) + Len(reps) = 1
  <2> DEFINE k == Len(cmds)
             l == Len(reps)
  <2>1. (l = 0 /\ k = 1) \/ (l = 1 /\ k = 0)
    BY <1>6
  <2> HIDE DEF k, l
  <2>2. k + l = 1
    BY <2>1
  <2> QED
    BY <2>2 DEF k, l
<1> QED
  BY <1>4, <1>7

\* Client and server agree on the messages: send() returns true only for a message that the
\* server has taken; while no connection broke and no read timed out, every message taken is
\* one for which send() returned true, or whose last reply is on its way; and no message
\* was taken that do_bdat had cut off.  For any number of calls, exchangers and chunks.
THEOREM SendClientMessagesAgree == Spec => []MessagesAgree
<1> QED
  BY Invariant, InvariantAgrees, PTL

\* The answer to RCPT that mail_from_rcpt_to_pipelined leaves unread is the only thing ever left
\* on the connection between two calls, and while it is there the server has no transaction,
\* whatever the owner calls next.
THEOREM SendClientOutOfStep == Spec => []OutOfStepHasNoMail
<1> QED
  BY Invariant, InvariantOutOfStep, PTL
=============================================================================
