------------------------------ MODULE SndProofs ------------------------------
(***************************************************************************)
(* What holds of program snd against any servers that keep the order of    *)
(* RFC 5321, for any number of receivers, any flags and whatever system    *)
(* calls of the copy for .Sent fail: at most one server takes the message, *)
(* and what the program says of it at its end is so.                       *)
(***************************************************************************)
EXTENDS Snd, SequenceTheorems, TLAPS

-----------------------------------------------------------------------------
(***************************************************************************)
(* The inductive invariant.                                                *)
(***************************************************************************)
Verbs == {"EHLO", "HELO", "STARTTLS", "NOOP", "AUTH", "LOGIN", "MAIL", "RCPT", "DATA", "dot",
          "LAST", "QUIT"}

EndVerbs == {"dot", "LAST"}

Commands == {Plain(verb) : verb \in Verbs}

Replies == [code : Codes, ext : SUBSET Extensions]

\* What the server keeps of a transaction: recipients after a sender, DATA after a recipient.
Sane(s) == (s.rcpt => s.mail) /\ (s.data => s.rcpt)

\* The commands that the server will still read.
Live == IF up THEN cmds ELSE <<>>

NoVerb(verb) == \A i \in 1 .. Len(Live) : Live[i].verb # verb

NoEnd == \A i \in 1 .. Len(Live) : Live[i].verb \notin EndVerbs

Typed == TypeOK /\ Sane(server) /\ cmds \in Seq(Commands)

\* Before the envelope.
Early == {"greeting", "ehlo", "helo", "starttls", "handshake", "ehlo_tls", "ready", "user", "pass",
          "auth", "envelope"}

\* The message goes in one chunk, and before the reply to MAIL is read.
Chunked == "CHUNKING" \in ext /\ ~BadDad /\ "nosend" \notin flags

Ahead == Chunked /\ Pipelined

\* The end of the message has not been sent on this connection.
Unwritten ==
  \/ pc \in Early \cup {"start", "host", "content", "data"}
  \/ pc \in {"mail", "rcpt"} /\ ~Ahead

\* Where the message goes, and why it goes at all.
Placed ==
  /\ pc \in {"content", "data", "dot", "last"} => "nosend" \notin flags
  /\ pc = "content" => ~BadDad
  /\ pc = "last" => Chunked
  /\ pc = "data" => ~Chunked

\* One end of a message at most is under way, and if there is one nothing was taken.
Once ==
  /\ taken <= 1
  /\ \A i, j \in 1 .. Len(Live) : {Live[i].verb, Live[j].verb} \subseteq EndVerbs => i = j
  /\ taken = 0 \/ NoEnd
  /\ Unwritten => taken = 0 /\ NoEnd

\* How many replies and commands are under way.
Due == Len(reps) + Len(Live)

\* The NOOP before AUTH: its reply is taken for another, which none of the readers allows.
Blocked ==
  /\ "noop" \in flags
  /\ IF reps = <<>> THEN Live # <<>> /\ Live[1].verb = "NOOP" ELSE Head(reps).code = "250"

\* Nothing is left unread before the envelope but the reply to a NOOP.
Awaits ==
  pc \in Early =>
    /\ ~server.mail
    /\ \A i \in 1 .. Len(Live) : Live[i].verb \notin {"MAIL", "RCPT", "DATA"} \cup EndVerbs
    /\ IF pc = "envelope"
       THEN /\ \A i \in 1 .. Len(Live) : Live[i].verb = "NOOP"
            /\ \A i \in 1 .. Len(reps) : reps[i].code = "250"
            /\ "noop" \in flags \/ Due = 0
       ELSE \/ Due <= (IF pc \in {"handshake", "ready"} THEN 0 ELSE 1)
            \/ pc \in {"user", "auth"} /\ Blocked

\* The number of the reply that is the last to be looked at, in the order they come.
Needed ==
  CASE pc = "mail"    -> 3
    [] pc = "rcpt"    -> 2
    [] pc = "content" -> IF Pipelined THEN 3 ELSE 1
    [] OTHER          -> 1

\* No server will take the message on this connection: MAIL, or RCPT, or the end of the
\* message has been sent, is no longer under way, and was refused.
NoSender == ~server.mail /\ NoVerb("MAIL")

NoRecipient == ~server.rcpt /\ NoVerb("RCPT")

Hopeless ==
  /\ taken = 0
  /\ \/ NoSender
     \/ NoRecipient /\ ~(pc = "mail" /\ ~Pipelined)
     \/ NoEnd /\ ~Unwritten

\* With the message in one chunk, a reply that will be read is 250 or the message is not taken.
InTurn ==
  (Chunked /\ pc \in {"mail", "rcpt", "content", "last"}) =>
    /\ \A i \in 1 .. Len(Live) : Live[i].verb \in {"NOOP", "MAIL", "RCPT", "LAST", "QUIT"}
    /\ \A i \in 1 .. Len(Live) :
         Live[i].verb = "MAIL" =>
           ~server.mail /\ taken = 0 /\ \A j \in 1 .. Len(Live) : Live[j].verb = "MAIL" => i = j
    /\ \A i \in 1 .. Len(Live) :
         Live[i].verb = "RCPT" =>
           ~server.rcpt /\ taken = 0 /\ \A j \in 1 .. Len(Live) : Live[j].verb = "RCPT" => i = j
    /\ \A i \in 1 .. Len(Live) : Live[i].verb = "QUIT" => Len(reps) + i > Needed
    /\ \A i \in 1 .. Len(reps) : i <= Needed => reps[i].code = "250" \/ Hopeless
    /\ pc = "mail" /\ ~Pipelined => NoRecipient
    /\ pc = "content" /\ Pipelined /\ up => Due >= 2

Failed == pc \in {"failure", "quit_failure"} => Hopeless

\* Unless replies are shifted: how many are due before the end of the message is sent, and
\* then that the end, or its reply, is where it is looked for.
Expected ==
  CASE pc = "envelope" -> 0
    [] pc = "content"  -> IF Pipelined THEN 2 ELSE 0
    [] pc = "mail"     -> IF Pipelined THEN 3 ELSE 1
    [] pc = "rcpt"     -> IF Pipelined THEN 2 ELSE 1
    [] OTHER           -> 1

Aligned ==
  (~Shifted /\ ~BadDad /\ "nosend" \notin flags) =>
    /\ pc \in {"content", "mail", "rcpt", "data"} /\ Unwritten =>
         Due <= Expected /\ (up => Due = Expected)
    /\ pc \in {"mail", "rcpt", "dot", "last"} /\ ~Unwritten =>
         IF Len(reps) < Needed
         THEN up => /\ Needed - Len(reps) <= Len(Live)
                    /\ Live[Needed - Len(reps)].verb \in EndVerbs
         ELSE reps[Needed].code \in Positive => taken = 1

IInv == Typed /\ Placed /\ Once /\ Awaits /\ InTurn /\ Failed /\ Aligned /\ SentIsTaken
-----------------------------------------------------------------------------
(***************************************************************************)
(* The server.                                                             *)
(***************************************************************************)
LEMMA CodesAre ==
  {"220", "221", "235", "250", "334", "354", "4xx", "5xx"} \subseteq Codes
BY DEF Codes

\* The parts of an answer.
LEMMA AnswerParts ==
  ASSUME NEW code \in Codes, NEW s
  PROVE  /\ Answer(code, s).reply \in Replies /\ Answer(code, s).reply.code = code
         /\ Answer(code, s).s = s /\ Answer(code, s).took = {}
BY DEF Answer, Reply, Replies

LEMMA NoTransactionType ==
  ASSUME NEW s \in Peer
  PROVE  /\ NoTransaction(s) \in Peer /\ Sane(NoTransaction(s))
         /\ ~NoTransaction(s).mail /\ ~NoTransaction(s).rcpt /\ ~NoTransaction(s).data
<1>1. NoTransaction(s) \in Peer
  BY DEF Peer, NoTransaction
<1>2. ~NoTransaction(s).mail
  BY DEF Peer, NoTransaction
<1>3. ~NoTransaction(s).rcpt
  BY DEF Peer, NoTransaction
<1>4. ~NoTransaction(s).data
  BY DEF Peer, NoTransaction
<1> QED
  BY <1>1, <1>2, <1>3, <1>4 DEF Sane

LEMMA RefuseParts ==
  ASSUME NEW s \in Peer, NEW a \in Refuse(s)
  PROVE  a.reply \in Replies /\ a.reply.code \in Refusals /\ a.took = {} /\ a.s = s
<1>1. PICK code \in Refusals : a = Answer(code, s)
  BY DEF Refuse
<1>2. code \in Codes
  BY CodesAre DEF Refusals
<1> QED
  BY <1>1, <1>2, AnswerParts

\* What an answer has in common with every other: nothing is promised, and nothing begun, but
\* by the commands for it, with a 250, and to someone who has come so far.
Answered(s, verb, a) ==
  /\ a.reply \in Replies /\ a.s \in Peer /\ Sane(a.s)
  /\ IF verb \in EndVerbs
     THEN IF a.took = {} THEN a.reply.code \in Refusals ELSE a.reply.code = "250" /\ s.rcpt
     ELSE a.took = {}
  /\ a.s.mail => s.mail \/ (verb = "MAIL" /\ a.reply.code = "250")
  /\ a.s.rcpt => s.rcpt \/ (verb = "RCPT" /\ a.reply.code = "250" /\ s.mail)
  /\ verb = "NOOP" => a.reply.code = "250"
  /\ verb \in {"MAIL", "RCPT"} /\ a.reply.code # "250" => a.s = s

\* The answer leaves the server as it was, or without a transaction.
LEMMA PlainAnswer ==
  ASSUME NEW s \in Peer, Sane(s), NEW verb \in Verbs \ (EndVerbs \cup {"MAIL", "RCPT", "NOOP"}),
         NEW n \in Peer, Sane(n), n.mail => s.mail, n.rcpt => s.rcpt,
         NEW a, a.reply \in Replies, a.took = {}, a.s = n
  PROVE  Answered(s, verb, a)
BY DEF Answered, EndVerbs

LEMMA HelloAnswer ==
  ASSUME NEW s \in Peer, Sane(s), NEW verb \in {"EHLO", "HELO", "STARTTLS"},
         NEW a \in Answers(s, Plain(verb))
  PROVE  Answered(s, verb, a)
<1>0. Plain(verb).verb = verb /\ verb \in Verbs \ (EndVerbs \cup {"MAIL", "RCPT", "NOOP"})
  BY DEF Plain, Command, Verbs, EndVerbs
<1>n. PICK n \in Peer : n = NoTransaction(s) /\ Sane(n) /\ ~n.mail /\ ~n.rcpt /\ ~n.data
  BY NoTransactionType
<1>1. CASE verb = "EHLO"
  <2>1. a \in Hello(s) \/ a = Answer("5xx", s)
    BY <1>0, <1>1 DEF Answers
  <2>2. CASE a \in Hello(s)
    <3>1. PICK ext1 \in SUBSET Extensions :
            /\ a.reply = Reply("250", ext1) /\ a.took = {}
            /\ a.s = [NoTransaction(s) EXCEPT !.announced = @ \/ "STARTTLS" \in ext1]
      BY <2>2 DEF Hello
    <3>2. a.reply \in Replies
      BY <3>1, CodesAre DEF Reply, Replies
    <3>3. PICK b \in BOOLEAN : b = (n.announced \/ "STARTTLS" \in ext1)
      OBVIOUS
    <3>4. PICK m : m = [n EXCEPT !.announced = b] /\ m = a.s
      BY <1>n, <3>1, <3>3
    <3>5. m \in Peer /\ m.mail = n.mail /\ m.rcpt = n.rcpt /\ m.data = n.data
      BY <3>4 DEF Peer
    <3> QED
      BY <1>0, <1>n, <3>1, <3>2, <3>4, <3>5, PlainAnswer DEF Sane
  <2>3. CASE a = Answer("5xx", s)
    BY <1>0, <2>3, AnswerParts, CodesAre, PlainAnswer
  <2> QED
    BY <2>1, <2>2, <2>3
<1>2. CASE verb = "HELO"
  <2>1. a = Answer("250", NoTransaction(s)) \/ a = Answer("5xx", s)
    BY <1>0, <1>2 DEF Answers
  <2> QED
    BY <1>0, <1>n, <2>1, AnswerParts, CodesAre, PlainAnswer
<1>3. CASE verb = "STARTTLS"
  <2>1. a = Answer("220", [NoTransaction(s) EXCEPT !.tls = TRUE]) \/ a = Answer("4xx", s)
    BY <1>0, <1>3 DEF Answers
  <2>2. PICK m : m = [n EXCEPT !.tls = TRUE]
    OBVIOUS
  <2>3. m \in Peer /\ m.mail = n.mail /\ m.rcpt = n.rcpt /\ m.data = n.data
    BY <2>2 DEF Peer
  <2>4. a = Answer("220", m) \/ a = Answer("4xx", s)
    BY <1>n, <2>1, <2>2
  <2> QED
    BY <1>0, <1>n, <2>3, <2>4, AnswerParts, CodesAre, PlainAnswer DEF Sane
<1> QED
  BY <1>1, <1>2, <1>3

LEMMA EnvelopeAnswer ==
  ASSUME NEW s \in Peer, Sane(s), NEW verb \in {"MAIL", "RCPT", "DATA"},
         NEW a \in Answers(s, Plain(verb))
  PROVE  Answered(s, verb, a)
<1>0. Plain(verb).verb = verb
  BY DEF Plain, Command
<1>n. PICK n \in Peer : n = NoTransaction(s) /\ Sane(n) /\ ~n.mail /\ ~n.rcpt /\ ~n.data
  BY NoTransactionType
<1>r. CASE a \in Refuse(s)
  <2>1. a.reply \in Replies /\ a.reply.code \in Refusals /\ a.took = {} /\ a.s = s
    BY <1>r, RefuseParts
  <2> QED
    BY <2>1 DEF Answered, EndVerbs
<1>1. CASE verb = "MAIL" /\ a \notin Refuse(s)
  <2>1. a = Answer("250", [NoTransaction(s) EXCEPT !.mail = TRUE])
    BY <1>0, <1>1 DEF Answers
  <2>2. PICK m : m = [n EXCEPT !.mail = TRUE]
    OBVIOUS
  <2>3. m \in Peer /\ m.mail /\ m.rcpt = n.rcpt /\ m.data = n.data
    BY <2>2 DEF Peer
  <2>4. a.reply \in Replies /\ a.reply.code = "250" /\ a.s = m /\ a.took = {}
    BY <1>n, <2>1, <2>2, AnswerParts, CodesAre
  <2> QED
    BY <1>1, <1>n, <2>3, <2>4 DEF Answered, Sane, EndVerbs
<1>2. CASE verb = "RCPT" /\ a \notin Refuse(s)
  <2>1. s.mail /\ a = Answer("250", [s EXCEPT !.rcpt = TRUE])
    BY <1>0, <1>2 DEF Answers
  <2>2. PICK m : m = [s EXCEPT !.rcpt = TRUE]
    OBVIOUS
  <2>3. m \in Peer /\ m.mail = s.mail /\ m.rcpt /\ m.data = s.data
    BY <2>2 DEF Peer
  <2>4. a.reply \in Replies /\ a.reply.code = "250" /\ a.s = m /\ a.took = {}
    BY <2>1, <2>2, AnswerParts, CodesAre
  <2> QED
    BY <1>2, <2>1, <2>3, <2>4 DEF Answered, Sane, EndVerbs
<1>3. CASE verb = "DATA" /\ a \notin Refuse(s)
  <2>1. s.rcpt /\ a = Answer("354", [s EXCEPT !.data = TRUE])
    BY <1>0, <1>3 DEF Answers
  <2>2. PICK m : m = [s EXCEPT !.data = TRUE]
    OBVIOUS
  <2>3. m \in Peer /\ m.mail = s.mail /\ m.rcpt = s.rcpt /\ m.data
    BY <2>2 DEF Peer
  <2>4. a.reply \in Replies /\ a.s = m /\ a.took = {}
    BY <2>1, <2>2, AnswerParts, CodesAre
  <2> QED
    BY <1>3, <2>1, <2>3, <2>4 DEF Answered, Sane, EndVerbs
<1> QED
  BY <1>r, <1>1, <1>2, <1>3

LEMMA EndAnswer ==
  ASSUME NEW s \in Peer, Sane(s), NEW verb \in EndVerbs, NEW a \in Answers(s, Plain(verb))
  PROVE  Answered(s, verb, a)
<1> DEFINE n == NoTransaction(s)
<1>0. Plain(verb).verb = verb
  BY DEF Plain, Command
<1>1. (s.rcpt /\ a \in Take(s, Plain(verb))) \/ a \in Refuse(n)
  BY <1>0 DEF Answers, EndVerbs, Sane
<1>2. n \in Peer /\ Sane(n) /\ ~n.mail /\ ~n.rcpt
  BY NoTransactionType
<1>3. CASE s.rcpt /\ a \in Take(s, Plain(verb))
  <2>0. PICK t : a = [reply |-> Reply("250", {}), s |-> n, took |-> {t}]
    BY <1>3 DEF Take
  <2>1. a.reply = Reply("250", {}) /\ a.s = n /\ a.took # {}
    BY <2>0
  <2>2. a.reply \in Replies /\ a.reply.code = "250"
    BY <2>1, CodesAre DEF Reply, Replies
  <2> HIDE DEF n
  <2> QED
    BY <1>2, <1>3, <2>1, <2>2 DEF Answered, EndVerbs
<1>4. CASE a \in Refuse(n)
  <2> HIDE DEF n
  <2>1. a.reply \in Replies /\ a.reply.code \in Refusals /\ a.took = {} /\ a.s = n
    BY <1>2, <1>4, RefuseParts
  <2> QED
    BY <1>2, <2>1 DEF Answered, EndVerbs
<1> QED
  BY <1>1, <1>3, <1>4

LEMMA OtherAnswer ==
  ASSUME NEW s \in Peer, Sane(s), NEW verb \in {"NOOP", "AUTH", "LOGIN", "QUIT"},
         NEW a \in Answers(s, Plain(verb))
  PROVE  Answered(s, verb, a)
<1>0. Plain(verb).verb = verb
  BY DEF Plain, Command
<1>1. PICK code \in Codes : a = Answer(code, s) /\ (verb = "NOOP" => code = "250")
  BY <1>0, CodesAre DEF Answers
<1>2. a.reply \in Replies /\ a.reply.code = code /\ a.s = s /\ a.took = {}
  BY <1>1, AnswerParts
<1> QED
  BY <1>1, <1>2 DEF Answered, EndVerbs

LEMMA AnswersAre ==
  ASSUME NEW s \in Peer, Sane(s), NEW c \in Commands, NEW a \in Answers(s, c)
  PROVE  Answered(s, c.verb, a)
<1>1. PICK verb \in Verbs : c = Plain(verb)
  BY DEF Commands
<1>2. c.verb = verb
  BY <1>1 DEF Plain, Command
<1>3. \/ verb \in {"EHLO", "HELO", "STARTTLS"} \/ verb \in {"MAIL", "RCPT", "DATA"}
      \/ verb \in EndVerbs \/ verb \in {"NOOP", "AUTH", "LOGIN", "QUIT"}
  BY DEF Verbs, EndVerbs
<1> QED
  BY <1>1, <1>2, <1>3, HelloAnswer, EnvelopeAnswer, EndAnswer, OtherAnswer
-----------------------------------------------------------------------------
(***************************************************************************)
(* The copy for .Sent.                                                     *)
(***************************************************************************)
Copies == INSTANCE MessageStoreOpsProofs

LEMMA CopiesMayFail == Copies!FaultsAssumption
BY SndFaultsAssumption DEF Spool!FaultKinds, Copies!FaultsAssumption, Copies!FaultKinds

\* The type of an object, and what may be called on it, named by either instance.
LEMMA StoreIs == Spool!Store = Copies!Store /\ Spool!Fresh = Copies!Fresh
BY DEF Spool!Store, Spool!FileContent, Copies!Store, Copies!FileContent, Spool!Fresh,
       Copies!Fresh

LEMMA OpenKeepsNew ==
  ASSUME NEW m \in Spool!Store, NEW n \in Nat, NEW o \in Spool!Open(m, n)
  PROVE  o.m \in Spool!Store /\ o.threw \in BOOLEAN /\ o.m.new = m.new
<1>1. o \in Copies!Open(m, n)
  BY DEF Spool!Open, Spool!When, Spool!Returns, Spool!Throws, Copies!Open, Copies!When,
         Copies!Returns, Copies!Throws
<1>2. o \in Copies!Outcome /\ o.m.new = m.new
  BY <1>1, StoreIs, CopiesMayFail, Copies!OpenOutcome
<1> QED
  BY <1>2, StoreIs DEF Copies!Outcome

LEMMA WriteKeepsNew ==
  ASSUME NEW m \in Spool!Store, NEW n \in Nat, NEW o \in Spool!Write(m, n)
  PROVE  o.m \in Spool!Store /\ o.threw \in BOOLEAN /\ o.m.new = m.new
<1>1. o \in Copies!Write(m, n)
  BY DEF Spool!Write, Spool!When, Spool!Returns, Spool!Throws, Spool!Sound, Copies!Write,
         Copies!When, Copies!Returns, Copies!Throws, Copies!Sound
<1>2. o \in Copies!Outcome /\ o.m.new = m.new
  BY <1>1, StoreIs, CopiesMayFail, Copies!WriteOutcome
<1> QED
  BY <1>2, StoreIs DEF Copies!Outcome

LEMMA CloseKeepsNew ==
  ASSUME NEW m \in Spool!Store, NEW o \in Spool!Close(m)
  PROVE  o.m \in Spool!Store /\ o.threw \in BOOLEAN /\ o.m.new = m.new
<1>1. o \in Copies!Close(m)
  BY DEF Spool!Close, Spool!TryClose, Spool!Remove, Spool!When, Spool!Returns, Spool!Throws,
         Copies!Close, Copies!TryClose, Copies!Remove, Copies!When, Copies!Returns, Copies!Throws
<1>2. o \in Copies!Outcome /\ o.m.new = m.new
  BY <1>1, StoreIs, CopiesMayFail, Copies!CloseOutcome
<1> QED
  BY <1>2, StoreIs DEF Copies!Outcome

LEMMA DeliverType ==
  ASSUME NEW m \in Spool!Store, NEW o \in Spool!Deliver(m)
  PROVE  o.m \in Spool!Store /\ o.threw \in BOOLEAN
<1>1. o \in Copies!Deliver(m)
  BY DEF Spool!Deliver, Spool!TryClose, Spool!Rename, Spool!Exists, Spool!When, Spool!Returns,
         Spool!Throws, Copies!Deliver, Copies!TryClose, Copies!Rename, Copies!Exists,
         Copies!When, Copies!Returns, Copies!Throws
<1>2. o \in Copies!Outcome
  BY <1>1, StoreIs, CopiesMayFail, Copies!DeliverOutcome
<1> QED
  BY <1>2, StoreIs DEF Copies!Outcome

\* The copy is written before the message is sent, and nothing is in .Sent yet.
LEMMA SpoolKeepsNew ==
  ASSUME msg \in Spool!Store, NEW o \in SpoolOutcomes
  PROVE  o.m \in Spool!Store /\ o.threw \in BOOLEAN /\ o.m.new = msg.new
<1>0. Size \in Nat /\ 2 * Size \in Nat
  BY SndBoundAssumption
<1>1. CASE "save" \notin flags
  <2>1. o = [m |-> msg, threw |-> FALSE]
    BY <1>1 DEF SpoolOutcomes, Spool!Returns
  <2> QED
    BY <2>1
<1>2. CASE "save" \in flags
  <2>1. PICK p \in Spool!Open(msg, 2 * Size) :
          o \in (IF p.threw THEN {p} ELSE Spool!Write(p.m, Size))
    BY <1>2 DEF SpoolOutcomes
  <2>2. p.m \in Spool!Store /\ p.threw \in BOOLEAN /\ p.m.new = msg.new
    BY <1>0, OpenKeepsNew
  <2> QED
    BY <1>0, <2>1, <2>2, WriteKeepsNew
<1> QED
  BY <1>1, <1>2
-----------------------------------------------------------------------------
(***************************************************************************)
(* What a step does to the connection.                                     *)
(***************************************************************************)
\* n commands with such verbs are written, or get lost.
Grows(n, verbs) ==
  /\ cmds' \in Seq(Commands)
  /\ Len(Live') = IF up THEN Len(Live) + n ELSE Len(Live)
  /\ \A i \in 1 .. Len(Live) : Live'[i] = Live[i]
  /\ \A i \in 1 .. Len(Live') : i > Len(Live) => Live'[i].verb \in verbs

\* A reply is read.
Shifts ==
  /\ reps' \in Seq(Replies)
  /\ Len(reps) # 0 /\ Len(reps') = Len(reps) - 1
  /\ \A i \in 1 .. Len(reps') : reps'[i] = reps[i + 1]

LEMMA LinkType ==
  ASSUME Typed
  PROVE  /\ Live \in Seq(Commands) /\ Len(Live) \in Nat
         /\ \A i \in 1 .. Len(Live) : Live[i] \in Commands /\ Live[i].verb \in Verbs
         /\ reps \in Seq(Replies) /\ Len(reps) \in Nat
         /\ \A i \in 1 .. Len(reps) : reps[i] \in Replies
         /\ ~up => Live = <<>> /\ Len(Live) = 0
         /\ server \in Peer /\ Sane(server) /\ taken \in Nat /\ up \in BOOLEAN
         /\ Due = Len(reps) + Len(Live)
<1>1. Live \in Seq(Commands) /\ (~up => Live = <<>> /\ Len(Live) = 0)
  BY DEF Typed, Live
<1>2. \A c \in Commands : c.verb \in Verbs
  BY DEF Commands, Plain, Command
<1>3. reps \in Seq(Replies) /\ server \in Peer /\ Sane(server) /\ up \in BOOLEAN
  BY DEF Typed, TypeOK, Replies
<1>4. taken \in Nat
  BY SndBoundAssumption DEF Typed, TypeOK
<1> QED
  BY <1>1, <1>2, <1>3, <1>4 DEF Due

LEMMA Sends ==
  ASSUME Typed, NEW verbs \in Seq(Verbs), NEW set, NEW wait,
         \A k \in 1 .. Len(verbs) : verbs[k] \in set,
         Send(verbs, wait), up' = up
  PROVE  /\ Grows(Len(verbs), set) /\ pc' = wait
         /\ \A k \in 1 .. Len(verbs) : up => Live'[Len(Live) + k].verb = verbs[k]
<1> DEFINE more == [i \in DOMAIN verbs |-> Plain(verbs[i])]
<1>1. \A verb \in Verbs : Plain(verb) \in Commands /\ Plain(verb).verb = verb
  BY DEF Commands, Plain, Command
<1>2. /\ more \in Seq(Commands) /\ Len(more) = Len(verbs)
      /\ \A k \in 1 .. Len(verbs) : more[k].verb = verbs[k]
  BY <1>1
<1>3. pc' = wait /\ cmds' = IF up THEN cmds \o more ELSE cmds
  BY DEF Send
<1>4. Live \in Seq(Commands) /\ Len(Live) \in Nat /\ Len(verbs) \in Nat /\ up \in BOOLEAN
  BY LinkType
<1> HIDE DEF more
<1>5. CASE ~up
  <2>1. cmds' = cmds /\ Live' = Live /\ Len(Live) = 0
    BY <1>3, <1>5, LinkType DEF Live
  <2> QED
    BY <1>3, <1>4, <1>5, <2>1 DEF Grows, Typed
<1>6. CASE up
  <2>1. Live' = Live \o more /\ cmds' = Live'
    BY <1>3, <1>6 DEF Live
  <2>2. PICK l : l = Live'
    OBVIOUS
  <2>3. /\ l \in Seq(Commands) /\ Len(l) = Len(Live) + Len(verbs)
        /\ \A i \in 1 .. Len(Live) : l[i] = Live[i]
        /\ \A k \in 1 .. Len(verbs) : l[Len(Live) + k] = more[k]
    <3>1. PICK p, q : p = Live /\ q = more
      OBVIOUS
    <3>2. p \in Seq(Commands) /\ q \in Seq(Commands) /\ l = p \o q /\ Len(q) = Len(verbs)
      BY <1>2, <1>4, <2>1, <2>2, <3>1
    <3>3. /\ l \in Seq(Commands) /\ Len(l) = Len(p) + Len(q)
          /\ \A i \in 1 .. Len(p) : l[i] = p[i]
          /\ \A k \in 1 .. Len(q) : l[Len(p) + k] = q[k]
      BY <3>2
    <3> QED
      BY <3>1, <3>2, <3>3
  <2>4. ASSUME NEW i \in 1 .. Len(l), i > Len(Live)
        PROVE  l[i].verb \in set
    <3>1. PICK p, q, k : p = Len(Live) /\ q = Len(verbs) /\ k = i - p
      OBVIOUS
    <3>2. p \in Nat /\ q \in Nat /\ i \in 1 .. p + q /\ i > p
      BY <1>4, <2>3, <2>4, <3>1
    <3>3. k \in 1 .. q /\ i = p + k
      BY <3>1, <3>2
    <3> QED
      BY <1>2, <2>3, <3>1, <3>3
  <2> QED
    BY <1>2, <1>3, <1>6, <2>1, <2>2, <2>3, <2>4 DEF Grows
<1> QED
  BY <1>4, <1>5, <1>6

\* The tuples that are written.
LEMMA SendsOne ==
  ASSUME Typed, NEW verb \in Verbs, NEW wait, Send(<<verb>>, wait), up' = up
  PROVE  Grows(1, {verb}) /\ pc' = wait /\ (up => Live'[Len(Live) + 1].verb = verb)
<1>1. PICK t : t = <<verb>>
  OBVIOUS
<1>2. t \in Seq(Verbs) /\ Len(t) = 1 /\ t[1] = verb
  BY <1>1
<1>3. Send(t, wait) /\ \A k \in 1 .. Len(t) : t[k] \in {verb}
  BY <1>1, <1>2
<1>4. /\ Grows(Len(t), {verb}) /\ pc' = wait
      /\ \A k \in 1 .. Len(t) : up => Live'[Len(Live) + k].verb = t[k]
  BY <1>2, <1>3, Sends
<1> QED
  BY <1>2, <1>4

LEMMA SendsTwo ==
  ASSUME Typed, NEW v \in Verbs, NEW w \in Verbs, NEW wait, Send(<<v, w>>, wait), up' = up
  PROVE  /\ Grows(2, {v, w}) /\ pc' = wait
         /\ up => Live'[Len(Live) + 1].verb = v /\ Live'[Len(Live) + 2].verb = w
<1>1. PICK t : t = <<v, w>>
  OBVIOUS
<1>2. t \in Seq(Verbs) /\ Len(t) = 2 /\ t[1] = v /\ t[2] = w
  BY <1>1
<1>3. Send(t, wait) /\ \A k \in 1 .. Len(t) : t[k] \in {v, w}
  BY <1>1, <1>2
<1>4. /\ Grows(Len(t), {v, w}) /\ pc' = wait
      /\ \A k \in 1 .. Len(t) : up => Live'[Len(Live) + k].verb = t[k]
  BY <1>2, <1>3, Sends
<1> QED
  BY <1>2, <1>4

LEMMA SendsNothing ==
  ASSUME Typed, UNCHANGED <<cmds, up>>, NEW set
  PROVE  Live' = Live /\ Grows(0, set)
<1>1. Live' = Live
  BY DEF Live
<1>2. PICK l : l = Live
  OBVIOUS
<1>3. \A i \in 1 .. Len(l) : ~(i > Len(l))
  BY <1>2, LinkType
<1>4. l \in Seq(Commands) /\ cmds' \in Seq(Commands) /\ up \in BOOLEAN
  BY <1>2, LinkType DEF Typed
<1> QED
  BY <1>1, <1>2, <1>3, <1>4 DEF Grows

LEMMA SendsEmpty ==
  ASSUME Typed, NEW wait, Send(<<>>, wait)
  PROVE  UNCHANGED cmds /\ pc' = wait
<1>1. [i \in DOMAIN <<>> |-> Plain(<<>>[i])] = <<>>
  OBVIOUS
<1>2. cmds \in Seq(Commands)
  BY DEF Typed
<1>3. cmds \o <<>> = cmds
  BY <1>2, ConcatEmptySeq
<1>4. cmds' = (IF up THEN cmds \o [i \in DOMAIN <<>> |-> Plain(<<>>[i])] ELSE cmds) /\ pc' = wait
  BY DEF Send
<1> QED
  BY <1>1, <1>3, <1>4

LEMMA ReadShifts ==
  ASSUME Typed, NEW wait, NEW codes, Read(wait, codes)
  PROVE  /\ Shifts /\ pc = wait /\ reps[1].code \in codes /\ Head(reps) = reps[1]
         /\ UNCHANGED <<up, server, taken>>
<1>1. reps \in Seq(Replies) /\ Len(reps) \in Nat
  BY LinkType
<1>2. reps # <<>> /\ reps' = Tail(reps)
  BY DEF Read
<1>3. PICK t : t = Tail(reps)
  OBVIOUS
<1>4. /\ t \in Seq(Replies) /\ Len(reps) # 0 /\ Len(t) = Len(reps) - 1
      /\ \A i \in 1 .. Len(t) : t[i] = reps[i + 1]
  BY <1>1, <1>2, <1>3
<1>5. Head(reps) = reps[1]
  BY <1>1, <1>2
<1> QED
  BY <1>2, <1>3, <1>4, <1>5 DEF Read, Shifts

\* The server answers the first command, and the answer is the last reply.
Serves(verb, a) ==
  /\ Answered(server, verb, a) /\ verb = Live[1].verb /\ Len(Live) # 0 /\ up
  /\ reps' \in Seq(Replies) /\ Len(reps') = Len(reps) + 1
  /\ reps'[Len(reps) + 1] = a.reply /\ \A i \in 1 .. Len(reps) : reps'[i] = reps[i]
  /\ server' = a.s
  /\ taken' = IF a.took = {} THEN taken ELSE taken + 1
  /\ cmds' \in Seq(Commands)
  /\ Len(Live') = IF verb = "QUIT" THEN 0 ELSE Len(Live) - 1
  /\ \A i \in 1 .. Len(Live') : Live'[i] = Live[i + 1]
  /\ up' = (verb # "QUIT")
  /\ UNCHANGED <<pc, flags, hosts, params, ext, msg, said>>

LEMMA ServerMoves ==
  ASSUME Typed, ServerStep
  PROVE  \E a, verb : Serves(verb, a)
<1>0. up /\ cmds # <<>> /\ cmds' = Tail(cmds) /\ up' = (Head(cmds).verb # "QUIT")
  BY DEF ServerStep
<1>1. Live = cmds /\ cmds \in Seq(Commands) /\ Head(cmds) \in Commands /\ Head(cmds) = cmds[1]
  BY <1>0 DEF Live, Typed
<1>2. PICK a \in Answers(server, Head(cmds)) :
        /\ reps' = Append(reps, a.reply) /\ server' = a.s
        /\ taken' = IF a.took = {} THEN taken ELSE taken + 1
  BY DEF ServerStep
<1>3. PICK verb : verb = Live[1].verb /\ verb = Head(cmds).verb
  BY <1>1
<1>4. Answered(server, verb, a)
  BY <1>1, <1>3, AnswersAre, LinkType
<1>5. reps \in Seq(Replies) /\ a.reply \in Replies
  BY <1>4, LinkType DEF Answered
<1>6. PICK r : r = Append(reps, a.reply)
  OBVIOUS
<1>7. /\ r \in Seq(Replies) /\ Len(r) = Len(reps) + 1
      /\ r[Len(reps) + 1] = a.reply /\ \A i \in 1 .. Len(reps) : r[i] = reps[i]
  BY <1>5, <1>6, AppendProperties
<1>8. PICK t : t = Tail(cmds)
  OBVIOUS
<1>9. /\ t \in Seq(Commands) /\ Len(cmds) # 0 /\ Len(t) = Len(cmds) - 1
      /\ \A i \in 1 .. Len(t) : t[i] = cmds[i + 1]
  BY <1>0, <1>1, <1>8
<1>10. Live' = IF verb = "QUIT" THEN <<>> ELSE t
  BY <1>0, <1>3, <1>8 DEF Live
<1>11. /\ Len(Live') = IF verb = "QUIT" THEN 0 ELSE Len(Live) - 1
       /\ \A i \in 1 .. Len(Live') : Live'[i] = Live[i + 1]
  <2>1. CASE verb = "QUIT"
    <3>1. Live' = <<>>
      BY <1>10, <2>1
    <3> QED
      BY <2>1, <3>1
  <2>2. CASE verb # "QUIT"
    BY <1>1, <1>9, <1>10, <2>2
  <2> QED
    BY <2>1, <2>2
<1>12. Len(Live) # 0 /\ up' = (verb # "QUIT") /\ cmds' \in Seq(Commands)
  BY <1>0, <1>1, <1>3, <1>8, <1>9
<1>13. UNCHANGED <<pc, flags, hosts, params, ext, msg, said>>
  BY DEF ServerStep
<1> QED
  BY <1>0, <1>2, <1>3, <1>4, <1>6, <1>7, <1>11, <1>12, <1>13 DEF Serves
-----------------------------------------------------------------------------
(***************************************************************************)
(* What most steps of the program have in common.                          *)
(***************************************************************************)
\* Nothing that matters for a transaction is written.
Small == {"EHLO", "HELO", "STARTTLS", "NOOP", "AUTH", "LOGIN", "QUIT"}

Finished == {"success", "failure", "aborted", "quit", "quit_success", "quit_failure", "host"}

LEMMA EndsKept ==
  ASSUME Typed, NEW n \in Nat, NEW set, Grows(n, set), set \cap EndVerbs = {}
  PROVE  /\ NoEnd => NoEnd'
         /\ \A i, j \in 1 .. Len(Live') :
              {Live'[i].verb, Live'[j].verb} \subseteq EndVerbs =>
                /\ i \in 1 .. Len(Live) /\ j \in 1 .. Len(Live)
                /\ {Live[i].verb, Live[j].verb} \subseteq EndVerbs
<1>1. Len(Live) \in Nat
  BY LinkType
<1>2. PICK l \in Nat, m \in Nat : l = Len(Live) /\ m = Len(Live')
  BY <1>1 DEF Grows
<1>3. \A i \in 1 .. m : Live'[i].verb \in EndVerbs => i \in 1 .. l /\ Live[i].verb \in EndVerbs
  BY <1>2 DEF Grows
<1>4. NoEnd => NoEnd'
  BY <1>2, <1>3 DEF NoEnd, EndVerbs
<1>5. ASSUME NEW i \in 1 .. Len(Live'), NEW j \in 1 .. Len(Live'),
             {Live'[i].verb, Live'[j].verb} \subseteq EndVerbs
      PROVE  /\ i \in 1 .. Len(Live) /\ j \in 1 .. Len(Live)
             /\ {Live[i].verb, Live[j].verb} \subseteq EndVerbs
  BY <1>2, <1>3, <1>5
<1> QED
  BY <1>4, <1>5

LEMMA OnceKept ==
  ASSUME Typed, Once, taken' = taken, NEW n \in Nat, NEW set, Grows(n, set),
         set \cap EndVerbs = {}, Unwritten' => Unwritten
  PROVE  Once'
<1>1. \A i, j \in 1 .. Len(Live') :
        {Live'[i].verb, Live'[j].verb} \subseteq EndVerbs => i = j
  BY EndsKept DEF Once
<1>2. taken' <= 1 /\ (taken' = 0 \/ NoEnd') /\ (Unwritten' => taken' = 0 /\ NoEnd')
  BY EndsKept DEF Once
<1> QED
  BY <1>1, <1>2 DEF Once

\* Of a program that has nothing more to send there is little to say.
LEMMA FinishedKeeps ==
  ASSUME Typed', Once', SentIsTaken', pc' \in Finished,
         pc' \in {"failure", "quit_failure"} => Hopeless'
  PROVE  IInv'
<1>1. Placed' /\ Awaits' /\ InTurn' /\ Failed'
  BY DEF Finished, Placed, Awaits, Early, InTurn, Failed
<1>2. Aligned'
  BY DEF Finished, Aligned
<1> QED
  BY <1>1, <1>2 DEF IInv

\* Where no end of the message was sent, a program that gives up is right to.
LEMMA GivesUp ==
  ASSUME IInv, Unwritten, Typed', SentIsTaken', taken' = taken, NEW n \in Nat, NEW set,
         Grows(n, set), set \cap EndVerbs = {}, pc' \in Finished
  PROVE  IInv'
<1>1. Typed /\ Once /\ taken = 0 /\ NoEnd
  BY DEF IInv, Once
<1>2. Once'
  BY <1>1, OnceKept
<1>3. NoEnd'
  BY <1>1, EndsKept
<1>4. pc' \in {"failure", "quit_failure"} => Hopeless'
  BY <1>1, <1>3 DEF Hopeless, Unwritten, Early
<1> QED
  BY <1>1, <1>2, <1>4, FinishedKeeps

\* From one state before the envelope to another.
LEMMA EarlyStays ==
  ASSUME IInv, pc \in Early, pc' \in Early, Typed', SentIsTaken', NEW n \in Nat,
         Grows(n, Small), UNCHANGED <<server, taken>>,
         IF pc' = "envelope"
         THEN /\ \A i \in 1 .. Len(Live') : Live'[i].verb = "NOOP"
              /\ \A i \in 1 .. Len(reps') : reps'[i].code = "250"
              /\ "noop" \in flags' \/ Due' = 0
         ELSE \/ Due' <= (IF pc' \in {"handshake", "ready"} THEN 0 ELSE 1)
              \/ pc' \in {"user", "auth"} /\ Blocked'
  PROVE  IInv'
<1>0. Typed /\ Once /\ Awaits /\ Len(Live) \in Nat
  BY LinkType DEF IInv
<1>1. Unwritten
  BY DEF Unwritten
<1>2. Once'
  BY <1>0, <1>1, OnceKept DEF Small, EndVerbs
<1>3. ~server'.mail
  BY <1>0 DEF Awaits
<1>4. \A i \in 1 .. Len(Live') :
        Live'[i].verb \notin {"MAIL", "RCPT", "DATA"} \cup EndVerbs
  <2>1. PICK l \in Nat, m \in Nat : l = Len(Live) /\ m = Len(Live')
    BY <1>0 DEF Grows
  <2>2. \A i \in 1 .. l :
          /\ Live'[i] = Live[i]
          /\ Live[i].verb \notin {"MAIL", "RCPT", "DATA"} \cup EndVerbs
    BY <1>0, <2>1 DEF Grows, Awaits
  <2>3. \A i \in 1 .. m : i > l => Live'[i].verb \in Small
    BY <2>1 DEF Grows
  <2>4. \A i \in 1 .. m : i \in 1 .. l \/ i > l
    BY <2>1
  <2> QED
    BY <2>1, <2>2, <2>3, <2>4 DEF Small, EndVerbs
<1>5. Awaits'
  BY <1>3, <1>4 DEF Awaits
<1>6. Placed' /\ InTurn' /\ Failed'
  BY DEF Early, Placed, InTurn, Failed
<1>7. Aligned'
  BY DEF Early, Aligned
<1> QED
  BY <1>2, <1>5, <1>6, <1>7 DEF IInv
-----------------------------------------------------------------------------
(***************************************************************************)
(* Up to the envelope.                                                     *)
(***************************************************************************)
States == Early \cup {"start", "host", "content", "mail", "rcpt", "data", "dot", "last", "quit",
                      "quit_success", "quit_failure", "success", "failure", "aborted"}

LEMMA StatesAre ==
  States = Waits \cup Ended \cup {"start", "host", "handshake", "ready", "envelope", "content"}
BY DEF States, Early, Waits, Ended

LEMMA TypedStays ==
  ASSUME Typed, pc' \in States, cmds' \in Seq(Commands), reps' \in Seq(Replies),
         up' \in BOOLEAN, UNCHANGED <<server, taken>>, flags' \subseteq KnownFlags,
         hosts' \in 0 .. MaxHosts, params' \subseteq Extensions, ext' \subseteq DOMAIN Use,
         msg' \in Spool!Store, said' \in BOOLEAN
  PROVE  Typed'
<1>1. TypeOK'
  BY StatesAre DEF Typed, TypeOK, Replies, Waits, Ended
<1>2. Sane(server)'
  BY DEF Typed, Sane
<1> QED
  BY <1>1, <1>2 DEF Typed

LEMMA TypedSame ==
  ASSUME Typed, pc' \in States, cmds' \in Seq(Commands), reps' \in Seq(Replies),
         up' \in BOOLEAN, UNCHANGED <<server, taken>>, SessionKept
  PROVE  Typed'
BY TypedStays DEF Typed, TypeOK, SessionKept

LEMMA SaysTheSame ==
  ASSUME SentIsTaken, UNCHANGED <<said, msg, taken>>,
         flags' = flags \/ flags' = flags \ {"use_esmtp"}
  PROVE  SentIsTaken'
<1>1. Shifted' = Shifted
  BY DEF Shifted
<1> QED
  BY <1>1 DEF SentIsTaken

LEMMA Connects ==
  ASSUME IInv, Unwritten, Connection, pc' = "greeting", flags' = flags, hosts' \in 0 .. MaxHosts,
         params' \subseteq Extensions, ext' \subseteq DOMAIN Use, UNCHANGED <<msg, taken, said>>
  PROVE  IInv'
<1>1. up' = TRUE /\ server' = Fresh /\ cmds' = <<>>
  BY DEF Connection
<1>2. reps' \in Seq(Replies) /\ Len(reps') \in 0 .. 1
  <2>1. CASE reps' = <<>>
    BY <2>1
  <2>2. CASE \E r \in Greetings : reps' = <<r>>
    <3>1. PICK r \in Greetings : reps' = <<r>>
      BY <2>2
    <3>2. r \in Replies
      BY CodesAre DEF Greetings, Replies, Reply, Refusals
    <3> QED
      BY <3>1, <3>2
  <2> QED
    BY <2>1, <2>2 DEF Connection
<1>3. Live' = <<>> /\ Len(Live') = 0
  BY <1>1 DEF Live
<1>4. server' \in Peer /\ Sane(server') /\ ~server'.mail
  BY <1>1 DEF Fresh, Peer, Sane
<1>5. Typed'
  <2>1. TypeOK'
    BY <1>1, <1>2, <1>4 DEF IInv, Typed, TypeOK, Replies, Waits
  <2>2. cmds' \in Seq(Commands)
    BY <1>1
  <2> QED
    BY <1>4, <2>1, <2>2 DEF Typed
<1>6. SentIsTaken'
  BY SaysTheSame DEF IInv
<1>7. Once'
  <2>1. NoEnd' /\ \A i \in 1 .. Len(Live') : FALSE
    BY <1>3 DEF NoEnd
  <2> QED
    BY <2>1 DEF IInv, Once
<1>8. Awaits'
  <2>1. Due' <= 1
    BY <1>2, <1>3 DEF Due
  <2>2. \A i \in 1 .. Len(Live') : FALSE
    BY <1>3
  <2> QED
    BY <1>4, <2>1, <2>2 DEF Awaits
<1>9. Placed' /\ InTurn' /\ Failed' /\ Aligned'
  BY DEF Placed, InTurn, Failed, Aligned
<1> QED
  BY <1>5, <1>6, <1>7, <1>8, <1>9 DEF IInv

LEMMA StartKeeps ==
  ASSUME IInv, Start
  PROVE  IInv'
<1>0. Typed /\ SentIsTaken /\ Unwritten
  BY DEF IInv, Start, Unwritten
<1>1. UNCHANGED <<flags, params, ext, msg, taken, said>>
  BY DEF Start
<1>2. CASE pc' = "greeting" /\ Connection /\ UNCHANGED hosts
  BY <1>0, <1>1, <1>2, Connects DEF Typed, TypeOK
<1>3. CASE hosts' \in 0 .. MaxHosts /\ pc' \in {"success", "host"} /\ UNCHANGED link
  <2>1. Grows(0, {}) /\ UNCHANGED <<cmds, reps, up, server>>
    BY <1>0, <1>3, SendsNothing DEF link
  <2>2. Typed'
    BY <1>0, <1>1, <1>3, <2>1, TypedStays DEF Typed, TypeOK, States, Replies
  <2> QED
    BY <1>0, <1>1, <1>3, <2>1, <2>2, GivesUp, SaysTheSame DEF Finished
<1> QED
  BY <1>2, <1>3 DEF Start

LEMMA ConnectKeeps ==
  ASSUME IInv, Connect
  PROVE  IInv'
<1>0. Typed /\ SentIsTaken /\ Unwritten /\ pc = "host"
  BY DEF IInv, Connect, Unwritten
<1>1. UNCHANGED <<flags, msg, taken, said>> /\ hosts' \in 0 .. MaxHosts
  BY <1>0, SndBoundAssumption DEF Connect, Typed, TypeOK
<1>2. CASE pc' = "greeting" /\ Connection /\ params' = {} /\ ext' = {}
  BY <1>0, <1>1, <1>2, Connects
<1>3. CASE UNCHANGED <<pc, link, params, ext>>
  <2>1. Grows(0, {}) /\ UNCHANGED <<cmds, reps, up, server>>
    BY <1>0, <1>3, SendsNothing DEF link
  <2>2. Typed'
    BY <1>0, <1>1, <1>3, <2>1, TypedStays DEF Typed, TypeOK, States, Replies
  <2> QED
    BY <1>0, <1>1, <1>3, <2>1, <2>2, GivesUp, SaysTheSame DEF Finished
<1> QED
  BY <1>2, <1>3 DEF Connect

LEMMA RanOutKeeps ==
  ASSUME IInv, RanOut
  PROVE  IInv'
<1>0. Typed /\ SentIsTaken /\ Unwritten /\ pc' = "success"
  BY DEF IInv, RanOut, Unwritten
<1>1. UNCHANGED <<flags, msg, taken, said>> /\ SessionKept
  BY DEF RanOut, SessionKept
<1>2. Grows(0, {}) /\ UNCHANGED <<cmds, reps, up, server>>
  BY <1>0, SendsNothing DEF link, RanOut
<1>3. Typed'
  BY <1>0, <1>1, <1>2, TypedSame DEF Typed, TypeOK, States, Replies
<1> QED
  BY <1>0, <1>1, <1>2, <1>3, GivesUp, SaysTheSame DEF Finished

\* The one reply that was due is read, and n commands are written.
LEMMA NoneLeft ==
  ASSUME Typed, Due <= 1, Shifts, UNCHANGED up, NEW n \in Nat, NEW set, Grows(n, set)
  PROVE  /\ Len(Live) = 0 /\ Len(reps') = 0 /\ Due' <= n
         /\ Len(Live') = IF up THEN n ELSE 0
<1>1. PICK l \in Nat, r \in Nat : l = Len(Live) /\ r = Len(reps) /\ r + l <= 1
  BY LinkType
<1>2. r # 0 /\ Len(reps') = r - 1
  BY <1>1 DEF Shifts
<1>3. l = 0 /\ Len(reps') = 0
  BY <1>1, <1>2
<1>4. Len(Live') = IF up THEN l + n ELSE l
  BY <1>1 DEF Grows
<1>5. Due' = Len(reps') + Len(Live')
  BY DEF Due
<1> QED
  BY <1>1, <1>3, <1>4, <1>5

\* Before the envelope one reply is due.
LEMMA OneDue ==
  ASSUME IInv, pc \in Early \ {"envelope", "user", "auth"}
  PROVE  Due <= 1
<1>1. Due <= (IF pc \in {"handshake", "ready"} THEN 0 ELSE 1)
  BY DEF IInv, Awaits
<1>2. Due \in Nat
  BY LinkType DEF IInv
<1> QED
  BY <1>1, <1>2

\* A reply is read, a command is written, and its reply is awaited.
LEMMA AsksNext ==
  ASSUME IInv, pc \in Early \ {"envelope"}, Due <= 1, NEW codes, Read(pc, codes),
         NEW verb \in Small, NEW wait \in Early \ {"envelope", "handshake", "ready"},
         Send(<<verb>>, wait), Typed', SentIsTaken'
  PROVE  IInv'
<1>1. Typed /\ UNCHANGED <<up, server, taken>> /\ verb \in Verbs /\ Shifts
  BY ReadShifts DEF IInv, Small, Verbs
<1>2. Grows(1, {verb}) /\ pc' = wait
  BY <1>1, SendsOne
<1>3. Grows(1, Small)
  BY <1>2 DEF Grows
<1>4. Due' <= 1
  BY <1>1, <1>3, NoneLeft
<1> QED
  BY <1>1, <1>2, <1>3, <1>4, EarlyStays

\* A reply is read, or missed, and nothing is written any more, or only QUIT.
LEMMA LeavesEarly ==
  ASSUME IInv, pc \in Early, UNCHANGED <<up, taken>>, Typed', SentIsTaken',
         pc' \in Finished, UNCHANGED cmds \/ Send(<<"QUIT">>, pc')
  PROVE  IInv'
<1>1. Typed /\ Unwritten
  BY DEF IInv, Unwritten
<1>2. \E n \in Nat : Grows(n, {"QUIT"})
  <2>1. CASE UNCHANGED cmds
    BY <1>1, <2>1, SendsNothing
  <2>2. CASE Send(<<"QUIT">>, pc')
    BY <1>1, <2>2, SendsOne DEF Verbs
  <2> QED
    BY <2>1, <2>2
<1> QED
  BY <1>1, <1>2, GivesUp DEF EndVerbs

\* What is written and read keeps its type.
LEMMA LinkKeepsType ==
  ASSUME Typed, UNCHANGED up, NEW verb \in Verbs, NEW wait,
         UNCHANGED cmds \/ Send(<<verb>>, wait)
  PROVE  cmds' \in Seq(Commands)
<1>1. CASE UNCHANGED cmds
  BY <1>1 DEF Typed
<1>2. CASE Send(<<verb>>, wait)
  BY <1>2, SendsOne DEF Grows
<1> QED
  BY <1>1, <1>2

LEMMA ReadKeepsType ==
  ASSUME Typed, NEW wait, NEW codes, Read(wait, codes) \/ Missing(wait)
  PROVE  reps' \in Seq(Replies) /\ UNCHANGED <<up, server, taken>> /\ up' \in BOOLEAN
<1>1. reps \in Seq(Replies) /\ up \in BOOLEAN
  BY LinkType
<1>2. CASE Read(wait, codes)
  BY <1>1, <1>2, ReadShifts DEF Shifts
<1>3. CASE Missing(wait)
  BY <1>1, <1>3 DEF Missing
<1> QED
  BY <1>2, <1>3

LEMMA GreetingAnsweredKeeps ==
  ASSUME IInv, GreetingAnswered
  PROVE  IInv'
<1>0. Typed /\ SentIsTaken /\ SessionKept /\ pc = "greeting" /\ pc \in Early
  BY DEF IInv, GreetingAnswered, Read, Missing, Early
<1>1. SentIsTaken' /\ UNCHANGED <<up, server, taken>> /\ reps' \in Seq(Replies) /\ up' \in BOOLEAN
  <2>1. Read("greeting", {"220"}) \/ Read("greeting", Codes \ {"220"}) \/ Missing("greeting")
    BY DEF GreetingAnswered
  <2>2. UNCHANGED <<up, server, taken>> /\ reps' \in Seq(Replies) /\ up' \in BOOLEAN
    BY <1>0, <2>1, ReadKeepsType
  <2> QED
    BY <1>0, <2>2, SaysTheSame DEF SessionKept
<1>2. CASE /\ Read("greeting", {"220"})
           /\ Send(<<"EHLO">>, "ehlo") \/ Send(<<"HELO">>, "helo")
  <2>1. PICK verb \in {"EHLO", "HELO"}, wait \in {"ehlo", "helo"} : Send(<<verb>>, wait)
    BY <1>2
  <2>2. verb \in Verbs /\ verb \in Small /\ wait \in Early \ {"envelope", "handshake", "ready"}
    BY DEF Verbs, Small, Early
  <2>3. Typed'
    BY <1>0, <1>1, <2>1, <2>2, TypedSame, LinkKeepsType DEF States, Send
  <2> QED
    BY <1>0, <1>1, <1>2, <2>1, <2>2, <2>3, AsksNext, OneDue
<1>3. CASE GiveUp /\ UNCHANGED cmds
  <2>1. pc' \in {"failure", "host"}
    BY <1>3 DEF GiveUp
  <2>2. Typed'
    BY <1>0, <1>1, <1>3, <2>1, TypedSame DEF States, Typed
  <2> QED
    BY <1>0, <1>1, <1>3, <2>1, <2>2, LeavesEarly DEF Finished
<1> QED
  BY <1>2, <1>3 DEF GreetingAnswered

LEMMA MergeType ==
  ASSUME NEW old \in SUBSET Extensions, NEW new \in SUBSET Extensions
  PROVE  Merge(old, new) \subseteq Extensions
BY DEF Merge

LEMMA AfterHelloKeeps ==
  ASSUME IInv, pc \in {"ehlo", "helo"}, Read(pc, {"250"}), AfterHello,
         UNCHANGED <<flags, hosts, msg, said>>, params' \subseteq Extensions
  PROVE  IInv'
<1>0. Typed /\ SentIsTaken /\ pc \in Early
  BY DEF IInv, Early
<1>1. /\ UNCHANGED <<up, server, taken>> /\ reps' \in Seq(Replies) /\ up' \in BOOLEAN
      /\ SentIsTaken' /\ Shifts
  BY <1>0, ReadKeepsType, SaysTheSame, ReadShifts
<1>2. ext' \subseteq DOMAIN Use
  BY DEF AfterHello, Extended
<1>3. ASSUME pc' \in States, cmds' \in Seq(Commands)
      PROVE  Typed'
  BY <1>0, <1>1, <1>2, <1>3, TypedStays DEF Typed, TypeOK
<1>4. CASE /\ pc' \in Finished
           /\ UNCHANGED cmds \/ Send(<<"QUIT">>, pc')
  <2>1. Typed'
    BY <1>0, <1>1, <1>3, <1>4, LinkKeepsType DEF Finished, States, Verbs
  <2> QED
    BY <1>0, <1>1, <1>4, <2>1, LeavesEarly
<1>5. CASE Send(<<"STARTTLS">>, "starttls")
  <2>1. Typed'
    BY <1>0, <1>1, <1>3, <1>5, LinkKeepsType DEF Early, States, Verbs, Send
  <2> QED
    BY <1>0, <1>1, <1>5, <2>1, AsksNext, OneDue DEF Small, Early
<1>6. CASE pc' = "ready" /\ UNCHANGED cmds
  <2>1. Typed'
    BY <1>0, <1>1, <1>3, <1>6 DEF Early, States, Typed
  <2>2. Grows(0, Small) /\ Due <= 1
    BY <1>0, <1>1, <1>6, SendsNothing, OneDue
  <2>3. Due' <= 0
    BY <1>0, <1>1, <2>2, NoneLeft
  <2> QED
    BY <1>0, <1>1, <1>6, <2>1, <2>2, <2>3, EarlyStays DEF Early
<1> QED
  <2>1. \/ GiveUp /\ UNCHANGED cmds
        \/ Send(<<"STARTTLS">>, "starttls")
        \/ Send(<<"QUIT">>, "quit_failure")
        \/ pc' = "ready" /\ UNCHANGED cmds
    BY DEF AfterHello
  <2>2. CASE GiveUp /\ UNCHANGED cmds
    BY <1>4, <2>2 DEF GiveUp, Finished
  <2>3. CASE Send(<<"QUIT">>, "quit_failure")
    BY <1>4, <2>3 DEF Send, Finished
  <2> QED
    BY <1>5, <1>6, <2>1, <2>2, <2>3

LEMMA EhloAnsweredKeeps ==
  ASSUME IInv, EhloAnswered
  PROVE  IInv'
<1>0. Typed /\ SentIsTaken /\ HostsKept /\ SpoolKept /\ params \in SUBSET Extensions
  BY DEF IInv, EhloAnswered, Typed, TypeOK
<1>1. CASE /\ reps # <<>> /\ params' = Merge(params, Head(reps).ext)
           /\ Read("ehlo", {"250"}) /\ UNCHANGED flags /\ AfterHello
  <2>1. pc = "ehlo" /\ Head(reps) = reps[1] /\ Len(reps) # 0
    BY <1>0, <1>1, ReadShifts DEF Shifts
  <2>2. Head(reps).ext \in SUBSET Extensions
    BY <1>0, <2>1, LinkType DEF Replies
  <2>3. params' \subseteq Extensions
    BY <1>0, <1>1, <2>2, MergeType
  <2> QED
    BY <1>0, <1>1, <2>1, <2>3, AfterHelloKeeps DEF HostsKept, SpoolKept
<1>2. CASE /\ Read("ehlo", Codes \ {"250"}) /\ UNCHANGED <<params, ext>>
           /\ IF "force_smtputf8" \in flags THEN GiveUp /\ UNCHANGED <<cmds, flags>>
              ELSE Send(<<"HELO">>, "helo") /\ flags' = flags \ {"use_esmtp"}
  <2>1. pc = "ehlo" /\ pc \in Early
    BY <1>2 DEF Read, Early
  <2>2. /\ UNCHANGED <<up, server, taken>> /\ reps' \in Seq(Replies) /\ up' \in BOOLEAN
        /\ SentIsTaken'
    BY <1>0, <1>2, ReadKeepsType, SaysTheSame DEF SpoolKept
  <2>3. ASSUME pc' \in States, cmds' \in Seq(Commands)
        PROVE  Typed'
    BY <1>0, <1>2, <2>2, <2>3, TypedStays DEF Typed, TypeOK, HostsKept, SpoolKept
  <2>4. CASE GiveUp /\ UNCHANGED <<cmds, flags>>
    <3>1. pc' \in {"failure", "host"}
      BY <2>4 DEF GiveUp
    <3>2. Typed'
      BY <1>0, <2>3, <2>4, <3>1 DEF States, Typed
    <3> QED
      BY <2>1, <2>2, <2>4, <3>1, <3>2, LeavesEarly DEF Finished
  <2>5. CASE Send(<<"HELO">>, "helo") /\ flags' = flags \ {"use_esmtp"}
    <3>1. Typed'
      BY <1>0, <2>2, <2>3, <2>5, LinkKeepsType DEF Early, States, Verbs, Send
    <3> QED
      BY <1>2, <2>1, <2>2, <2>5, <3>1, AsksNext, OneDue DEF Small, Early
  <2> QED
    BY <1>2, <2>4, <2>5
<1> QED
  BY <1>1, <1>2 DEF EhloAnswered

LEMMA HeloAnsweredKeeps ==
  ASSUME IInv, HeloAnswered
  PROVE  IInv'
<1>0. /\ Typed /\ SentIsTaken /\ UNCHANGED <<flags, hosts, params>> /\ SpoolKept
      /\ params \subseteq Extensions
  BY DEF IInv, HeloAnswered, Typed, TypeOK
<1>1. CASE Read("helo", {"250"}) /\ AfterHello
  BY <1>0, <1>1, AfterHelloKeeps DEF SpoolKept, Read
<1>2. CASE /\ Read("helo", Codes \ {"250"}) \/ Missing("helo")
           /\ GiveUp /\ UNCHANGED <<cmds, ext>>
  <2>1. pc = "helo" /\ pc \in Early /\ pc' \in {"failure", "host"}
    BY <1>2 DEF Read, Missing, Early, GiveUp
  <2>2. /\ UNCHANGED <<up, server, taken>> /\ reps' \in Seq(Replies) /\ up' \in BOOLEAN
        /\ SentIsTaken'
    BY <1>0, <1>2, ReadKeepsType, SaysTheSame DEF SpoolKept
  <2>3. Typed'
    BY <1>0, <1>2, <2>1, <2>2, TypedSame DEF SessionKept, SpoolKept, States, Typed
  <2> QED
    BY <1>2, <2>1, <2>2, <2>3, LeavesEarly DEF Finished
<1> QED
  BY <1>1, <1>2 DEF HeloAnswered

LEMMA StarttlsAnsweredKeeps ==
  ASSUME IInv, StarttlsAnswered
  PROVE  IInv'
<1>0. /\ Typed /\ SentIsTaken /\ SessionKept /\ Read("starttls", Codes)
      /\ pc' = "handshake" /\ UNCHANGED cmds
  BY DEF IInv, StarttlsAnswered
<1>1. /\ UNCHANGED <<up, server, taken>> /\ reps' \in Seq(Replies) /\ up' \in BOOLEAN
      /\ SentIsTaken' /\ Shifts /\ pc = "starttls"
  BY <1>0, ReadKeepsType, SaysTheSame, ReadShifts DEF SessionKept
<1>2. Typed'
  BY <1>0, <1>1, TypedSame DEF States, Early, Typed
<1>3. Grows(0, Small) /\ Due <= 1
  BY <1>0, <1>1, SendsNothing, OneDue DEF Early
<1>4. Due' <= 0
  BY <1>0, <1>1, <1>3, NoneLeft
<1> QED
  BY <1>0, <1>1, <1>2, <1>3, <1>4, EarlyStays DEF Early

LEMMA HandshakeKeeps ==
  ASSUME IInv, Handshake
  PROVE  IInv'
<1>0. /\ Typed /\ SentIsTaken /\ SessionKept /\ pc = "handshake" /\ pc \in Early
      /\ UNCHANGED <<reps, server, taken>> /\ Awaits /\ Once
  BY DEF IInv, Handshake, Early
<1>1. SentIsTaken' /\ reps' \in Seq(Replies) /\ Len(reps) = 0 /\ Len(Live) = 0
  <2>1. PICK l \in Nat, r \in Nat : l = Len(Live) /\ r = Len(reps) /\ Due = r + l
    BY <1>0, LinkType
  <2>2. r + l <= 0
    BY <1>0, <2>1 DEF Awaits
  <2>3. l = 0 /\ r = 0
    BY <2>1, <2>2
  <2> QED
    BY <1>0, <2>1, <2>3, SaysTheSame, LinkType DEF SessionKept
<1>2. ASSUME pc' \in States, cmds' \in Seq(Commands), up' \in BOOLEAN
      PROVE  Typed'
  BY <1>0, <1>1, <1>2, TypedSame
<1>3. CASE pc' = "aborted" /\ UNCHANGED <<cmds, up>>
  <2>1. Typed'
    BY <1>0, <1>2, <1>3 DEF States, Typed, TypeOK
  <2> QED
    BY <1>0, <1>1, <1>3, <2>1, LeavesEarly DEF Finished
<1>4. CASE UNCHANGED up /\ Send(<<"EHLO">>, "ehlo_tls")
  <2>1. Grows(1, {"EHLO"}) /\ pc' = "ehlo_tls"
    BY <1>0, <1>4, SendsOne DEF Verbs
  <2>2. Grows(1, Small)
    BY <2>1 DEF Grows, Small
  <2>3. Typed'
    BY <1>0, <1>2, <1>4, <2>1 DEF States, Early, Grows, Typed, TypeOK
  <2>4. Due' <= 1
    <3>1. PICK m \in Nat : m = Len(Live') /\ m <= 1
      BY <1>1, <2>1 DEF Grows
    <3>2. Len(reps') = 0 /\ Due' = Len(reps') + Len(Live')
      BY <1>0, <1>1 DEF Due
    <3> QED
      BY <3>1, <3>2
  <2> QED
    BY <1>0, <1>1, <2>1, <2>2, <2>3, <2>4, EarlyStays DEF Early
<1>5. CASE up' = FALSE /\ Send(<<>>, "ehlo_tls")
  <2>1. UNCHANGED cmds /\ pc' = "ehlo_tls"
    BY <1>0, <1>5, SendsEmpty
  <2>2. Live' = <<>>
    BY <1>5 DEF Live
  <2>3. PICK l : l = Live'
    OBVIOUS
  <2>4. Len(l) = 0 /\ \A i \in 1 .. Len(l) : FALSE
    BY <2>2, <2>3
  <2>5. Grows(0, Small)
    BY <1>0, <1>1, <2>1, <2>3, <2>4 DEF Grows, Typed
  <2>6. Typed'
    BY <1>0, <1>2, <1>5, <2>1 DEF States, Early, Typed
  <2>7. Due' <= 1
    BY <1>0, <1>1, <2>3, <2>4 DEF Due
  <2> QED
    BY <1>0, <1>1, <2>1, <2>5, <2>6, <2>7, EarlyStays DEF Early
<1> QED
  BY <1>3, <1>4, <1>5 DEF Handshake

LEMMA EhloTlsAnsweredKeeps ==
  ASSUME IInv, EhloTlsAnswered
  PROVE  IInv'
<1>0. /\ Typed /\ SentIsTaken /\ UNCHANGED <<flags, hosts, ext, cmds, msg, said>>
      /\ params' = Merge(params, Head(reps).ext) /\ Read("ehlo_tls", Codes)
      /\ pc' = "ready" /\ pc = "ehlo_tls" /\ params \in SUBSET Extensions
  BY DEF IInv, EhloTlsAnswered, Typed, TypeOK, SpoolKept
<1>1. /\ UNCHANGED <<up, server, taken>> /\ reps' \in Seq(Replies) /\ up' \in BOOLEAN
      /\ SentIsTaken' /\ Shifts /\ Head(reps) = reps[1]
  BY <1>0, ReadKeepsType, SaysTheSame, ReadShifts
<1>2. Head(reps).ext \in SUBSET Extensions
  BY <1>0, <1>1, LinkType DEF Shifts, Replies
<1>3. params' \subseteq Extensions
  BY <1>0, <1>2, MergeType
<1>4. Typed'
  BY <1>0, <1>1, <1>3, TypedStays DEF States, Early, Typed, TypeOK
<1>5. Grows(0, Small) /\ Due <= 1
  BY <1>0, <1>1, SendsNothing, OneDue DEF Early
<1>6. Due' <= 0
  BY <1>0, <1>1, <1>5, NoneLeft
<1> QED
  BY <1>0, <1>1, <1>4, <1>5, <1>6, EarlyStays DEF Early

\* A command with the NOOP before it, if there is one.
LEMMA NoopThen ==
  ASSUME Typed, NEW verb \in Small, NEW wait, Send(Noop \o <<verb>>, wait), UNCHANGED up
  PROVE  /\ pc' = wait
         /\ IF "noop" \in flags
            THEN Grows(2, Small) /\ (up => Live'[Len(Live) + 1].verb = "NOOP")
            ELSE Grows(1, Small)
<1>0. verb \in Verbs /\ "NOOP" \in Verbs /\ "NOOP" \in Small
  BY DEF Small, Verbs
<1>1. CASE "noop" \in flags
  <2>1. <<"NOOP">> \o <<verb>> = <<"NOOP", verb>>
    <3>1. PICK p, q : p = <<"NOOP">> /\ q = <<verb>>
      OBVIOUS
    <3>2. /\ p \in Seq(Verbs) /\ Len(p) = 1 /\ p[1] = "NOOP"
          /\ q \in Seq(Verbs) /\ Len(q) = 1 /\ q[1] = verb
      BY <1>0, <3>1
    <3>3. PICK t : t = p \o q
      OBVIOUS
    <3>4. t \in Seq(Verbs) /\ Len(t) = 2 /\ t[1] = "NOOP" /\ t[2] = verb
      <4>1. /\ t \in Seq(Verbs) /\ Len(t) = Len(p) + Len(q)
            /\ \A i \in 1 .. Len(p) + Len(q) : t[i] = IF i <= Len(p) THEN p[i] ELSE q[i - Len(p)]
        BY <3>2, <3>3, ConcatProperties
      <4>2. Len(t) = 2 /\ t[1] = p[1]
        BY <3>2, <4>1
      <4>3. t[2] = q[2 - 1]
        BY <3>2, <4>1
      <4> QED
        BY <3>2, <4>1, <4>2, <4>3
    <3>5. PICK u : u = <<"NOOP", verb>>
      OBVIOUS
    <3>6. u \in Seq(Verbs) /\ Len(u) = 2 /\ u[1] = "NOOP" /\ u[2] = verb
      BY <1>0, <3>5
    <3>7. \A i \in 1 .. Len(t) : i = 1 \/ i = 2
      BY <3>4
    <3>8. t = u
      BY <3>4, <3>6, <3>7, SeqEqual
    <3> QED
      BY <3>1, <3>3, <3>5, <3>8
  <2>2. Send(<<"NOOP", verb>>, wait)
    BY <1>1, <2>1 DEF Noop
  <2>3. /\ Grows(2, {"NOOP", verb}) /\ pc' = wait
        /\ up => Live'[Len(Live) + 1].verb = "NOOP"
    BY <1>0, <2>2, SendsTwo
  <2>4. Grows(2, Small)
    BY <1>0, <2>3 DEF Grows
  <2> QED
    BY <1>1, <2>3, <2>4
<1>2. CASE "noop" \notin flags
  <2>1. <<>> \o <<verb>> = <<verb>>
    BY <1>0, ConcatEmptySeq
  <2>2. Send(<<verb>>, wait)
    BY <1>2, <2>1 DEF Noop
  <2>3. Grows(1, {verb}) /\ pc' = wait
    BY <1>0, <2>2, SendsOne
  <2>4. Grows(1, Small)
    BY <2>3 DEF Grows
  <2> QED
    BY <1>2, <2>3, <2>4
<1> QED
  BY <1>1, <1>2

LEMMA NoopAlone ==
  ASSUME Typed, NEW wait, Send(Noop, wait), UNCHANGED up
  PROVE  /\ pc' = wait
         /\ IF "noop" \in flags THEN Grows(1, {"NOOP"}) ELSE Live' = Live /\ Grows(0, {"NOOP"})
<1>1. CASE "noop" \in flags
  BY <1>1, SendsOne DEF Noop, Verbs
<1>2. CASE "noop" \notin flags
  <2>1. UNCHANGED cmds /\ pc' = wait
    BY <1>2, SendsEmpty DEF Noop
  <2> QED
    BY <1>2, <2>1, SendsNothing
<1> QED
  BY <1>1, <1>2

LEMMA ReadyKeeps ==
  ASSUME IInv, Ready
  PROVE  IInv'
<1>0. /\ Typed /\ SentIsTaken /\ SessionKept /\ pc = "ready" /\ pc \in Early
      /\ UNCHANGED <<reps, up, server, taken>> /\ Awaits /\ Unwritten
      /\ flags' = flags
  BY DEF IInv, Ready, Early, SessionKept, Unwritten
<1>1. SentIsTaken' /\ reps = <<>> /\ Len(reps) = 0 /\ Len(Live) = 0 /\ up' \in BOOLEAN
  <2>1. PICK l \in Nat, r \in Nat : l = Len(Live) /\ r = Len(reps) /\ Due = r + l
    BY <1>0, LinkType
  <2>2. r + l <= 0
    BY <1>0, <2>1 DEF Awaits
  <2>3. l = 0 /\ r = 0
    BY <2>1, <2>2
  <2> QED
    BY <1>0, <2>1, <2>3, SaysTheSame, LinkType, EmptySeq DEF SessionKept
<1>2. ASSUME NEW n \in Nat, NEW set, Grows(n, set), pc' \in States
      PROVE  Typed'
  BY <1>0, <1>1, <1>2, TypedSame, LinkType DEF Grows
<1>3. ASSUME NEW n \in Nat, NEW set, Grows(n, set)
      PROVE  /\ Len(Live') = IF up THEN n ELSE 0
             /\ Due' = Len(Live') /\ Due' <= n
             /\ \A i \in 1 .. Len(Live') : Live'[i].verb \in set
  <2>1. PICK l : l = Len(Live') /\ l = IF up THEN n ELSE 0
    BY <1>1, <1>3 DEF Grows
  <2>2. Len(reps') = 0 /\ Due' = Len(reps') + Len(Live')
    BY <1>0, <1>1 DEF Due
  <2>3. \A i \in 1 .. l : i > Len(Live)
    BY <1>1, <2>1
  <2> QED
    BY <1>3, <2>1, <2>2, <2>3 DEF Grows
<1>4. ASSUME NEW wait \in Finished, Send(Noop \o <<"QUIT">>, wait)
      PROVE  IInv'
  <2>1. pc' = wait /\ \E n \in Nat : Grows(n, Small)
    BY <1>0, <1>4, NoopThen DEF Small
  <2>2. PICK n \in Nat : Grows(n, Small)
    BY <2>1
  <2>3. Typed'
    BY <1>2, <2>1, <2>2 DEF Finished, States
  <2> QED
    BY <1>0, <1>1, <2>1, <2>2, <2>3, GivesUp DEF Small, EndVerbs
<1>5. CASE Send(Noop, "envelope")
  <2>1. pc' = "envelope" /\ \E n \in Nat : Grows(n, {"NOOP"}) /\ (n = 0 \/ "noop" \in flags)
    BY <1>0, <1>5, NoopAlone
  <2>2. PICK n \in Nat : Grows(n, {"NOOP"}) /\ (n = 0 \/ "noop" \in flags)
    BY <2>1
  <2>3. Typed' /\ Grows(n, Small)
    BY <1>2, <2>1, <2>2 DEF States, Early, Grows, Small
  <2>4. PICK d \in Nat : d = Due' /\ d <= n
    <3>1. PICK m \in Nat : m = Len(Live')
      BY <1>3, <2>2
    <3> QED
      BY <1>3, <2>2, <3>1
  <2>5. "noop" \in flags' \/ Due' = 0
    BY <1>0, <2>2, <2>4
  <2>6. \A i \in 1 .. Len(Live') : Live'[i].verb = "NOOP"
    BY <1>3, <2>2
  <2>7. \A i \in 1 .. Len(reps') : FALSE
    BY <1>0, <1>1
  <2> QED
    BY <1>0, <1>1, <2>1, <2>3, <2>5, <2>6, <2>7, EarlyStays DEF Early
<1>6. ASSUME NEW verb \in {"AUTH", "LOGIN"}, NEW wait \in {"auth", "user"},
             Send(Noop \o <<verb>>, wait)
      PROVE  IInv'
  <2>1. /\ pc' = wait
        /\ IF "noop" \in flags
           THEN Grows(2, Small) /\ (up => Live'[Len(Live) + 1].verb = "NOOP")
           ELSE Grows(1, Small)
    BY <1>0, <1>6, NoopThen DEF Small
  <2>2. PICK n \in Nat : Grows(n, Small) /\ n = IF "noop" \in flags THEN 2 ELSE 1
    BY <2>1
  <2>3. Typed'
    BY <1>2, <2>1, <2>2 DEF States, Early
  <2>4. Due' <= 1 \/ Blocked'
    <3>1. CASE "noop" \notin flags
      BY <1>3, <2>2, <3>1
    <3>2. CASE ~up
      BY <1>3, <2>2, <3>2
    <3>3. CASE "noop" \in flags /\ up
      <4>0. Len(Live) + 1 = 1
        BY <1>1
      <4>1. Live'[1].verb = "NOOP"
        BY <2>1, <3>3, <4>0
      <4>2. Live' # <<>>
        <5>1. Len(Live') = 2
          BY <1>3, <2>2, <3>3
        <5> QED
          BY <5>1
      <4> QED
        BY <1>0, <1>1, <3>3, <4>1, <4>2 DEF Blocked
    <3> QED
      BY <1>0, <3>1, <3>2, <3>3, LinkType
  <2> QED
    BY <1>0, <1>1, <2>1, <2>2, <2>3, <2>4, EarlyStays DEF Early
<1> QED
  <2>1. \/ Send(Noop \o <<"QUIT">>, "quit_failure") \/ Send(Noop, "envelope")
        \/ Send(Noop \o <<"AUTH">>, "auth") \/ Send(Noop \o <<"LOGIN">>, "user")
        \/ Send(Noop \o <<"QUIT">>, "failure")
    BY DEF Ready
  <2> QED
    BY <1>4, <1>5, <1>6, <2>1 DEF Finished

LEMMA AuthAnsweredKeeps ==
  ASSUME IInv, AuthAnswered
  PROVE  IInv'
<1>0. Typed /\ SentIsTaken /\ SessionKept /\ flags' = flags
  BY DEF IInv, AuthAnswered, SessionKept
<1>r. PICK codes : Read(pc, codes) /\ pc \in {"user", "pass", "auth"}
  BY DEF AuthAnswered, Read
<1>1. /\ UNCHANGED <<up, server, taken>> /\ reps' \in Seq(Replies) /\ up' \in BOOLEAN
      /\ SentIsTaken' /\ Shifts /\ pc \in Early \ {"envelope"}
  BY <1>0, <1>r, ReadKeepsType, SaysTheSame, ReadShifts DEF SessionKept, Early
<1>2. ASSUME pc' \in States, cmds' \in Seq(Commands)
      PROVE  Typed'
  BY <1>0, <1>1, <1>2, TypedSame
<1>3. ASSUME NEW code \in {"334", "235"}, Read(pc, {code})
      PROVE  Due <= 1
  <2>1. reps[1].code = code /\ Len(reps) # 0 /\ Head(reps) = reps[1]
    BY <1>0, <1>3, ReadShifts DEF Shifts
  <2>2. reps # <<>>
    BY <2>1
  <2>3. ~Blocked
    BY <2>1, <2>2 DEF Blocked
  <2> QED
    BY <1>r, <1>1, <2>3 DEF IInv, Awaits
<1>4. ASSUME NEW verb \in {"LOGIN", "AUTH"}, NEW wait \in {"pass", "auth"}, Read(pc, {"334"}),
             Send(<<verb>>, wait)
      PROVE  IInv'
  <2>1. Typed'
    BY <1>0, <1>1, <1>2, <1>4, LinkKeepsType DEF States, Early, Verbs, Send
  <2> QED
    BY <1>1, <1>3, <1>4, <2>1, AsksNext DEF Small, Early
<1>5. CASE pc' = "aborted" /\ UNCHANGED cmds
  <2>1. Typed'
    BY <1>0, <1>2, <1>5 DEF States, Typed
  <2> QED
    BY <1>1, <1>5, <2>1, LeavesEarly DEF Finished
<1>6. CASE Read(pc, {"235"}) /\ pc' = "envelope" /\ UNCHANGED cmds
  <2>1. Typed'
    BY <1>0, <1>2, <1>6 DEF States, Early, Typed
  <2>2. Grows(0, Small) /\ Due <= 1
    BY <1>0, <1>1, <1>3, <1>6, SendsNothing
  <2>3. Len(reps') = 0 /\ Len(Live') = 0
    BY <1>0, <1>1, <2>2, NoneLeft
  <2>4. Due' = 0 /\ (\A i \in 1 .. Len(reps') : FALSE) /\ \A i \in 1 .. Len(Live') : FALSE
    BY <2>3 DEF Due
  <2> QED
    BY <1>1, <1>6, <2>1, <2>2, <2>4, EarlyStays DEF Early
<1>7. CASE Fail
  <2>1. pc' = "failure" /\ Send(<<"QUIT">>, pc')
    BY <1>7 DEF Fail, Send
  <2>2. Typed'
    BY <1>0, <1>1, <1>2, <1>7, <2>1, LinkKeepsType DEF States, Verbs, Fail
  <2> QED
    BY <1>1, <2>1, <2>2, LeavesEarly DEF Finished
<1> QED
  <2>1. \/ Read(pc, {"334"}) /\ Send(<<"LOGIN">>, "pass")
        \/ Read(pc, {"334"}) /\ Send(<<"AUTH">>, "auth")
        \/ pc' = "aborted" /\ UNCHANGED cmds
        \/ Read(pc, {"235"}) /\ pc' = "envelope" /\ UNCHANGED cmds
        \/ Fail
    BY DEF AuthAnswered, Read
  <2> QED
    BY <1>4, <1>5, <1>6, <1>7, <2>1
-----------------------------------------------------------------------------
(***************************************************************************)
(* The envelope and the message.                                           *)
(***************************************************************************)
Bad == IF "badpipline" \in flags THEN <<"NOOP", "NOOP">> ELSE <<>>

\* What is on its way after the envelope was written: NOOPs, and then the envelope.
LEMMA EnvelopeSent ==
  ASSUME IInv, pc = "envelope", NEW verbs \in Seq(Verbs), NEW wait, Send(Bad \o verbs, wait),
         UNCHANGED <<up, reps>>
  PROVE  /\ pc' = wait /\ cmds' \in Seq(Commands)
         /\ \E p \in Nat :
              /\ Len(Live') = IF up THEN p + Len(verbs) ELSE 0
              /\ \A i \in 1 .. Len(Live') : i <= p => Live'[i].verb = "NOOP"
              /\ \A k \in 1 .. Len(verbs) : up => Live'[p + k].verb = verbs[k]
              /\ ~Shifted => Len(reps) = 0 /\ p = 0
<1>0. Typed /\ Awaits /\ pc \in Early /\ Len(verbs) \in Nat
  BY DEF IInv, Early
<1>1. PICK b : b = Bad
  OBVIOUS
<1>2. /\ b \in Seq(Verbs) /\ \A i \in 1 .. Len(b) : b[i] = "NOOP"
      /\ Len(b) \in Nat /\ ("badpipline" \notin flags => Len(b) = 0)
  <2>1. CASE "badpipline" \in flags
    <3>1. b = <<"NOOP", "NOOP">>
      BY <1>1, <2>1 DEF Bad
    <3>2. b \in Seq(Verbs) /\ Len(b) = 2 /\ b[1] = "NOOP" /\ b[2] = "NOOP"
      BY <3>1 DEF Verbs
    <3> QED
      BY <2>1, <3>2
  <2>2. CASE "badpipline" \notin flags
    <3>1. b = <<>>
      BY <1>1, <2>2 DEF Bad
    <3> QED
      BY <3>1
  <2> QED
    BY <2>1, <2>2
<1>3. PICK t : t = b \o verbs
  OBVIOUS
<1>4. /\ t \in Seq(Verbs) /\ Len(t) = Len(b) + Len(verbs)
      /\ \A i \in 1 .. Len(b) : t[i] = b[i]
      /\ \A k \in 1 .. Len(verbs) : t[Len(b) + k] = verbs[k]
  BY <1>2, <1>3
<1>5. /\ Grows(Len(t), Verbs) /\ pc' = wait
      /\ \A k \in 1 .. Len(t) : up => Live'[Len(Live) + k].verb = t[k]
  <2>1. \A k \in 1 .. Len(t) : t[k] \in Verbs
    BY <1>4
  <2> QED
    BY <1>0, <1>1, <1>3, <1>4, <2>1, Sends
<1>6. PICK l \in Nat, n \in Nat, r \in Nat : l = Len(Live) /\ n = Len(b) /\ r = Len(verbs)
  BY <1>0, <1>2, LinkType
<1>7. Len(Live') = IF up THEN l + n + r ELSE 0
  <2>1. Len(t) = n + r
    BY <1>4, <1>6
  <2>2. Len(Live') = IF up THEN l + (n + r) ELSE l
    BY <1>5, <1>6, <2>1 DEF Grows
  <2>3. ~up => l = 0
    BY <1>0, <1>6, LinkType
  <2> QED
    BY <2>2, <2>3
<1>8. ASSUME NEW i \in 1 .. Len(Live'), i <= l + n
      PROVE  Live'[i].verb = "NOOP"
  <2>1. up /\ i \in 1 .. l + n
    BY <1>6, <1>7, <1>8, LinkType, <1>0
  <2>2. CASE i \in 1 .. l
    <3>1. Live'[i] = Live[i]
      BY <1>5, <1>6, <2>2 DEF Grows
    <3> QED
      BY <1>0, <1>6, <2>2, <3>1 DEF Awaits
  <2>3. CASE i \notin 1 .. l
    <3>1. PICK k : k = i - l
      OBVIOUS
    <3>2. k \in 1 .. n /\ i = l + k
      BY <1>6, <2>1, <2>3, <3>1
    <3>3. k \in 1 .. Len(t) /\ t[k] = "NOOP"
      BY <1>2, <1>4, <1>6, <3>2
    <3> QED
      BY <1>5, <1>6, <2>1, <3>2, <3>3
  <2> QED
    BY <2>2, <2>3
<1>9. ASSUME NEW k \in 1 .. Len(verbs), up
      PROVE  Live'[l + n + k].verb = verbs[k]
  <2>1. PICK j : j = n + k
    OBVIOUS
  <2>2. j \in 1 .. Len(t) /\ t[j] = verbs[k] /\ l + n + k = l + j
    BY <1>4, <1>6, <2>1
  <2> QED
    BY <1>5, <1>6, <1>9, <2>2
<1>10. ~Shifted => Len(reps) = 0 /\ l + n = 0
  <2>1. CASE ~Shifted
    <3>1. "noop" \notin flags /\ "badpipline" \notin flags
      BY <2>1 DEF Shifted
    <3>2. Due = 0 /\ n = 0 /\ Due = Len(reps) + l /\ Len(reps) \in Nat
      BY <1>0, <1>2, <1>6, <3>1, LinkType DEF Awaits
    <3> QED
      BY <3>2
  <2> QED
    BY <2>1
<1>11. cmds' \in Seq(Commands)
  BY <1>5 DEF Grows
<1>12. PICK p \in Nat : p = l + n
  BY <1>6
<1>13. /\ Len(Live') = IF up THEN p + Len(verbs) ELSE 0
       /\ \A i \in 1 .. Len(Live') : i <= p => Live'[i].verb = "NOOP"
       /\ \A k \in 1 .. Len(verbs) : up => Live'[p + k].verb = verbs[k]
       /\ ~Shifted => Len(reps) = 0 /\ p = 0
  BY <1>6, <1>7, <1>8, <1>9, <1>10, <1>12
<1> QED
  BY <1>5, <1>11, <1>13

\* Where the end of the message is not written ahead, little needs to be known.
LEMMA EnvelopeNoEnd ==
  ASSUME IInv, pc = "envelope", UNCHANGED taken, NEW p \in Nat, NEW verbs \in Seq(Verbs),
         Len(Live') = IF up THEN p + Len(verbs) ELSE 0,
         \A i \in 1 .. Len(Live') : i <= p => Live'[i].verb = "NOOP",
         \A k \in 1 .. Len(verbs) : (up => Live'[p + k].verb = verbs[k]) /\ verbs[k] \notin EndVerbs
  PROVE  /\ Once'
         /\ \A i \in 1 .. Len(Live') :
              \/ Live'[i].verb = "NOOP"
              \/ i > p /\ i - p \in 1 .. Len(verbs) /\ Live'[i].verb = verbs[i - p]
<1>0. taken = 0
  BY DEF IInv, Once, Unwritten, Early
<1>1. ASSUME NEW i \in 1 .. Len(Live')
      PROVE  \/ Live'[i].verb = "NOOP"
             \/ /\ i > p /\ i - p \in 1 .. Len(verbs) /\ Live'[i].verb = verbs[i - p]
                /\ verbs[i - p] \notin EndVerbs
  <2>0. PICK r \in Nat : r = Len(verbs)
    OBVIOUS
  <2>1. up /\ i \in 1 .. p + r
    BY <1>1, <2>0
  <2>2. CASE i <= p
    BY <2>2
  <2>3. CASE i > p
    <3>1. PICK k : k = i - p
      OBVIOUS
    <3>2. k \in 1 .. r /\ i = p + k
      BY <2>1, <2>3, <3>1
    <3> QED
      BY <2>0, <2>1, <2>3, <3>1, <3>2
  <2> QED
    BY <2>1, <2>2, <2>3
<1>2. NoEnd'
  BY <1>1 DEF NoEnd, EndVerbs
<1>3. Once'
  BY <1>0, <1>2 DEF Once, NoEnd, EndVerbs
<1> QED
  BY <1>1, <1>3

LEMMA EnvelopeKeeps ==
  ASSUME IInv, Envelope
  PROVE  IInv'
<1>0. /\ Typed /\ SentIsTaken /\ SessionKept /\ pc = "envelope" /\ pc \in Early
      /\ UNCHANGED <<reps, up, server, taken, flags, ext>> /\ Awaits /\ Once /\ Unwritten
  BY DEF IInv, Envelope, Early, SessionKept, Unwritten
<1>1. /\ SentIsTaken' /\ reps' \in Seq(Replies) /\ up' \in BOOLEAN /\ taken = 0
      /\ ~server.mail /\ ~server.rcpt
      /\ \A i \in 1 .. Len(reps) : reps[i].code = "250"
  BY <1>0, SaysTheSame, LinkType DEF SessionKept, Once, Awaits, Sane
<1>2. ASSUME pc' \in States, cmds' \in Seq(Commands)
      PROVE  Typed'
  BY <1>0, <1>1, <1>2, TypedSame
<1>3. Pipelined' = Pipelined /\ Chunked' = Chunked /\ BadDad' = BadDad /\ Shifted' = Shifted
  BY <1>0 DEF Pipelined, Chunked, BadDad, Shifted
<1>4. CASE pc' = "aborted" /\ UNCHANGED cmds
  <2>1. Typed'
    BY <1>0, <1>2, <1>4 DEF States, Typed
  <2> QED
    BY <1>0, <1>1, <1>4, <2>1, LeavesEarly DEF Finished
<1>5. CASE Send(<<"QUIT">>, "quit_failure")
  <2>1. Typed' /\ pc' = "quit_failure"
    BY <1>0, <1>2, <1>5, LinkKeepsType DEF States, Verbs, Send
  <2> QED
    BY <1>0, <1>1, <1>5, <2>1, LeavesEarly DEF Finished
<1>6. ASSUME Once', pc' = "mail", ~Chunked, cmds' \in Seq(Commands),
             "nosend" \in flags \/ BadDad
      PROVE  IInv'
  <2>1. Typed'
    BY <1>2, <1>6 DEF States
  <2>2. Placed' /\ Awaits' /\ Failed' /\ InTurn'
    BY <1>3, <1>6 DEF Placed, Awaits, Failed, InTurn, Early
  <2>3. Aligned'
    BY <1>0, <1>3, <1>6 DEF Aligned
  <2> QED
    BY <1>1, <1>6, <2>1, <2>2, <2>3 DEF IInv
<1>7. CASE ~Pipelined /\ Send(Bad \o <<"MAIL">>, "mail")
  <2>1. PICK verbs : verbs = <<"MAIL">>
    OBVIOUS
  <2>2. verbs \in Seq(Verbs) /\ Len(verbs) = 1 /\ verbs[1] = "MAIL"
    BY <2>1 DEF Verbs
  <2>3. /\ pc' = "mail" /\ cmds' \in Seq(Commands)
        /\ \E p \in Nat :
              /\ Len(Live') = IF up THEN p + Len(verbs) ELSE 0
              /\ \A i \in 1 .. Len(Live') : i <= p => Live'[i].verb = "NOOP"
              /\ \A k \in 1 .. Len(verbs) : up => Live'[p + k].verb = verbs[k]
              /\ ~Shifted => Len(reps) = 0 /\ p = 0
    BY <1>0, <1>7, <2>1, <2>2, EnvelopeSent
  <2>4. PICK p \in Nat :
              /\ Len(Live') = IF up THEN p + Len(verbs) ELSE 0
              /\ \A i \in 1 .. Len(Live') : i <= p => Live'[i].verb = "NOOP"
              /\ \A k \in 1 .. Len(verbs) : up => Live'[p + k].verb = verbs[k]
              /\ ~Shifted => Len(reps) = 0 /\ p = 0
    BY <2>3
  <2>5. \A k \in 1 .. Len(verbs) : verbs[k] \notin EndVerbs
    BY <2>2 DEF EndVerbs
  <2>6. /\ Once'
        /\ \A i \in 1 .. Len(Live') :
             \/ Live'[i].verb = "NOOP"
             \/ i > p /\ i - p \in 1 .. Len(verbs) /\ Live'[i].verb = verbs[i - p]
    BY <1>0, <2>2, <2>4, <2>5, EnvelopeNoEnd
  <2>7. \A i \in 1 .. Len(Live') : Live'[i].verb = "NOOP" \/ (i = p + 1 /\ Live'[i].verb = "MAIL")
    <3>1. \A i \in Int : i - p \in 1 .. 1 => i = p + 1 /\ i - p = 1
      OBVIOUS
    <3>2. \A i \in 1 .. Len(Live') : i \in Int
      OBVIOUS
    <3> QED
      BY <2>2, <2>6, <3>1, <3>2
  <2>8. InTurn'
    <3>1. /\ \A i \in 1 .. Len(Live') : Live'[i].verb \in {"NOOP", "MAIL", "RCPT", "LAST", "QUIT"}
          /\ \A i \in 1 .. Len(Live') : Live'[i].verb = "MAIL" =>
               ~server'.mail /\ taken' = 0
                 /\ \A j \in 1 .. Len(Live') : Live'[j].verb = "MAIL" => i = j
          /\ \A i \in 1 .. Len(Live') : Live'[i].verb \notin {"RCPT", "QUIT"}
          /\ \A i \in 1 .. Len(reps') : reps'[i].code = "250"
          /\ ~server'.rcpt
      BY <1>0, <1>1, <2>7
    <3> QED
      BY <2>3, <3>1 DEF InTurn, NoRecipient, NoVerb
  <2>9. Aligned'
    <3>1. ~Shifted' => Due' <= 1 /\ (up' => Due' = 1)
      <4>1. CASE ~Shifted
        <5>1. Len(reps') = 0 /\ Len(Live') = IF up THEN 1 ELSE 0
          BY <1>0, <2>2, <2>4, <4>1
        <5>2. Due' = Len(reps') + Len(Live')
          BY DEF Due
        <5> QED
          BY <1>0, <1>1, <5>1, <5>2
      <4> QED
        BY <1>3, <4>1
    <3>2. Unwritten' /\ Expected' = 1
      BY <1>3, <1>7, <2>3 DEF Unwritten, Ahead, Expected
    <3> QED
      BY <2>3, <3>1, <3>2 DEF Aligned
  <2>10. Placed' /\ Awaits' /\ Failed' /\ Typed'
    BY <1>2, <2>3 DEF Placed, Awaits, Failed, Early, States
  <2> QED
    BY <1>1, <2>6, <2>8, <2>9, <2>10 DEF IInv
<1>8. CASE Pipelined /\ "nosend" \in flags /\ Send(Bad \o <<"MAIL", "RCPT", "QUIT">>, "mail")
  <2>1. PICK verbs : verbs = <<"MAIL", "RCPT", "QUIT">>
    OBVIOUS
  <2>2. /\ verbs \in Seq(Verbs) /\ Len(verbs) = 3 /\ verbs[1] = "MAIL" /\ verbs[2] = "RCPT"
        /\ verbs[3] = "QUIT"
    BY <2>1 DEF Verbs
  <2>3. /\ pc' = "mail" /\ cmds' \in Seq(Commands)
        /\ \E p \in Nat :
              /\ Len(Live') = IF up THEN p + Len(verbs) ELSE 0
              /\ \A i \in 1 .. Len(Live') : i <= p => Live'[i].verb = "NOOP"
              /\ \A k \in 1 .. Len(verbs) : up => Live'[p + k].verb = verbs[k]
              /\ ~Shifted => Len(reps) = 0 /\ p = 0
    BY <1>0, <1>8, <2>1, <2>2, EnvelopeSent
  <2>4. \A k \in 1 .. Len(verbs) : verbs[k] \notin EndVerbs
    BY <2>2 DEF EndVerbs
  <2>5. Once'
    BY <1>0, <2>2, <2>3, <2>4, EnvelopeNoEnd
  <2> QED
    BY <1>6, <1>8, <2>3, <2>5 DEF Chunked
<1>9. CASE /\ Pipelined /\ "nosend" \notin flags
           /\ Send(Bad \o <<"MAIL", "RCPT">>, IF BadDad THEN "mail" ELSE "content")
  <2>1. PICK verbs : verbs = <<"MAIL", "RCPT">>
    OBVIOUS
  <2>2. verbs \in Seq(Verbs) /\ Len(verbs) = 2 /\ verbs[1] = "MAIL" /\ verbs[2] = "RCPT"
    BY <2>1 DEF Verbs
  <2>3. /\ pc' = (IF BadDad THEN "mail" ELSE "content") /\ cmds' \in Seq(Commands)
        /\ \E p \in Nat :
              /\ Len(Live') = IF up THEN p + Len(verbs) ELSE 0
              /\ \A i \in 1 .. Len(Live') : i <= p => Live'[i].verb = "NOOP"
              /\ \A k \in 1 .. Len(verbs) : up => Live'[p + k].verb = verbs[k]
              /\ ~Shifted => Len(reps) = 0 /\ p = 0
    BY <1>0, <1>9, <2>1, <2>2, EnvelopeSent
  <2>4. PICK p \in Nat :
              /\ Len(Live') = IF up THEN p + Len(verbs) ELSE 0
              /\ \A i \in 1 .. Len(Live') : i <= p => Live'[i].verb = "NOOP"
              /\ \A k \in 1 .. Len(verbs) : up => Live'[p + k].verb = verbs[k]
              /\ ~Shifted => Len(reps) = 0 /\ p = 0
    BY <2>3
  <2>5. \A k \in 1 .. Len(verbs) : verbs[k] \notin EndVerbs
    BY <2>2 DEF EndVerbs
  <2>6. /\ Once'
        /\ \A i \in 1 .. Len(Live') :
             \/ Live'[i].verb = "NOOP"
             \/ i > p /\ i - p \in 1 .. Len(verbs) /\ Live'[i].verb = verbs[i - p]
    BY <1>0, <2>2, <2>4, <2>5, EnvelopeNoEnd
  <2>7. CASE BadDad
    BY <1>6, <2>3, <2>6, <2>7 DEF Chunked
  <2>8. CASE ~BadDad
    <3>1. pc' = "content"
      BY <2>3, <2>8
    <3>2. \A i \in 1 .. Len(Live') :
            \/ Live'[i].verb = "NOOP"
            \/ i = p + 1 /\ Live'[i].verb = "MAIL"
            \/ i = p + 2 /\ Live'[i].verb = "RCPT"
      <4>1. \A i \in Int : i - p \in 1 .. 2 => (i = p + 1 /\ i - p = 1) \/ (i = p + 2 /\ i - p = 2)
        OBVIOUS
      <4>2. \A i \in 1 .. Len(Live') : i \in Int
        OBVIOUS
      <4> QED
        BY <2>2, <2>6, <4>1, <4>2
    <3>3. up' => Due' >= 2
      <4>1. CASE up
        <5>1. PICK r \in Nat, l \in Nat : r = Len(reps) /\ l = Len(Live') /\ l = p + 2
          BY <1>0, <2>2, <2>4, <4>1, LinkType
        <5>2. Due' = r + l
          BY <1>0, <5>1 DEF Due
        <5> QED
          BY <5>1, <5>2
      <4> QED
        BY <1>0, <4>1
    <3>4. InTurn'
      <4>1. /\ \A i \in 1 .. Len(Live') : Live'[i].verb \in {"NOOP", "MAIL", "RCPT", "LAST", "QUIT"}
            /\ \A i \in 1 .. Len(Live') : Live'[i].verb = "MAIL" =>
                 ~server'.mail /\ taken' = 0
                   /\ \A j \in 1 .. Len(Live') : Live'[j].verb = "MAIL" => i = j
            /\ \A i \in 1 .. Len(Live') : Live'[i].verb = "RCPT" =>
                 ~server'.rcpt /\ taken' = 0
                   /\ \A j \in 1 .. Len(Live') : Live'[j].verb = "RCPT" => i = j
            /\ \A i \in 1 .. Len(Live') : Live'[i].verb # "QUIT"
            /\ \A i \in 1 .. Len(reps') : reps'[i].code = "250"
        BY <1>0, <1>1, <3>2
      <4> QED
        BY <3>1, <3>3, <4>1 DEF InTurn
    <3>5. Aligned'
      <4>1. ~Shifted' => Due' <= 2 /\ (up' => Due' = 2)
        <5>1. CASE ~Shifted
          <6>1. Len(reps') = 0 /\ Len(Live') = IF up THEN 2 ELSE 0
            BY <1>0, <2>2, <2>4, <5>1
          <6>2. Due' = Len(reps') + Len(Live')
            BY DEF Due
          <6> QED
            BY <1>0, <1>1, <6>1, <6>2
        <5> QED
          BY <1>3, <5>1
      <4>2. Expected' = 2
        BY <1>3, <1>9, <3>1 DEF Expected
      <4> QED
        BY <3>1, <4>1, <4>2 DEF Aligned
    <3>6. Placed' /\ Awaits' /\ Failed' /\ Typed'
      BY <1>0, <1>2, <1>3, <1>9, <2>3, <2>8, <3>1 DEF Placed, Awaits, Failed, Early, States
    <3> QED
      BY <1>1, <2>6, <3>4, <3>5, <3>6 DEF IInv
  <2> QED
    BY <2>7, <2>8
<1> QED
  <2>1. \/ pc' = "aborted" /\ UNCHANGED cmds
        \/ Send(<<"QUIT">>, "quit_failure")
        \/ ~Pipelined /\ Send(Bad \o <<"MAIL">>, "mail")
        \/ Pipelined /\ "nosend" \in flags /\ Send(Bad \o <<"MAIL", "RCPT", "QUIT">>, "mail")
        \/ /\ Pipelined /\ "nosend" \notin flags
           /\ Send(Bad \o <<"MAIL", "RCPT">>, IF BadDad THEN "mail" ELSE "content")
    BY DEF Envelope, Bad
  <2> QED
    BY <1>4, <1>5, <1>7, <1>8, <1>9, <2>1

\* Nothing has become of the message, and nothing will.
LEMMA Despairs ==
  ASSUME Typed, Hopeless, pc' \in {"failure", "quit_failure"}, UNCHANGED <<server, taken>>,
         NEW n \in Nat, NEW set, Grows(n, set), set \cap (EndVerbs \cup {"MAIL", "RCPT"}) = {}
  PROVE  Hopeless'
<1>1. ~Unwritten'
  BY DEF Unwritten, Early
<1>2. NoEnd => NoEnd'
  BY EndsKept
<1>3. \A i \in 1 .. Len(Live') :
        (i \in 1 .. Len(Live) /\ Live'[i].verb = Live[i].verb) \/ Live'[i].verb \in set
  <2>1. PICK l \in Nat, m \in Nat : l = Len(Live) /\ m = Len(Live')
    BY LinkType DEF Grows
  <2> QED
    BY <2>1 DEF Grows
<1>4. NoVerb("MAIL") => NoVerb("MAIL")'
  BY <1>3 DEF NoVerb
<1>5. NoVerb("RCPT") => NoVerb("RCPT")'
  BY <1>3 DEF NoVerb
<1>6. NoSender => NoSender'
  BY <1>4 DEF NoSender
<1>7. NoRecipient => NoRecipient'
  BY <1>5 DEF NoRecipient
<1> QED
  BY <1>1, <1>2, <1>6, <1>7 DEF Hopeless

\* fail() and what ends without a QUIT, after a reply was read or missed.
LEMMA LeavesLate ==
  ASSUME IInv, Typed', SentIsTaken', UNCHANGED <<up, server, taken>>, pc' \in Finished \ {"host"},
         UNCHANGED cmds \/ Send(<<"QUIT">>, pc'),
         pc' \in {"failure", "quit_failure"} => Unwritten \/ Hopeless
  PROVE  IInv'
<1>0. Typed /\ Once
  BY DEF IInv
<1>1. PICK n \in Nat : Grows(n, {"QUIT"})
  <2>1. CASE UNCHANGED cmds
    BY <1>0, <2>1, SendsNothing
  <2>2. CASE Send(<<"QUIT">>, pc')
    BY <1>0, <2>2, SendsOne DEF Verbs
  <2> QED
    BY <2>1, <2>2
<1>2. CASE Unwritten
  BY <1>1, <1>2, GivesUp DEF EndVerbs
<1>3. CASE ~Unwritten
  <2>1. ~Unwritten'
    BY DEF Unwritten, Early, Finished
  <2>2. Once'
    BY <1>0, <1>1, <2>1, OnceKept DEF EndVerbs
  <2>3. pc' \in {"failure", "quit_failure"} => Hopeless'
    BY <1>0, <1>1, <1>3, Despairs DEF EndVerbs
  <2> QED
    BY <2>2, <2>3, FinishedKeeps
<1> QED
  BY <1>2, <1>3

\* A reply that will not do is one that says that the message is not taken.
LEMMA RefusalCounts ==
  ASSUME IInv, pc \in {"mail", "rcpt", "data", "last"}, Len(reps) # 0, reps[1].code # "250"
  PROVE  Unwritten \/ Hopeless
<1>1. CASE pc = "data" \/ (pc \in {"mail", "rcpt"} /\ ~Ahead)
  BY <1>1 DEF Unwritten
<1>2. CASE pc = "last" \/ (pc \in {"mail", "rcpt"} /\ Ahead)
  <2>1. Chunked
    BY <1>2 DEF IInv, Placed, Ahead
  <2>2. 1 \in 1 .. Len(reps) /\ 1 <= Needed
    <3>1. Len(reps) \in Nat
      BY LinkType DEF IInv
    <3> QED
      BY <1>2, <3>1 DEF Needed
  <2>3. InTurn
    BY DEF IInv
  <2>4. \A i \in 1 .. Len(reps) : i <= Needed => reps[i].code = "250" \/ Hopeless
    BY <1>2, <2>1, <2>3 DEF InTurn
  <2> QED
    BY <2>2, <2>4
<1> QED
  BY <1>1, <1>2

\* A refusal is read, and QUIT is written.
LEMMA FailKeeps ==
  ASSUME IInv, pc \in {"mail", "rcpt", "data", "last"}, NEW codes, Read(pc, codes), Fail,
         "250" \notin codes, SessionKept
  PROVE  IInv'
<1>0. Typed /\ SentIsTaken
  BY DEF IInv
<1>1. /\ UNCHANGED <<up, server, taken>> /\ reps' \in Seq(Replies) /\ up' \in BOOLEAN
      /\ SentIsTaken' /\ Shifts /\ reps[1].code # "250" /\ Len(reps) # 0
  BY <1>0, ReadKeepsType, SaysTheSame, ReadShifts DEF SessionKept, Shifts
<1>2. pc' = "failure" /\ Send(<<"QUIT">>, pc')
  BY DEF Fail, Send
<1>3. Typed'
  BY <1>0, <1>1, <1>2, TypedSame, LinkKeepsType DEF States, Verbs
<1> QED
  BY <1>1, <1>2, <1>3, RefusalCounts, LeavesLate DEF Finished

\* A reply is read and nothing is written: the rest moves up by one.
LEMMA InTurnShifts ==
  ASSUME IInv, Shifts, UNCHANGED <<server, taken, up>>, Live' = Live,
         UNCHANGED <<flags, ext>>, pc \in {"mail", "rcpt"}, Needed' = Needed - 1,
         pc' # "mail", pc' = "content" => ~Pipelined, Unwritten' => Unwritten
  PROVE  InTurn'
<1>1. CASE Chunked /\ pc' \in {"rcpt", "content", "last"}
  <2>0. InTurn /\ Typed
    BY DEF IInv
  <2>1. PICK r \in Nat, n \in Nat :
          r = Len(reps) /\ n = Needed /\ r # 0 /\ Len(reps') = r - 1 /\ Needed' = n - 1
    BY <2>0, LinkType DEF Shifts, Needed
  <2>2. Hopeless => Hopeless'
    BY DEF Hopeless, NoSender, NoRecipient, NoEnd, NoVerb, Pipelined
  <2>3. ASSUME NEW i \in 1 .. Len(reps'), i <= Needed'
        PROVE  reps'[i].code = "250" \/ Hopeless'
    <3>1. i + 1 \in 1 .. Len(reps) /\ i + 1 <= Needed /\ reps'[i] = reps[i + 1]
      BY <2>1, <2>3 DEF Shifts
    <3> QED
      BY <1>1, <2>0, <2>2, <3>1 DEF InTurn
  <2>4. ASSUME NEW i \in 1 .. Len(Live'), Live'[i].verb = "QUIT"
        PROVE  Len(reps') + i > Needed'
    <3>1. Len(reps) + i > Needed
      BY <1>1, <2>0, <2>4 DEF InTurn
    <3>2. i \in Nat
      BY <2>0, LinkType
    <3> QED
      BY <2>1, <3>1, <3>2
  <2>5. /\ \A i \in 1 .. Len(Live') : Live'[i].verb \in {"NOOP", "MAIL", "RCPT", "LAST", "QUIT"}
        /\ \A i \in 1 .. Len(Live') : Live'[i].verb = "MAIL" =>
             ~server'.mail /\ taken' = 0
               /\ \A j \in 1 .. Len(Live') : Live'[j].verb = "MAIL" => i = j
        /\ \A i \in 1 .. Len(Live') : Live'[i].verb = "RCPT" =>
             ~server'.rcpt /\ taken' = 0
               /\ \A j \in 1 .. Len(Live') : Live'[j].verb = "RCPT" => i = j
    BY <1>1, <2>0 DEF InTurn
  <2>6. ~Pipelined' \/ pc' # "content"
    BY DEF Pipelined
  <2> QED
    BY <2>3, <2>4, <2>5, <2>6 DEF InTurn
<1>2. CASE ~(Chunked /\ pc' \in {"rcpt", "content", "last"})
  <2>1. Chunked' = Chunked
    BY DEF Chunked, BadDad
  <2> QED
    BY <1>2, <2>1 DEF InTurn
<1> QED
  BY <1>1, <1>2

LEMMA AlignedShifts ==
  ASSUME IInv, Shifts, UNCHANGED <<taken, up>>, Live' = Live, UNCHANGED <<flags, ext>>,
         pc \in {"mail", "rcpt"}, Needed' = Needed - 1, Needed \in {2, 3},
         pc' \in {"rcpt", "content", "data", "last"}, Unwritten' = Unwritten,
         Unwritten => Expected' = Expected - 1
  PROVE  Aligned'
<1>0. Aligned /\ Typed
  BY DEF IInv
<1>1. PICK r \in Nat, n \in Nat, l \in Nat :
        /\ r = Len(reps) /\ n = Needed /\ r # 0 /\ Len(reps') = r - 1 /\ Needed' = n - 1
        /\ l = Len(Live) /\ l = Len(Live') /\ Due = r + l /\ Due' = (r - 1) + l
  BY <1>0, LinkType DEF Shifts, Due
<1>2. Shifted' = Shifted /\ BadDad' = BadDad
  BY DEF Shifted, BadDad
<1>3. CASE ~Shifted /\ ~BadDad /\ "nosend" \notin flags
  <2>1. CASE Unwritten
    <3>1. Due <= Expected /\ (up => Due = Expected)
      BY <1>0, <1>3, <2>1 DEF Aligned
    <3>2. PICK e \in Int : e = Expected /\ Expected' = e - 1
      BY <2>1 DEF Expected
    <3>3. Due' <= Expected' /\ (up => Due' = Expected')
      BY <1>1, <3>1, <3>2
    <3> QED
      BY <2>1, <3>3 DEF Aligned
  <2>2. CASE ~Unwritten
    <3>1. IF r < n
          THEN up => n - r <= l /\ Live[n - r].verb \in EndVerbs
          ELSE reps[n].code \in Positive => taken = 1
      BY <1>0, <1>1, <1>3, <2>2 DEF Aligned
    <3>2. CASE r < n
      <4>1. r - 1 < n - 1 /\ (n - 1) - (r - 1) = n - r
        BY <1>1, <3>2
      <4> QED
        BY <1>1, <2>2, <3>1, <3>2, <4>1 DEF Aligned
    <3>3. CASE ~(r < n)
      <4>1. ~(r - 1 < n - 1) /\ n - 1 \in 1 .. r - 1 /\ (n - 1) + 1 = n
        BY <1>1, <3>3
      <4>2. reps'[n - 1] = reps[n]
        BY <1>1, <4>1 DEF Shifts
      <4> QED
        BY <1>1, <2>2, <3>1, <3>3, <4>1, <4>2 DEF Aligned
    <3> QED
      BY <3>2, <3>3
  <2> QED
    BY <2>1, <2>2
<1>4. CASE ~(~Shifted /\ ~BadDad /\ "nosend" \notin flags)
  BY <1>2, <1>4 DEF Aligned
<1> QED
  BY <1>3, <1>4

\* A reply to the envelope is read, and the next one is waited for, or the message is next.
LEMMA ReadsOn ==
  ASSUME IInv, pc \in {"mail", "rcpt"}, NEW codes, Read(pc, codes), UNCHANGED cmds, SessionKept,
         pc' \in {"rcpt", "content", "data", "last"}, Needed' = Needed - 1,
         pc' = "content" => ~Pipelined, Unwritten' = Unwritten,
         Unwritten => Expected' = Expected - 1, Placed'
  PROVE  IInv'
<1>0. Typed /\ Once /\ SentIsTaken /\ UNCHANGED <<flags, ext>> /\ Needed \in {2, 3}
  BY DEF IInv, SessionKept, Needed
<1>1. /\ UNCHANGED <<up, server, taken>> /\ reps' \in Seq(Replies) /\ up' \in BOOLEAN
      /\ SentIsTaken' /\ Shifts
  BY <1>0, ReadKeepsType, SaysTheSame, ReadShifts DEF SessionKept
<1>2. Typed'
  BY <1>0, <1>1, TypedSame DEF States, Typed
<1>3. Live' = Live /\ Grows(0, {})
  BY <1>0, <1>1, SendsNothing
<1>4. Once'
  BY <1>0, <1>1, <1>3, OnceKept
<1>5. InTurn'
  BY <1>0, <1>1, <1>3, InTurnShifts
<1>6. Aligned'
  BY <1>0, <1>1, <1>3, AlignedShifts
<1>7. Awaits' /\ Failed'
  BY DEF Awaits, Failed, Early
<1> QED
  BY <1>1, <1>2, <1>4, <1>5, <1>6, <1>7 DEF IInv

\* MAIL was accepted, and RCPT is written now.
LEMMA RcptFollows ==
  ASSUME IInv, Read("mail", Positive), ~Pipelined, Send(<<"RCPT">>, "rcpt"), SessionKept
  PROVE  IInv'
<1>0. /\ Typed /\ Once /\ SentIsTaken /\ UNCHANGED <<flags, ext>> /\ pc = "mail" /\ InTurn
      /\ Unwritten /\ taken = 0 /\ NoEnd /\ Aligned
  BY DEF IInv, SessionKept, Read, Unwritten, Ahead, Once
<1>1. /\ UNCHANGED <<up, server, taken>> /\ reps' \in Seq(Replies) /\ up' \in BOOLEAN
      /\ SentIsTaken' /\ Shifts
  BY <1>0, ReadKeepsType, SaysTheSame, ReadShifts DEF SessionKept
<1>2. Grows(1, {"RCPT"}) /\ pc' = "rcpt"
  BY <1>0, <1>1, SendsOne DEF Verbs
<1>3. Typed'
  BY <1>0, <1>1, <1>2, TypedSame DEF States, Grows
<1>4. Once'
  BY <1>0, <1>1, <1>2, OnceKept DEF EndVerbs
<1>5. PICK r \in Nat, l \in Nat, m \in Nat :
        /\ r = Len(reps) /\ r # 0 /\ Len(reps') = r - 1
        /\ l = Len(Live) /\ m = Len(Live') /\ m = (IF up THEN l + 1 ELSE l)
        /\ Due = r + l /\ Due' = (r - 1) + m
  BY <1>0, <1>1, <1>2, LinkType DEF Shifts, Grows, Due
<1>6. \A i \in 1 .. m :
        \/ i \in 1 .. l /\ Live'[i] = Live[i]
        \/ i = l + 1 /\ Live'[i].verb = "RCPT"
  <2>1. \A i \in 1 .. m : i \in 1 .. l \/ (i = l + 1 /\ i > l)
    BY <1>5
  <2> QED
    BY <1>2, <1>5, <2>1 DEF Grows
<1>7. ~Pipelined' /\ Chunked' = Chunked /\ Shifted' = Shifted /\ BadDad' = BadDad
  BY <1>0 DEF Pipelined, Chunked, Shifted, BadDad
<1>8. InTurn'
  <2>1. CASE Chunked
    <3>0. NoRecipient /\ Needed = 3 /\ Needed' = 2
      BY <1>0, <1>2, <2>1 DEF InTurn, Needed
    <3>1. Hopeless => Hopeless'
      <4>1. Hopeless => ~server.mail /\ \A i \in 1 .. l : Live[i].verb # "MAIL"
        BY <1>0, <1>5 DEF Hopeless, NoSender, NoVerb
      <4>2. Hopeless => NoSender'
        BY <1>1, <1>5, <1>6, <4>1 DEF NoSender, NoVerb
      <4> QED
        BY <1>0, <1>1, <4>2 DEF Hopeless
    <3>2. ASSUME NEW i \in 1 .. Len(reps'), i <= Needed'
          PROVE  reps'[i].code = "250" \/ Hopeless'
      <4>1. i + 1 \in 1 .. Len(reps) /\ i + 1 <= Needed /\ reps'[i] = reps[i + 1]
        BY <1>1, <1>5, <3>0, <3>2 DEF Shifts
      <4> QED
        BY <1>0, <2>1, <3>1, <4>1 DEF InTurn
    <3>3. ASSUME NEW i \in 1 .. Len(Live'), Live'[i].verb = "QUIT"
          PROVE  Len(reps') + i > Needed'
      <4>1. i \in 1 .. l /\ Live[i].verb = "QUIT"
        BY <1>5, <1>6, <3>3
      <4>2. r + i > 3
        BY <1>0, <1>5, <2>1, <3>0, <4>1 DEF InTurn
      <4> QED
        BY <1>5, <3>0, <4>2
    <3>4. \A i \in 1 .. l : Live[i].verb # "RCPT"
      BY <1>5, <3>0 DEF NoRecipient, NoVerb
    <3>5. /\ \A i \in 1 .. Len(Live') : Live'[i].verb \in {"NOOP", "MAIL", "RCPT", "LAST", "QUIT"}
          /\ \A i \in 1 .. Len(Live') : Live'[i].verb = "RCPT" =>
               ~server'.rcpt /\ taken' = 0
                 /\ \A j \in 1 .. Len(Live') : Live'[j].verb = "RCPT" => i = j
      BY <1>0, <1>1, <1>5, <1>6, <2>1, <3>0, <3>4 DEF InTurn, NoRecipient
    <3>6. ASSUME NEW i \in 1 .. Len(Live'), Live'[i].verb = "MAIL"
          PROVE  /\ ~server'.mail /\ taken' = 0
                 /\ \A j \in 1 .. Len(Live') : Live'[j].verb = "MAIL" => i = j
      <4>1. i \in 1 .. l /\ Live[i].verb = "MAIL"
        BY <1>5, <1>6, <3>6
      <4>2. \A j \in 1 .. Len(Live') :
              Live'[j].verb = "MAIL" => j \in 1 .. l /\ Live[j].verb = "MAIL"
        BY <1>5, <1>6
      <4> QED
        BY <1>0, <1>1, <1>5, <2>1, <4>1, <4>2 DEF InTurn
    <3> QED
      BY <1>2, <3>2, <3>3, <3>5, <3>6 DEF InTurn
  <2>2. CASE ~Chunked
    BY <1>7, <2>2 DEF InTurn
  <2> QED
    BY <2>1, <2>2
<1>9. Aligned'
  <2>1. CASE ~Shifted /\ ~BadDad /\ "nosend" \notin flags
    <3>1. Expected = 1 /\ Expected' = 1 /\ Unwritten'
      BY <1>0, <1>2, <1>7 DEF Expected, Unwritten, Ahead
    <3>2. Due <= 1 /\ (up => Due = 1)
      BY <1>0, <2>1, <3>1 DEF Aligned
    <3>3. Due' <= 1 /\ (up => Due' = 1)
      BY <1>5, <3>2
    <3> QED
      BY <1>1, <1>2, <3>1, <3>3 DEF Aligned
  <2>2. CASE ~(~Shifted /\ ~BadDad /\ "nosend" \notin flags)
    BY <1>0, <1>7, <2>2 DEF Aligned
  <2> QED
    BY <2>1, <2>2
<1>10. Placed' /\ Awaits' /\ Failed'
  BY <1>2 DEF Placed, Awaits, Failed, Early
<1> QED
  BY <1>1, <1>3, <1>4, <1>8, <1>9, <1>10 DEF IInv

LEMMA MailAnsweredKeeps ==
  ASSUME IInv, MailAnswered
  PROVE  IInv'
<1>0. SessionKept /\ UNCHANGED <<flags, ext>> /\ pc = "mail"
  BY DEF MailAnswered, SessionKept, Read
<1>1. CASE Read("mail", Positive) /\ Pipelined /\ pc' = "rcpt" /\ UNCHANGED cmds
  <2>1. Pipelined' /\ Ahead' = Ahead
    BY <1>0, <1>1 DEF Pipelined, Ahead, Chunked, BadDad
  <2>2. /\ Needed = 3 /\ Needed' = 2 /\ Expected = 3 /\ Expected' = 2
        /\ Unwritten' = Unwritten
    BY <1>0, <1>1, <2>1 DEF Needed, Expected, Unwritten, Early
  <2>3. Placed'
    BY <1>1 DEF Placed
  <2> QED
    BY <1>0, <1>1, <2>2, <2>3, ReadsOn
<1>2. CASE Read("mail", Positive) /\ ~Pipelined /\ Send(<<"RCPT">>, "rcpt")
  BY <1>0, <1>2, RcptFollows
<1>3. CASE Read("mail", Codes \ Positive) /\ Fail
  BY <1>0, <1>3, FailKeeps DEF Positive
<1> QED
  BY <1>1, <1>2, <1>3 DEF MailAnswered

LEMMA RcptAnsweredKeeps ==
  ASSUME IInv, RcptAnswered
  PROVE  IInv'
<1>0. /\ SessionKept /\ UNCHANGED <<flags, ext>> /\ pc = "rcpt"
      /\ Typed /\ SentIsTaken /\ Once /\ Needed = 2
  BY DEF RcptAnswered, SessionKept, Read, IInv, Needed
<1>p. Pipelined' = Pipelined /\ Chunked' = Chunked /\ BadDad' = BadDad /\ Ahead' = Ahead
  BY <1>0 DEF Pipelined, Chunked, BadDad, Ahead
<1>1. CASE Read("rcpt", Positive) /\ "nosend" \in flags
  <2>1. pc' = "quit_success" /\ (UNCHANGED cmds \/ Send(<<"QUIT">>, pc'))
    BY <1>1 DEF RcptAnswered, Send, Positive, Read, Fail
  <2>2. /\ UNCHANGED <<up, server, taken>> /\ reps' \in Seq(Replies) /\ up' \in BOOLEAN
        /\ SentIsTaken'
    BY <1>0, <1>1, ReadKeepsType, SaysTheSame DEF SessionKept
  <2>3. Typed'
    BY <1>0, <2>1, <2>2, TypedSame, LinkKeepsType DEF States, Verbs
  <2> QED
    BY <2>1, <2>2, <2>3, LeavesLate DEF Finished
<1>2. CASE /\ Read("rcpt", Positive) /\ "nosend" \notin flags /\ BadDad
           /\ Send(<<"DATA">>, "data")
  <2>1. /\ UNCHANGED <<up, server, taken>> /\ reps' \in Seq(Replies) /\ up' \in BOOLEAN
        /\ SentIsTaken'
    BY <1>0, <1>2, ReadKeepsType, SaysTheSame DEF SessionKept
  <2>2. Grows(1, {"DATA"}) /\ pc' = "data"
    BY <1>0, <1>2, <2>1, SendsOne DEF Verbs
  <2>3. Typed'
    BY <1>0, <2>1, <2>2, TypedSame DEF States, Grows
  <2>4. Unwritten /\ ~Chunked
    BY <1>0, <1>2 DEF Unwritten, Ahead, Chunked
  <2>5. Once'
    BY <1>0, <2>1, <2>2, <2>4, OnceKept DEF EndVerbs
  <2>6. Placed' /\ Awaits' /\ InTurn' /\ Failed' /\ Aligned'
    BY <1>0, <1>2, <1>p, <2>2, <2>4 DEF Placed, Awaits, InTurn, Failed, Aligned, Early
  <2> QED
    BY <2>1, <2>3, <2>5, <2>6 DEF IInv
<1>3. CASE /\ Read("rcpt", Positive) /\ "nosend" \notin flags /\ ~BadDad /\ UNCHANGED cmds
           /\ pc' = IF ~Pipelined THEN "content" ELSE IF "CHUNKING" \in ext THEN "last" ELSE "data"
  <2>1. pc' = "last" => Ahead
    BY <1>3 DEF Ahead, Chunked
  <2>2. pc' = "data" => ~Chunked
    BY <1>3 DEF Chunked
  <2>3. Unwritten' = Unwritten
    BY <1>0, <1>3, <1>p, <2>1, <2>2 DEF Unwritten, Early, Ahead
  <2>4. Needed' = 1 /\ (Unwritten => Expected' = Expected - 1)
    BY <1>0, <1>3, <1>p, <2>1 DEF Needed, Expected, Unwritten, Early
  <2>5. Placed'
    BY <1>0, <1>3, <1>p, <2>1, <2>2 DEF Placed, Ahead
  <2> QED
    BY <1>0, <1>3, <2>3, <2>4, <2>5, ReadsOn
<1>4. CASE Read("rcpt", Codes \ Positive) /\ Fail
  BY <1>0, <1>4, FailKeeps DEF Positive
<1> QED
  <2>1. \/ Read("rcpt", Positive) /\ "nosend" \in flags
        \/ /\ Read("rcpt", Positive) /\ "nosend" \notin flags /\ BadDad
           /\ Send(<<"DATA">>, "data")
        \/ /\ Read("rcpt", Positive) /\ "nosend" \notin flags /\ ~BadDad /\ UNCHANGED cmds
           /\ pc' = IF ~Pipelined THEN "content" ELSE IF "CHUNKING" \in ext THEN "last" ELSE "data"
        \/ Read("rcpt", Codes \ Positive) /\ Fail
    BY DEF RcptAnswered
  <2> QED
    BY <1>1, <1>2, <1>3, <1>4, <2>1

\* The message goes in one chunk: its end is where the reply that counts is looked for.
LEMMA ChunkKeeps ==
  ASSUME IInv, pc = "content", Chunked, UNCHANGED <<flags, ext, reps, up, server, taken>>,
         NEW n \in {1, 2}, Grows(n, {"LAST", "QUIT"}), Typed', SentIsTaken',
         up => Live'[Len(Live) + 1].verb = "LAST",
         up /\ n = 2 => Live'[Len(Live) + 2].verb = "QUIT",
         pc' = IF Pipelined THEN "mail" ELSE "last"
  PROVE  IInv'
<1>0. /\ Typed /\ InTurn /\ Aligned /\ Unwritten /\ taken = 0 /\ NoEnd
      /\ ~BadDad /\ "nosend" \notin flags
  BY DEF IInv, Unwritten, Once, Placed
<1>1. Pipelined' = Pipelined /\ Chunked' /\ BadDad' = BadDad /\ Shifted' = Shifted
  BY DEF Pipelined, Chunked, BadDad, Shifted
<1>2. ~Unwritten'
  BY <1>1 DEF Unwritten, Ahead, Early
<1>3. PICK r \in Nat, l \in Nat, m \in Nat, k \in {1, 3} :
        /\ r = Len(reps) /\ l = Len(Live) /\ m = Len(Live') /\ m = (IF up THEN l + n ELSE l)
        /\ Due = r + l /\ k = (IF Pipelined THEN 3 ELSE 1) /\ (~up => l = 0)
  BY <1>0, LinkType DEF Grows
<1>4. Needed = k /\ Needed' = k
  BY <1>1, <1>3 DEF Needed
<1>5. \A i \in 1 .. m :
        \/ i \in 1 .. l /\ Live'[i] = Live[i]
        \/ up /\ i = l + 1 /\ Live'[i].verb = "LAST"
        \/ up /\ i = l + 2 /\ Live'[i].verb = "QUIT"
  <2>1. \A i \in 1 .. m : i \in 1 .. l \/ (up /\ i = l + 1) \/ (up /\ n = 2 /\ i = l + 2)
    BY <1>3
  <2> QED
    BY <1>3, <2>1 DEF Grows
<1>6. Once'
  <2>1. \A i \in 1 .. m : Live'[i].verb \in EndVerbs => i = l + 1
    BY <1>0, <1>3, <1>5 DEF NoEnd, EndVerbs
  <2>2. \A i, j \in 1 .. m : {Live'[i].verb, Live'[j].verb} \subseteq EndVerbs => i = j
    BY <2>1
  <2> QED
    BY <1>0, <1>2, <1>3, <2>2 DEF Once
<1>7. InTurn'
  <2>1. Hopeless => Hopeless'
    <3>1. NoSender => NoSender'
      BY <1>3, <1>5 DEF NoSender, NoVerb
    <3>2. NoRecipient => NoRecipient'
      BY <1>3, <1>5 DEF NoRecipient, NoVerb
    <3> QED
      BY <1>0, <1>1, <3>1, <3>2 DEF Hopeless
  <2>2. \A i \in 1 .. Len(Live') : Live'[i].verb \in {"NOOP", "MAIL", "RCPT", "LAST", "QUIT"}
    BY <1>0, <1>3, <1>5 DEF InTurn
  <2>3. ASSUME NEW i \in 1 .. Len(Live'), Live'[i].verb = "MAIL"
        PROVE  /\ ~server'.mail /\ taken' = 0
               /\ \A j \in 1 .. Len(Live') : Live'[j].verb = "MAIL" => i = j
    <3>1. \A j \in 1 .. m : Live'[j].verb = "MAIL" => j \in 1 .. l /\ Live[j].verb = "MAIL"
      BY <1>5
    <3> QED
      BY <1>0, <1>3, <2>3, <3>1 DEF InTurn
  <2>4. ASSUME NEW i \in 1 .. Len(Live'), Live'[i].verb = "RCPT"
        PROVE  /\ ~server'.rcpt /\ taken' = 0
               /\ \A j \in 1 .. Len(Live') : Live'[j].verb = "RCPT" => i = j
    <3>1. \A j \in 1 .. m : Live'[j].verb = "RCPT" => j \in 1 .. l /\ Live[j].verb = "RCPT"
      BY <1>5
    <3> QED
      BY <1>0, <1>3, <2>4, <3>1 DEF InTurn
  <2>5. ASSUME NEW i \in 1 .. Len(Live'), Live'[i].verb = "QUIT"
        PROVE  Len(reps') + i > Needed'
    <3>1. CASE i \in 1 .. l /\ Live[i].verb = "QUIT"
      BY <1>0, <1>3, <1>4, <3>1 DEF InTurn
    <3>2. CASE up /\ i = l + 2
      <4>1. Pipelined => Due >= 2
        BY <1>0, <3>2 DEF InTurn
      <4>2. r + i > k
        BY <1>3, <3>2, <4>1
      <4> QED
        BY <1>3, <1>4, <4>2
    <3> QED
      BY <1>3, <1>5, <2>5, <3>1, <3>2
  <2>6. \A i \in 1 .. Len(reps') : i <= Needed' => reps'[i].code = "250" \/ Hopeless'
    BY <1>0, <1>4, <2>1 DEF InTurn
  <2>7. pc' # "content" /\ ~(pc' = "mail" /\ ~Pipelined')
    BY <1>1
  <2> QED
    BY <2>2, <2>3, <2>4, <2>5, <2>6, <2>7 DEF InTurn
<1>8. Aligned'
  <2>1. CASE ~Shifted
    <3>1. Expected = k - 1
      BY <1>3 DEF Expected
    <3>2. r + l <= k - 1 /\ (up => r + l = k - 1)
      BY <1>0, <1>3, <2>1, <3>1 DEF Aligned
    <3>3. r < k /\ (up => k - r = l + 1 /\ l + 1 <= m)
      BY <1>3, <3>2
    <3>4. /\ Len(reps') < Needed'
          /\ up' => /\ Needed' - Len(reps') <= Len(Live')
                    /\ Live'[Needed' - Len(reps')].verb \in EndVerbs
      BY <1>3, <1>4, <3>3 DEF EndVerbs
    <3> QED
      BY <1>2, <3>4 DEF Aligned
  <2>2. CASE Shifted
    BY <1>1, <2>2 DEF Aligned
  <2> QED
    BY <2>1, <2>2
<1>9. Placed' /\ Awaits' /\ Failed'
  BY <1>0, <1>1 DEF Placed, Awaits, Failed, Early
<1> QED
  BY <1>6, <1>7, <1>8, <1>9 DEF IInv

\* DATA follows the envelope.
LEMMA DataFollows ==
  ASSUME IInv, pc = "content", "CHUNKING" \notin ext,
         UNCHANGED <<flags, ext, reps, up, server, taken>>,
         Grows(1, {"DATA"}), Typed', SentIsTaken', pc' = IF Pipelined THEN "mail" ELSE "data"
  PROVE  IInv'
<1>0. /\ Typed /\ Aligned /\ Once /\ Unwritten /\ taken = 0 /\ NoEnd
      /\ ~BadDad /\ "nosend" \notin flags
  BY DEF IInv, Unwritten, Once, Placed
<1>1. /\ Pipelined' = Pipelined /\ ~Chunked' /\ ~Ahead' /\ BadDad' = BadDad
      /\ Shifted' = Shifted
  BY DEF Pipelined, Chunked, BadDad, Shifted, Ahead
<1>2. Unwritten' /\ Expected' = Expected + 1 /\ Expected \in Int
  BY <1>1 DEF Unwritten, Expected
<1>3. Once'
  BY <1>0, OnceKept DEF EndVerbs
<1>4. PICK r \in Nat, l \in Nat, e \in Int :
        /\ r = Len(reps) /\ l = Len(Live) /\ Len(Live') = (IF up THEN l + 1 ELSE l)
        /\ Due = r + l /\ Due' = (IF up THEN r + (l + 1) ELSE r + l)
        /\ e = Expected /\ Expected' = e + 1
  BY <1>0, <1>2, LinkType DEF Grows, Due
<1>5. Aligned'
  <2>1. CASE ~Shifted
    <3>1. r + l <= e /\ (up => r + l = e)
      BY <1>0, <1>4, <2>1 DEF Aligned
    <3>2. Due' <= Expected' /\ (up' => Due' = Expected')
      BY <1>4, <3>1
    <3> QED
      BY <1>2, <3>2 DEF Aligned
  <2>2. CASE Shifted
    BY <1>1, <2>2 DEF Aligned
  <2> QED
    BY <2>1, <2>2
<1>6. Placed' /\ Awaits' /\ InTurn' /\ Failed'
  BY <1>0, <1>1 DEF Placed, Awaits, InTurn, Failed, Early
<1> QED
  BY <1>3, <1>5, <1>6 DEF IInv

LEMMA ContentKeeps ==
  ASSUME IInv, Content
  PROVE  IInv'
<1>0. /\ Typed /\ SentIsTaken /\ pc = "content" /\ Unwritten /\ ~BadDad
      /\ "nosend" \notin flags
      /\ UNCHANGED <<flags, hosts, params, ext, reps, up, server, taken, said>>
      /\ reps' \in Seq(Replies) /\ up' \in BOOLEAN /\ msg \in Spool!Store
  BY LinkType DEF IInv, Content, Unwritten, Placed, Typed, TypeOK
<1>1. ASSUME msg' \in Spool!Store, msg'.new = msg.new, pc' \in States, cmds' \in Seq(Commands)
      PROVE  Typed' /\ SentIsTaken'
  <2>1. Typed'
    BY <1>0, <1>1, TypedStays DEF Typed, TypeOK
  <2>2. Shifted' = Shifted
    BY <1>0 DEF Shifted
  <2>3. SentIsTaken'
    BY <1>0, <1>1, <2>2 DEF SentIsTaken
  <2> QED
    BY <2>1, <2>3
<1>2. PICK o \in SpoolOutcomes :
        IF o.threw
        THEN /\ \E closed \in Spool!Close(o.m) : msg' = closed.m
             /\ pc' = "aborted" /\ UNCHANGED cmds
        ELSE /\ msg' = o.m
             /\ IF "CHUNKING" \in ext
                THEN Send(IF "pipeline_quit" \in flags THEN <<"LAST", "QUIT">> ELSE <<"LAST">>,
                          IF Pipelined THEN "mail" ELSE "last")
                ELSE Send(<<"DATA">>, IF Pipelined THEN "mail" ELSE "data")
  BY DEF Content
<1>3. o.m \in Spool!Store /\ o.threw \in BOOLEAN /\ o.m.new = msg.new
  BY <1>0, SpoolKeepsNew
<1>4. CASE o.threw
  <2>1. PICK closed \in Spool!Close(o.m) : msg' = closed.m
    BY <1>2, <1>4
  <2>2. msg' \in Spool!Store /\ msg'.new = msg.new
    BY <1>3, <2>1, CloseKeepsNew
  <2>3. pc' = "aborted" /\ UNCHANGED cmds
    BY <1>2, <1>4
  <2>4. Typed' /\ SentIsTaken'
    BY <1>0, <1>1, <2>2, <2>3 DEF States, Typed
  <2>5. Grows(0, {})
    BY <1>0, <2>3, SendsNothing
  <2> QED
    BY <1>0, <2>3, <2>4, <2>5, GivesUp DEF Finished
<1>5. CASE ~o.threw /\ "CHUNKING" \in ext
  <2>0. msg' \in Spool!Store /\ msg'.new = msg.new /\ Chunked
    BY <1>0, <1>2, <1>3, <1>5 DEF Chunked
  <2>1. CASE Send(<<"LAST", "QUIT">>, IF Pipelined THEN "mail" ELSE "last")
    <3>1. /\ Grows(2, {"LAST", "QUIT"}) /\ pc' = IF Pipelined THEN "mail" ELSE "last"
          /\ up => Live'[Len(Live) + 1].verb = "LAST" /\ Live'[Len(Live) + 2].verb = "QUIT"
      BY <1>0, <2>1, SendsTwo DEF Verbs
    <3>2. Typed' /\ SentIsTaken'
      BY <1>1, <2>0, <3>1 DEF States, Grows
    <3> QED
      BY <1>0, <2>0, <3>1, <3>2, ChunkKeeps
  <2>2. CASE Send(<<"LAST">>, IF Pipelined THEN "mail" ELSE "last")
    <3>1. /\ Grows(1, {"LAST"}) /\ pc' = IF Pipelined THEN "mail" ELSE "last"
          /\ up => Live'[Len(Live) + 1].verb = "LAST"
      BY <1>0, <2>2, SendsOne DEF Verbs
    <3>2. Typed' /\ SentIsTaken'
      BY <1>1, <2>0, <3>1 DEF States, Grows
    <3>3. Grows(1, {"LAST", "QUIT"})
      BY <3>1 DEF Grows
    <3> QED
      BY <1>0, <2>0, <3>1, <3>2, <3>3, ChunkKeeps
  <2> QED
    BY <1>2, <1>5, <2>1, <2>2
<1>6. CASE ~o.threw /\ "CHUNKING" \notin ext
  <2>0. /\ msg' \in Spool!Store /\ msg'.new = msg.new
        /\ Send(<<"DATA">>, IF Pipelined THEN "mail" ELSE "data")
    BY <1>2, <1>3, <1>6
  <2>1. Grows(1, {"DATA"}) /\ pc' = IF Pipelined THEN "mail" ELSE "data"
    BY <1>0, <2>0, SendsOne DEF Verbs
  <2>2. Typed' /\ SentIsTaken'
    BY <1>1, <2>0, <2>1 DEF States, Grows
  <2> QED
    BY <1>0, <1>6, <2>1, <2>2, DataFollows
<1> QED
  BY <1>3, <1>4, <1>5, <1>6

\* The lines of the message and the final dot are written.
LEMMA DotFollows ==
  ASSUME IInv, Read("data", {"354"}), SessionKept, NEW n \in {1, 2},
         Grows(n, {"dot", "QUIT"}), pc' = "dot", up => Live'[Len(Live) + 1].verb = "dot",
         up /\ n = 2 => Live'[Len(Live) + 2].verb = "QUIT"
  PROVE  IInv'
<1>0. /\ Typed /\ Aligned /\ SentIsTaken /\ pc = "data" /\ Unwritten /\ taken = 0 /\ NoEnd
      /\ "nosend" \notin flags /\ flags' = flags
  BY DEF IInv, Unwritten, Once, Placed, Read, SessionKept
<1>1. /\ UNCHANGED <<up, server, taken>> /\ reps' \in Seq(Replies) /\ up' \in BOOLEAN
      /\ SentIsTaken' /\ Shifts
  BY <1>0, ReadKeepsType, SaysTheSame, ReadShifts DEF SessionKept
<1>2. Typed'
  BY <1>0, <1>1, TypedSame DEF States, Grows
<1>3. ~Unwritten' /\ Needed' = 1
  BY DEF Unwritten, Early, Needed
<1>4. PICK r \in Nat, l \in Nat, m \in Nat :
        /\ r = Len(reps) /\ l = Len(Live) /\ m = Len(Live') /\ m = (IF up THEN l + n ELSE l)
        /\ Due = r + l /\ (~up => l = 0) /\ r # 0 /\ Len(reps') = r - 1
  BY <1>0, <1>1, LinkType DEF Grows, Shifts
<1>5. \A i \in 1 .. m :
        \/ i \in 1 .. l /\ Live'[i] = Live[i]
        \/ up /\ i = l + 1 /\ Live'[i].verb = "dot"
        \/ up /\ i = l + 2 /\ Live'[i].verb = "QUIT"
  <2>1. \A i \in 1 .. m : i \in 1 .. l \/ (up /\ i = l + 1) \/ (up /\ n = 2 /\ i = l + 2)
    BY <1>4
  <2> QED
    BY <1>4, <2>1 DEF Grows
<1>6. Once'
  <2>1. \A i \in 1 .. m : Live'[i].verb \in EndVerbs => i = l + 1
    BY <1>0, <1>4, <1>5 DEF NoEnd, EndVerbs
  <2>2. \A i, j \in 1 .. m : {Live'[i].verb, Live'[j].verb} \subseteq EndVerbs => i = j
    BY <2>1
  <2> QED
    BY <1>0, <1>1, <1>3, <1>4, <2>2 DEF Once
<1>7. Aligned'
  <2>1. CASE ~Shifted /\ ~BadDad
    <3>1. Expected = 1
      BY <1>0 DEF Expected
    <3>2. r + l <= 1
      BY <1>0, <1>4, <2>1, <3>1 DEF Aligned
    <3>3. r - 1 = 0 /\ l = 0 /\ l + 1 = 1 /\ 1 - 0 = 1
      BY <1>4, <3>2
    <3>4. /\ Len(reps') < Needed'
          /\ up' => /\ Needed' - Len(reps') <= Len(Live')
                    /\ Live'[Needed' - Len(reps')].verb \in EndVerbs
      <4>1. Len(reps') = 0 /\ Needed' = 1 /\ Needed' - Len(reps') = 1
        BY <1>3, <1>4, <3>3
      <4>2. up => Live'[1].verb = "dot" /\ 1 <= Len(Live')
        BY <1>4, <3>3
      <4> QED
        BY <1>1, <4>1, <4>2 DEF EndVerbs
    <3> QED
      BY <1>3, <3>4 DEF Aligned
  <2>2. CASE ~(~Shifted /\ ~BadDad)
    BY <1>0, <2>2 DEF Aligned, Shifted, BadDad
  <2> QED
    BY <2>1, <2>2
<1>8. Placed' /\ Awaits' /\ Failed' /\ InTurn'
  BY <1>0 DEF Placed, Awaits, Failed, InTurn, Early
<1> QED
  BY <1>1, <1>2, <1>6, <1>7, <1>8 DEF IInv

LEMMA DataAnsweredKeeps ==
  ASSUME IInv, DataAnswered
  PROVE  IInv'
<1>0. Typed /\ SentIsTaken /\ SessionKept /\ pc = "data" /\ Unwritten
  BY DEF IInv, DataAnswered, Read, Unwritten
<1>r. PICK codes : Read("data", codes)
  BY DEF DataAnswered
<1>1. /\ UNCHANGED <<up, server, taken>> /\ reps' \in Seq(Replies) /\ up' \in BOOLEAN
      /\ SentIsTaken'
  BY <1>0, <1>r, ReadKeepsType, SaysTheSame DEF SessionKept
<1>2. CASE Read("data", {"354"}) /\ Send(<<"dot", "QUIT">>, "dot")
  <2>1. /\ Grows(2, {"dot", "QUIT"}) /\ pc' = "dot"
        /\ up => Live'[Len(Live) + 1].verb = "dot" /\ Live'[Len(Live) + 2].verb = "QUIT"
    BY <1>0, <1>1, <1>2, SendsTwo DEF Verbs
  <2> QED
    BY <1>0, <1>2, <2>1, DotFollows
<1>3. CASE Read("data", {"354"}) /\ Send(<<"dot">>, "dot")
  <2>1. Grows(1, {"dot"}) /\ pc' = "dot" /\ (up => Live'[Len(Live) + 1].verb = "dot")
    BY <1>0, <1>1, <1>3, SendsOne DEF Verbs
  <2>2. Grows(1, {"dot", "QUIT"})
    BY <2>1 DEF Grows
  <2> QED
    BY <1>0, <1>3, <2>1, <2>2, DotFollows
<1>4. CASE pc' = "aborted" /\ UNCHANGED cmds
  <2>1. Typed'
    BY <1>0, <1>1, <1>4, TypedSame DEF States, Typed
  <2> QED
    BY <1>0, <1>1, <1>4, <2>1, LeavesLate DEF Finished
<1>5. CASE Fail
  <2>1. pc' = "failure" /\ Send(<<"QUIT">>, pc')
    BY <1>5 DEF Fail, Send
  <2>2. Typed'
    BY <1>0, <1>1, <2>1, TypedSame, LinkKeepsType DEF States, Verbs
  <2> QED
    BY <1>0, <1>1, <2>1, <2>2, LeavesLate DEF Finished
<1> QED
  <2>1. \/ Read("data", {"354"}) /\ Send(<<"dot", "QUIT">>, "dot")
        \/ Read("data", {"354"}) /\ Send(<<"dot">>, "dot")
        \/ pc' = "aborted" /\ UNCHANGED cmds
        \/ Fail
    BY DEF DataAnswered
  <2> QED
    BY <1>2, <1>3, <1>4, <1>5, <2>1

\* The reply that counts is positive: unless replies are shifted, the message was taken.
LEMMA PositiveIsTaken ==
  ASSUME IInv, pc \in {"dot", "last"}, Len(reps) # 0, reps[1].code \in Positive, ~BadDad
  PROVE  ~Shifted => taken = 1
<1>1. "nosend" \notin flags /\ Aligned /\ Len(reps) \in Nat
  BY LinkType DEF IInv, Placed
<1>2. ~Unwritten /\ Needed = 1
  BY DEF Unwritten, Early, Needed
<1>3. ~(Len(reps) < Needed)
  BY <1>1, <1>2
<1> QED
  BY <1>1, <1>2, <1>3 DEF Aligned

\* The message is told to be sent, or the copy could not be put in place.
LEMMA SettleKeeps ==
  ASSUME IInv, pc \in {"dot", "last"}, NEW codes, Read(pc, codes), codes \subseteq Positive,
         Settle, UNCHANGED <<flags, hosts, params, ext>>
  PROVE  IInv'
<1>0. Typed /\ SentIsTaken /\ msg \in Spool!Store
  BY DEF IInv, Typed, TypeOK
<1>1. /\ UNCHANGED <<up, server, taken>> /\ reps' \in Seq(Replies) /\ up' \in BOOLEAN
      /\ Shifts /\ reps[1].code \in Positive /\ Len(reps) # 0
  BY <1>0, ReadKeepsType, ReadShifts DEF Shifts
<1>2. Shifted' = Shifted
  BY DEF Shifted
<1>3. SentIsTaken'
  <2>1. CASE BadDad
    BY <1>0, <1>1, <2>1, SaysTheSame DEF Settle, SpoolKept
  <2>2. CASE ~BadDad
    BY <1>1, <1>2, <2>2, PositiveIsTaken DEF SentIsTaken
  <2> QED
    BY <2>1, <2>2
<1>4. msg' \in Spool!Store /\ said' \in BOOLEAN
  <2>1. CASE BadDad
    BY <1>0, <2>1 DEF Settle, SpoolKept, Typed, TypeOK
  <2>2. CASE ~BadDad
    <3>1. PICK o \in (IF "save" \in flags THEN Spool!Deliver(msg) ELSE Spool!Close(msg)) :
            msg' = o.m /\ said' = ~o.threw
      BY <2>2 DEF Settle
    <3>2. o.m \in Spool!Store
      BY <1>0, <3>1, DeliverType, CloseKeepsNew
    <3> QED
      BY <3>1, <3>2
  <2> QED
    BY <2>1, <2>2
<1>5. pc' \in {"quit", "aborted"} /\ (UNCHANGED cmds \/ Send(<<"QUIT">>, pc'))
  <2>1. Quit \/ (pc' = "aborted" /\ UNCHANGED cmds)
    BY DEF Settle
  <2> QED
    BY <2>1 DEF Quit, Send
<1>6. Typed'
  BY <1>0, <1>1, <1>4, <1>5, TypedStays, LinkKeepsType DEF States, Verbs, Typed, TypeOK
<1> QED
  BY <1>1, <1>3, <1>5, <1>6, LeavesLate DEF Finished

LEMMA DotAnsweredKeeps ==
  ASSUME IInv, DotAnswered
  PROVE  IInv'
<1>0. Typed /\ SentIsTaken /\ pc = "dot" /\ UNCHANGED <<flags, hosts, params, ext>>
  BY DEF IInv, DotAnswered, Read
<1>1. CASE Read("dot", Positive) /\ Settle
  BY <1>0, <1>1, SettleKeeps
<1>2. CASE /\ Read("dot", Codes \ Positive) /\ SpoolKept
           /\ IF BadDad THEN pc' = "aborted" /\ UNCHANGED cmds ELSE Quit
  <2>1. SessionKept
    BY <1>0, <1>2 DEF SessionKept, SpoolKept
  <2>2. /\ UNCHANGED <<up, server, taken>> /\ reps' \in Seq(Replies) /\ up' \in BOOLEAN
        /\ SentIsTaken'
    BY <1>0, <1>2, <2>1, ReadKeepsType, SaysTheSame DEF SessionKept
  <2>3. pc' \in {"quit", "aborted"} /\ (UNCHANGED cmds \/ Send(<<"QUIT">>, pc'))
    BY <1>2 DEF Quit, Send
  <2>4. Typed'
    BY <1>0, <2>1, <2>2, <2>3, TypedSame, LinkKeepsType DEF States, Verbs
  <2> QED
    BY <2>2, <2>3, <2>4, LeavesLate DEF Finished
<1> QED
  BY <1>1, <1>2 DEF DotAnswered

LEMMA LastAnsweredKeeps ==
  ASSUME IInv, LastAnswered
  PROVE  IInv'
<1>0. pc = "last" /\ UNCHANGED <<flags, hosts, params, ext>>
  BY DEF LastAnswered, Read
<1>1. CASE Read("last", {"250"}) /\ Settle
  <2>1. {"250"} \subseteq Positive
    BY DEF Positive
  <2> QED
    BY <1>0, <1>1, <2>1, SettleKeeps
<1>2. CASE Read("last", Codes \ {"250"}) /\ Fail /\ SpoolKept
  <2>1. SessionKept
    BY <1>0, <1>2 DEF SessionKept, SpoolKept
  <2> QED
    BY <1>0, <1>2, <2>1, FailKeeps
<1> QED
  BY <1>1, <1>2 DEF LastAnswered

LEMMA QuitAnsweredKeeps ==
  ASSUME IInv, QuitAnswered
  PROVE  IInv'
<1>0. /\ Typed /\ SentIsTaken /\ SessionKept /\ UNCHANGED cmds /\ Failed
      /\ pc' \in {"success", "failure"} /\ (pc' = "failure" => pc = "quit_failure")
  BY DEF IInv, QuitAnswered, Read
<1>1. PICK wait : Read(wait, Codes)
  BY DEF QuitAnswered
<1>2. /\ UNCHANGED <<up, server, taken>> /\ reps' \in Seq(Replies) /\ up' \in BOOLEAN
      /\ SentIsTaken'
  BY <1>0, <1>1, ReadKeepsType, SaysTheSame DEF SessionKept
<1>3. Typed'
  BY <1>0, <1>2, TypedSame DEF States, Typed
<1>4. pc' \in {"failure", "quit_failure"} => Hopeless
  BY <1>0 DEF Failed
<1> QED
  BY <1>0, <1>2, <1>3, <1>4, LeavesLate DEF Finished

LEMMA ReplyMissingKeeps ==
  ASSUME IInv, ReplyMissing
  PROVE  IInv'
<1>0. /\ Typed /\ SentIsTaken /\ SessionKept /\ UNCHANGED cmds /\ Missing(pc)
      /\ pc' = "aborted"
  BY DEF IInv, ReplyMissing
<1>1. /\ UNCHANGED <<up, server, taken>> /\ reps' \in Seq(Replies) /\ up' \in BOOLEAN
      /\ SentIsTaken'
  BY <1>0, ReadKeepsType, SaysTheSame DEF SessionKept
<1>2. Typed'
  BY <1>0, <1>1, TypedSame DEF States, Typed
<1> QED
  BY <1>0, <1>1, <1>2, LeavesLate DEF Finished
-----------------------------------------------------------------------------
(***************************************************************************)
(* The server's steps, and the connection's end.                           *)
(***************************************************************************)
\* Definitions that depend on the program alone.
LEMMA ServerLeaves ==
  ASSUME UNCHANGED <<pc, flags, ext>>
  PROVE  /\ Unwritten' = Unwritten /\ Needed' = Needed /\ Expected' = Expected
         /\ Chunked' = Chunked /\ Pipelined' = Pipelined /\ BadDad' = BadDad /\ Shifted' = Shifted
BY DEF Unwritten, Early, Ahead, Chunked, Needed, Expected, Pipelined, BadDad, Shifted

\* How much is under way, and where it moves.
LEMMA ServesLengths ==
  ASSUME Typed, NEW verb, NEW a, Serves(verb, a)
  PROVE  \E r \in Nat, l \in Nat, m \in Nat :
           /\ r = Len(reps) /\ Len(reps') = r + 1 /\ l = Len(Live) /\ m = Len(Live') /\ l # 0
           /\ m < l /\ (up' => l = m + 1) /\ Due = r + l /\ Due' = r + (m + 1)
           /\ \A i \in 1 .. m : i + 1 \in 1 .. l /\ Live'[i] = Live[i + 1]
           /\ 1 \in 1 .. l /\ Live[1].verb = verb
<1>1. PICK r \in Nat, l \in Nat : r = Len(reps) /\ l = Len(Live)
  BY LinkType
<1>2. l # 0 /\ Len(Live') = IF verb = "QUIT" THEN 0 ELSE l - 1
  BY <1>1 DEF Serves
<1>3. PICK m \in Nat : m = Len(Live') /\ m = IF verb = "QUIT" THEN 0 ELSE l - 1
  BY <1>1, <1>2
<1>4. /\ Due = r + l /\ Due' = r + (m + 1) /\ Len(reps') = r + 1
      /\ m < l /\ (up' => l = m + 1)
  <2>1. Due = Len(reps) + Len(Live) /\ Due' = Len(reps') + Len(Live') /\ Len(reps') = Len(reps) + 1
    BY DEF Due, Serves
  <2>2. (r + 1) + m = r + (m + 1)
    OBVIOUS
  <2>3. up' => verb # "QUIT"
    BY DEF Serves
  <2>4. m < l /\ (verb # "QUIT" => l = m + 1)
    BY <1>1, <1>2, <1>3
  <2>5. Due' = r + (m + 1) /\ Due = r + l /\ Len(reps') = r + 1
    <3>1. Due' = (r + 1) + m
      BY <1>1, <1>3, <2>1
    <3> QED
      BY <1>1, <2>1, <2>2, <3>1
  <2> QED
    BY <2>3, <2>4, <2>5
<1>5. \A i \in 1 .. m : i + 1 \in 1 .. l /\ Live'[i] = Live[i + 1]
  BY <1>1, <1>2, <1>3 DEF Serves
<1>6. 1 \in 1 .. l /\ Live[1].verb = verb
  BY <1>1, <1>2 DEF Serves
<1> QED
  BY <1>1, <1>2, <1>3, <1>4, <1>5, <1>6

\* Without a sender or a recipient, and without an end of the message, nothing is taken.
LEMMA TakesNothing ==
  ASSUME Typed, NEW verb, NEW a, Serves(verb, a), NoEnd \/ ~server.mail \/ ~server.rcpt
  PROVE  a.took = {} /\ taken' = taken
<1>1. server.rcpt => server.mail
  BY DEF Typed, Sane
<1>2. CASE NoEnd
  BY <1>2, ServesLengths DEF Serves, Answered, NoEnd
<1>3. CASE ~server.mail \/ ~server.rcpt
  BY <1>1, <1>3 DEF Serves, Answered
<1>4. a.took = {}
  BY <1>2, <1>3
<1> QED
  BY <1>4 DEF Serves

LEMMA ServesOnce ==
  ASSUME IInv, NEW verb, NEW a, Serves(verb, a)
  PROVE  /\ Once' /\ (taken = 1 => taken' = 1)
         /\ verb \in EndVerbs => NoEnd' /\ taken = 0 /\ taken' = IF a.took = {} THEN 0 ELSE 1
<1>0. Typed /\ Once /\ taken \in Nat /\ taken' = IF a.took = {} THEN taken ELSE taken + 1
  BY LinkType DEF IInv, Serves
<1>1. PICK l \in Nat, m \in Nat :
        /\ l = Len(Live) /\ m = Len(Live')
        /\ \A i \in 1 .. m : i + 1 \in 1 .. l /\ Live'[i] = Live[i + 1]
        /\ 1 \in 1 .. l /\ Live[1].verb = verb
  BY <1>0, ServesLengths
<1>2. NoEnd => NoEnd'
  BY <1>1 DEF NoEnd
<1>3. \A i, j \in 1 .. m : {Live'[i].verb, Live'[j].verb} \subseteq EndVerbs => i = j
  <2>1. ASSUME NEW i \in 1 .. m, NEW j \in 1 .. m,
               {Live'[i].verb, Live'[j].verb} \subseteq EndVerbs
        PROVE  i = j
    <3>1. /\ i + 1 \in 1 .. l /\ j + 1 \in 1 .. l
          /\ {Live[i + 1].verb, Live[j + 1].verb} \subseteq EndVerbs
      BY <1>1, <2>1
    <3>2. i + 1 = j + 1
      BY <1>0, <1>1, <3>1 DEF Once
    <3> QED
      BY <3>2
  <2> QED
    BY <2>1
<1>4. CASE verb \in EndVerbs
  <2>1. ~NoEnd /\ taken = 0 /\ ~Unwritten
    BY <1>0, <1>1, <1>4 DEF NoEnd, Once
  <2>2. NoEnd'
    <3>1. ASSUME NEW i \in 1 .. m, Live'[i].verb \in EndVerbs
          PROVE  FALSE
      <4>1. i + 1 \in 1 .. l /\ {Live[1].verb, Live[i + 1].verb} \subseteq EndVerbs
        BY <1>1, <1>4, <3>1
      <4>2. 1 = i + 1
        BY <1>0, <1>1, <4>1 DEF Once
      <4> QED
        BY <4>2
    <3> QED
      BY <1>1, <3>1 DEF NoEnd
  <2>3. taken' = IF a.took = {} THEN 0 ELSE 1
    BY <1>0, <2>1
  <2>4. ~Unwritten'
    BY <2>1, ServerLeaves DEF Serves
  <2> QED
    BY <1>1, <1>3, <2>1, <2>2, <2>3, <2>4 DEF Once
<1>5. CASE verb \notin EndVerbs
  <2>1. taken' = taken
    BY <1>0, <1>5 DEF Serves, Answered
  <2>2. Unwritten' = Unwritten
    BY ServerLeaves DEF Serves
  <2> QED
    BY <1>0, <1>1, <1>2, <1>3, <1>5, <2>1, <2>2 DEF Once
<1> QED
  BY <1>4, <1>5

\* What no server will take, none takes later.
LEMMA ServesHopeless ==
  ASSUME IInv, NEW verb, NEW a, Serves(verb, a), Hopeless
  PROVE  Hopeless'
<1>0. Typed /\ taken = 0 /\ Unwritten' = Unwritten /\ Pipelined' = Pipelined /\ pc' = pc
  BY ServerLeaves DEF IInv, Hopeless, Serves
<1>1. PICK l \in Nat, m \in Nat :
        /\ l = Len(Live) /\ m = Len(Live')
        /\ \A i \in 1 .. m : i + 1 \in 1 .. l /\ Live'[i] = Live[i + 1]
        /\ 1 \in 1 .. l /\ Live[1].verb = verb
  BY <1>0, ServesLengths
<1>2. CASE NoSender
  <2>1. verb # "MAIL" /\ NoVerb("MAIL")' /\ ~server.mail
    BY <1>1, <1>2 DEF NoSender, NoVerb
  <2>2. ~server'.mail /\ taken' = 0
    BY <1>0, <2>1, TakesNothing DEF Serves, Answered
  <2> QED
    BY <2>1, <2>2 DEF Hopeless, NoSender
<1>3. CASE NoRecipient /\ ~(pc = "mail" /\ ~Pipelined)
  <2>1. verb # "RCPT" /\ NoVerb("RCPT")' /\ ~server.rcpt
    BY <1>1, <1>3 DEF NoRecipient, NoVerb
  <2>2. ~server'.rcpt /\ taken' = 0
    BY <1>0, <2>1, TakesNothing DEF Serves, Answered
  <2> QED
    BY <1>0, <1>3, <2>1, <2>2 DEF Hopeless, NoRecipient
<1>4. CASE NoEnd /\ ~Unwritten
  <2>1. NoEnd' /\ taken' = 0
    BY <1>0, <1>1, <1>4, TakesNothing DEF NoEnd
  <2> QED
    BY <1>0, <1>4, <2>1 DEF Hopeless
<1> QED
  BY <1>2, <1>3, <1>4 DEF Hopeless

LEMMA ServesAwaits ==
  ASSUME IInv, NEW verb, NEW a, Serves(verb, a)
  PROVE  Awaits'
<1>0. Typed /\ Awaits /\ pc' = pc /\ flags' = flags
  BY DEF IInv, Serves
<1>1. PICK r \in Nat, l \in Nat, m \in Nat :
        /\ r = Len(reps) /\ Len(reps') = r + 1 /\ l = Len(Live) /\ m = Len(Live') /\ l # 0
        /\ m < l /\ (up' => l = m + 1) /\ Due = r + l /\ Due' = r + (m + 1)
        /\ \A i \in 1 .. m : i + 1 \in 1 .. l /\ Live'[i] = Live[i + 1]
        /\ 1 \in 1 .. l /\ Live[1].verb = verb
  BY <1>0, ServesLengths
<1>2. reps'[r + 1] = a.reply /\ \A i \in 1 .. r : reps'[i] = reps[i]
  BY <1>1 DEF Serves
<1>3. CASE pc \in Early
  <2>1. /\ ~server.mail /\ verb \notin {"MAIL", "RCPT", "DATA"} \cup EndVerbs
        /\ \A i \in 1 .. l : Live[i].verb \notin {"MAIL", "RCPT", "DATA"} \cup EndVerbs
    BY <1>0, <1>1, <1>3 DEF Awaits
  <2>2. ~server'.mail
    BY <2>1 DEF Serves, Answered
  <2>3. \A i \in 1 .. Len(Live') : Live'[i].verb \notin {"MAIL", "RCPT", "DATA"} \cup EndVerbs
    BY <1>1, <2>1
  <2>4. CASE pc = "envelope"
    <3>1. /\ \A i \in 1 .. l : Live[i].verb = "NOOP"
          /\ \A i \in 1 .. r : reps[i].code = "250"
          /\ "noop" \in flags
      BY <1>0, <1>1, <1>3, <2>4 DEF Awaits
    <3>2. a.reply.code = "250"
      BY <1>1, <3>1 DEF Serves, Answered
    <3>3. \A i \in 1 .. Len(reps') : reps'[i].code = "250"
      <4>1. \A i \in 1 .. r + 1 : i \in 1 .. r \/ i = r + 1
        OBVIOUS
      <4> QED
        BY <1>1, <1>2, <3>1, <3>2, <4>1
    <3>4. \A i \in 1 .. Len(Live') : Live'[i].verb = "NOOP"
      BY <1>1, <3>1
    <3> QED
      BY <1>0, <2>2, <2>3, <2>4, <3>1, <3>3, <3>4 DEF Awaits
  <2>5. CASE pc # "envelope"
    <3>1. \/ Due <= (IF pc \in {"handshake", "ready"} THEN 0 ELSE 1)
          \/ pc \in {"user", "auth"} /\ Blocked
      BY <1>0, <1>3, <2>5 DEF Awaits
    <3>2. Due' <= Due /\ Due \in Nat /\ Due' \in Nat
      <4>1. r + (m + 1) <= r + l /\ r + l \in Nat /\ r + (m + 1) \in Nat
        BY <1>1
      <4> QED
        BY <1>1, <4>1
    <3>3. Blocked => Blocked'
      <4>0. reps' # <<>> /\ Head(reps') = reps'[1]
        <5>1. PICK t : t = reps'
          OBVIOUS
        <5>2. t \in Seq(Replies) /\ Len(t) = r + 1
          BY <1>1, <5>1 DEF Serves
        <5>3. t # <<>> /\ Head(t) = t[1]
          BY <5>2
        <5> QED
          BY <5>1, <5>3
      <4>1. CASE Blocked /\ reps = <<>>
        <5>1. r = 0 /\ r + 1 = 1 /\ verb = "NOOP"
          BY <1>1, <4>1 DEF Blocked
        <5>2. a.reply.code = "250"
          BY <5>1 DEF Serves, Answered
        <5> QED
          BY <1>0, <1>2, <4>0, <4>1, <5>1, <5>2 DEF Blocked
      <4>2. CASE Blocked /\ reps # <<>>
        <5>1. reps \in Seq(Replies) /\ Head(reps) = reps[1] /\ 1 \in 1 .. r
          <6>1. reps \in Seq(Replies)
            BY <1>0, LinkType
          <6> QED
            BY <1>1, <4>2, <6>1
        <5> QED
          BY <1>0, <1>2, <4>0, <4>2, <5>1 DEF Blocked
      <4> QED
        BY <4>1, <4>2
    <3>4. \/ Due' <= (IF pc \in {"handshake", "ready"} THEN 0 ELSE 1)
          \/ pc \in {"user", "auth"} /\ Blocked'
      BY <3>1, <3>2, <3>3
    <3> QED
      BY <1>0, <2>2, <2>3, <2>5, <3>4 DEF Awaits
  <2> QED
    BY <2>4, <2>5
<1>4. CASE pc \notin Early
  BY <1>0, <1>4 DEF Awaits
<1> QED
  BY <1>3, <1>4

LEMMA ServesInTurn ==
  ASSUME IInv, NEW verb, NEW a, Serves(verb, a)
  PROVE  InTurn'
<1>0. /\ Typed /\ InTurn /\ Once /\ pc' = pc /\ Unwritten' = Unwritten /\ Needed' = Needed
      /\ Chunked' = Chunked /\ Pipelined' = Pipelined /\ server' = a.s
      /\ (Hopeless => Hopeless') /\ Needed \in Nat
  BY ServerLeaves, ServesHopeless DEF IInv, Serves, Needed
<1>1. PICK r \in Nat, l \in Nat, m \in Nat :
        /\ r = Len(reps) /\ Len(reps') = r + 1 /\ l = Len(Live) /\ m = Len(Live') /\ l # 0
        /\ m < l /\ (up' => l = m + 1) /\ Due = r + l /\ Due' = r + (m + 1)
        /\ \A i \in 1 .. m : i + 1 \in 1 .. l /\ Live'[i] = Live[i + 1]
        /\ 1 \in 1 .. l /\ Live[1].verb = verb
  BY <1>0, ServesLengths
<1>2. reps'[r + 1] = a.reply /\ \A i \in 1 .. r : reps'[i] = reps[i]
  BY <1>1 DEF Serves
<1>3. Answered(server, verb, a)
  BY DEF Serves
<1>4. CASE Chunked /\ pc \in {"mail", "rcpt", "content", "last"}
  <2>1. /\ \A i \in 1 .. l : Live[i].verb \in {"NOOP", "MAIL", "RCPT", "LAST", "QUIT"}
        /\ \A i \in 1 .. l : Live[i].verb = "MAIL" =>
             ~server.mail /\ taken = 0 /\ \A j \in 1 .. l : Live[j].verb = "MAIL" => i = j
        /\ \A i \in 1 .. l : Live[i].verb = "RCPT" =>
             ~server.rcpt /\ taken = 0 /\ \A j \in 1 .. l : Live[j].verb = "RCPT" => i = j
        /\ \A i \in 1 .. l : Live[i].verb = "QUIT" => r + i > Needed
        /\ \A i \in 1 .. r : i <= Needed => reps[i].code = "250" \/ Hopeless
        /\ pc = "mail" /\ ~Pipelined => NoRecipient
        /\ pc = "content" /\ Pipelined /\ up => Due >= 2
    BY <1>0, <1>1, <1>4 DEF InTurn
  <2>2. \A i \in 1 .. Len(Live') : Live'[i].verb \in {"NOOP", "MAIL", "RCPT", "LAST", "QUIT"}
    BY <1>1, <2>1
  <2>3. ASSUME NEW i \in 1 .. m, Live'[i].verb = "MAIL"
        PROVE  /\ ~server'.mail /\ taken' = 0
               /\ \A j \in 1 .. m : Live'[j].verb = "MAIL" => i = j
    <3>1. i + 1 \in 1 .. l /\ Live[i + 1].verb = "MAIL" /\ i + 1 # 1
      BY <1>1, <2>3
    <3>2. /\ ~server.mail /\ taken = 0
          /\ \A j \in 1 .. l : Live[j].verb = "MAIL" => i + 1 = j
      BY <2>1, <3>1
    <3>3. verb # "MAIL"
      BY <1>1, <3>1, <3>2
    <3>4. ~server'.mail /\ taken' = 0
      BY <1>0, <1>3, <3>2, <3>3, TakesNothing DEF Answered
    <3>5. ASSUME NEW j \in 1 .. m, Live'[j].verb = "MAIL"
          PROVE  i = j
      <4>1. i + 1 = j + 1
        BY <1>1, <3>2, <3>5
      <4> QED
        BY <4>1
    <3> QED
      BY <3>4, <3>5
  <2>4. ASSUME NEW i \in 1 .. m, Live'[i].verb = "RCPT"
        PROVE  /\ ~server'.rcpt /\ taken' = 0
               /\ \A j \in 1 .. m : Live'[j].verb = "RCPT" => i = j
    <3>1. i + 1 \in 1 .. l /\ Live[i + 1].verb = "RCPT" /\ i + 1 # 1
      BY <1>1, <2>4
    <3>2. /\ ~server.rcpt /\ taken = 0
          /\ \A j \in 1 .. l : Live[j].verb = "RCPT" => i + 1 = j
      BY <2>1, <3>1
    <3>3. verb # "RCPT"
      BY <1>1, <3>1, <3>2
    <3>4. ~server'.rcpt /\ taken' = 0
      BY <1>0, <1>3, <3>2, <3>3, TakesNothing DEF Answered
    <3>5. ASSUME NEW j \in 1 .. m, Live'[j].verb = "RCPT"
          PROVE  i = j
      <4>1. i + 1 = j + 1
        BY <1>1, <3>2, <3>5
      <4> QED
        BY <4>1
    <3> QED
      BY <3>4, <3>5
  <2>5. ASSUME NEW i \in 1 .. m, Live'[i].verb = "QUIT"
        PROVE  Len(reps') + i > Needed'
    <3>1. i + 1 \in 1 .. l /\ Live[i + 1].verb = "QUIT"
      BY <1>1, <2>5
    <3>2. r + (i + 1) > Needed
      BY <2>1, <3>1
    <3> QED
      BY <1>0, <1>1, <3>2
  <2>6. ASSUME r + 1 <= Needed
        PROVE  a.reply.code = "250" \/ Hopeless'
    <3>1. verb \in {"NOOP", "MAIL", "RCPT", "LAST"}
      <4>1. verb = "QUIT" => r + 1 > Needed
        BY <1>1, <2>1
      <4> QED
        BY <1>0, <1>1, <2>1, <2>6, <4>1
    <3>2. CASE verb = "NOOP"
      BY <1>3, <3>2 DEF Answered
    <3>3. CASE verb = "MAIL" /\ a.reply.code # "250"
      <4>1. ~server.mail /\ taken = 0 /\ server' = server
        BY <1>0, <1>1, <1>3, <2>1, <3>3 DEF Answered
      <4>2. taken' = 0
        BY <1>0, <4>1, TakesNothing
      <4>3. ASSUME NEW i \in 1 .. m
            PROVE  Live'[i].verb # "MAIL"
        <5>1. i + 1 \in 1 .. l /\ Live'[i] = Live[i + 1] /\ i + 1 # 1
          BY <1>1
        <5> QED
          BY <1>1, <2>1, <3>3, <5>1
      <4> QED
        BY <1>1, <4>1, <4>2, <4>3 DEF Hopeless, NoSender, NoVerb
    <3>4. CASE verb = "RCPT" /\ a.reply.code # "250"
      <4>1. ~server.rcpt /\ taken = 0 /\ server' = server
        BY <1>0, <1>1, <1>3, <2>1, <3>4 DEF Answered
      <4>2. taken' = 0
        BY <1>0, <4>1, TakesNothing
      <4>3. ASSUME NEW i \in 1 .. m
            PROVE  Live'[i].verb # "RCPT"
        <5>1. i + 1 \in 1 .. l /\ Live'[i] = Live[i + 1] /\ i + 1 # 1
          BY <1>1
        <5> QED
          BY <1>1, <2>1, <3>4, <5>1
      <4>4. ~(pc = "mail" /\ ~Pipelined)
        BY <1>1, <2>1, <3>4 DEF NoRecipient, NoVerb
      <4> QED
        BY <1>0, <1>1, <4>1, <4>2, <4>3, <4>4 DEF Hopeless, NoRecipient, NoVerb
    <3>5. CASE verb = "LAST" /\ a.reply.code # "250"
      <4>1. verb \in EndVerbs /\ a.took = {}
        BY <1>3, <3>5 DEF Answered, EndVerbs
      <4>2. NoEnd' /\ taken' = 0
        BY <4>1, ServesOnce
      <4>3. ~Unwritten
        BY <1>0, <1>1, <4>1 DEF Once, NoEnd
      <4> QED
        BY <1>0, <4>2, <4>3 DEF Hopeless
    <3> QED
      BY <3>1, <3>2, <3>3, <3>4, <3>5
  <2>7. ASSUME NEW i \in 1 .. Len(reps'), i <= Needed'
        PROVE  reps'[i].code = "250" \/ Hopeless'
    <3>1. i \in 1 .. r \/ i = r + 1
      BY <1>1
    <3>2. CASE i \in 1 .. r
      BY <1>0, <1>2, <2>1, <2>7, <3>2
    <3>3. CASE i = r + 1
      BY <1>0, <1>2, <2>6, <2>7, <3>3
    <3> QED
      BY <3>1, <3>2, <3>3
  <2>8. pc = "mail" /\ ~Pipelined => NoRecipient'
    <3>1. NoRecipient => verb # "RCPT" /\ NoVerb("RCPT")' /\ ~server.rcpt
      BY <1>1 DEF NoRecipient, NoVerb
    <3>2. NoRecipient => ~server'.rcpt
      BY <1>0, <1>3, <3>1 DEF Answered
    <3> QED
      BY <2>1, <3>1, <3>2 DEF NoRecipient
  <2>9. pc = "content" /\ Pipelined /\ up' => Due' >= 2
    <3>1. up /\ (up' => verb # "QUIT")
      BY DEF Serves
    <3>2. up' => Due' = Due
      BY <1>1, <3>1
    <3> QED
      BY <2>1, <3>1, <3>2
  <2> QED
    BY <1>0, <1>1, <2>2, <2>3, <2>4, <2>5, <2>7, <2>8, <2>9 DEF InTurn
<1>5. CASE ~(Chunked /\ pc \in {"mail", "rcpt", "content", "last"})
  BY <1>0, <1>5 DEF InTurn
<1> QED
  BY <1>4, <1>5

LEMMA ServesAligned ==
  ASSUME IInv, NEW verb, NEW a, Serves(verb, a)
  PROVE  Aligned'
<1>0. /\ Typed /\ Aligned /\ Once /\ pc' = pc /\ flags' = flags /\ Unwritten' = Unwritten
      /\ Needed' = Needed /\ Expected' = Expected /\ BadDad' = BadDad /\ Shifted' = Shifted
      /\ Needed \in Nat \ {0} /\ Expected \in Nat
  BY ServerLeaves DEF IInv, Serves, Needed, Expected
<1>1. PICK r \in Nat, l \in Nat, m \in Nat :
        /\ r = Len(reps) /\ Len(reps') = r + 1 /\ l = Len(Live) /\ m = Len(Live') /\ l # 0
        /\ m < l /\ (up' => l = m + 1) /\ Due = r + l /\ Due' = r + (m + 1)
        /\ \A i \in 1 .. m : i + 1 \in 1 .. l /\ Live'[i] = Live[i + 1]
        /\ 1 \in 1 .. l /\ Live[1].verb = verb
  BY <1>0, ServesLengths
<1>2. /\ reps'[r + 1] = a.reply /\ \A i \in 1 .. r : reps'[i] = reps[i]
      /\ up /\ up' = (verb # "QUIT")
  BY <1>1 DEF Serves
<1>3. CASE ~Shifted /\ ~BadDad /\ "nosend" \notin flags
  <2>1. CASE pc \in {"content", "mail", "rcpt", "data"} /\ Unwritten
    <3>1. Due <= Expected /\ Due = Expected
      BY <1>0, <1>2, <1>3, <2>1 DEF Aligned
    <3>2. Due' <= Expected /\ (up' => Due' = Expected)
      <4>1. r + (m + 1) <= r + l /\ (up' => r + (m + 1) = r + l)
        BY <1>1
      <4> QED
        BY <1>1, <3>1, <4>1
    <3> QED
      BY <1>0, <2>1, <3>2 DEF Aligned
  <2>2. CASE pc \in {"mail", "rcpt", "dot", "last"} /\ ~Unwritten
    <3>0. PICK k \in Nat \ {0} : k = Needed
      BY <1>0
    <3>1. IF r < k THEN k - r <= l /\ Live[k - r].verb \in EndVerbs
          ELSE reps[k].code \in Positive => taken = 1
      BY <1>0, <1>1, <1>2, <1>3, <2>2, <3>0 DEF Aligned
    <3>2. CASE r + 1 < k
      <4>1. PICK j \in Nat : j = k - (r + 1) /\ j + 1 = k - r /\ j # 0
        BY <3>2
      <4>2. k - r <= l /\ Live[k - r].verb \in EndVerbs
        BY <3>1, <3>2
      <4>3. up' => j + 1 <= m + 1
        BY <1>1, <4>1, <4>2
      <4>4. up' => j \in 1 .. m
        BY <4>1, <4>3
      <4>5. up' => Live'[j].verb \in EndVerbs
        BY <1>1, <4>1, <4>2, <4>4
      <4>6. /\ Len(reps') < Needed' /\ Needed' - Len(reps') = j
            /\ up' => j <= Len(Live')
        BY <1>0, <1>1, <3>0, <3>2, <4>1, <4>4
      <4> QED
        BY <1>0, <2>2, <4>5, <4>6 DEF Aligned
    <3>3. CASE r + 1 = k
      <4>1. k - r = 1 /\ verb \in EndVerbs
        BY <1>1, <3>1, <3>3
      <4>2. taken' = IF a.took = {} THEN 0 ELSE 1
        BY <4>1, ServesOnce
      <4>3. a.reply.code \in Positive => taken' = 1
        BY <4>1, <4>2 DEF Serves, Answered, Positive, Refusals
      <4>4. reps'[k].code \in Positive => taken' = 1
        BY <1>2, <3>3, <4>3
      <4>5. ~(Len(reps') < Needed') /\ Needed' = k
        BY <1>0, <1>1, <3>0, <3>3
      <4> QED
        BY <1>0, <2>2, <4>4, <4>5 DEF Aligned
    <3>4. CASE r >= k
      <4>1. k \in 1 .. r /\ ~(r < k) /\ ~(r + 1 < k)
        BY <3>4
      <4>2. reps'[k].code \in Positive => taken' = 1
        BY <1>2, <3>1, <4>1, ServesOnce
      <4> QED
        BY <1>0, <1>1, <2>2, <3>0, <4>1, <4>2 DEF Aligned
    <3> QED
      BY <3>2, <3>3, <3>4
  <2>3. CASE /\ ~(pc \in {"content", "mail", "rcpt", "data"} /\ Unwritten)
             /\ ~(pc \in {"mail", "rcpt", "dot", "last"} /\ ~Unwritten)
    BY <1>0, <2>3 DEF Aligned
  <2> QED
    BY <2>1, <2>2, <2>3
<1>4. CASE ~(~Shifted /\ ~BadDad /\ "nosend" \notin flags)
  BY <1>0, <1>4 DEF Aligned
<1> QED
  BY <1>3, <1>4

LEMMA ServerStepKeeps ==
  ASSUME IInv, ServerStep
  PROVE  IInv'
<1>0. Typed /\ Placed /\ Once /\ Failed /\ SentIsTaken
  BY DEF IInv
<1>1. PICK a, verb : Serves(verb, a)
  BY <1>0, ServerMoves
<1>2. /\ UNCHANGED <<pc, flags, hosts, params, ext, msg, said>> /\ server' = a.s
      /\ server' \in Peer /\ Sane(server') /\ reps' \in Seq(Replies)
      /\ cmds' \in Seq(Commands) /\ up' \in BOOLEAN
  BY <1>1 DEF Serves, Answered
<1>3. Once' /\ (taken = 1 => taken' = 1)
  BY <1>1, ServesOnce
<1>4. taken' \in 0 .. MaxHosts + 1
  <2>1. taken \in Nat /\ taken' \in Nat /\ taken' <= 1
    BY <1>0, <1>1, <1>3, LinkType DEF Serves, Once
  <2> QED
    BY <2>1, SndBoundAssumption
<1>5. Typed'
  <2>1. TypeOK'
    BY <1>0, <1>2, <1>4 DEF Typed, TypeOK, Replies
  <2>2. Sane(server)'
    BY <1>2
  <2> QED
    BY <1>2, <2>1, <2>2 DEF Typed
<1>6. Placed'
  BY <1>0, <1>2, ServerLeaves DEF Placed
<1>7. Failed'
  BY <1>0, <1>1, <1>2, ServesHopeless DEF Failed
<1>8. SentIsTaken'
  <2>1. Shifted' = Shifted
    BY <1>2, ServerLeaves
  <2> QED
    BY <1>0, <1>2, <1>3, <2>1 DEF SentIsTaken
<1> QED
  BY <1>1, <1>3, <1>5, <1>6, <1>7, <1>8, ServesAwaits, ServesInTurn, ServesAligned DEF IInv

\* What is on its way to the server is lost.
LEMMA BreakKeeps ==
  ASSUME IInv, Break
  PROVE  IInv'
<1>0. /\ Typed /\ Placed /\ Once /\ Awaits /\ InTurn /\ Failed /\ Aligned /\ SentIsTaken
      /\ UNCHANGED <<pc, flags, hosts, params, ext, cmds, reps, server, msg, taken, said>>
      /\ up' = FALSE
  BY DEF IInv, Break
<1>1. PICK l : l = Live'
  OBVIOUS
<1>2. l = <<>> /\ Len(l) = 0 /\ \A i \in 1 .. Len(l) : FALSE
  BY <1>0, <1>1 DEF Live
<1>3. Len(reps) \in Nat /\ Len(Live) \in Nat /\ Due = Len(reps) + Len(Live) /\ Due' = Len(reps)
  BY <1>0, <1>1, <1>2, LinkType DEF Due
<1>4. Due' <= Due /\ Due' \in Nat /\ Due \in Nat
  BY <1>3
<1>5. NoEnd' /\ NoVerb("MAIL")' /\ NoVerb("RCPT")'
  BY <1>1, <1>2 DEF NoEnd, NoVerb
<1>6. /\ Unwritten' = Unwritten /\ Needed' = Needed /\ Expected' = Expected
      /\ Chunked' = Chunked /\ Pipelined' = Pipelined /\ BadDad' = BadDad /\ Shifted' = Shifted
  BY <1>0, ServerLeaves
<1>7. Hopeless => Hopeless'
  BY <1>0, <1>5, <1>6 DEF Hopeless, NoSender, NoRecipient
<1>8. Typed'
  BY <1>0 DEF Typed, TypeOK, Sane
<1>9. Placed' /\ Failed' /\ SentIsTaken'
  BY <1>0, <1>6, <1>7 DEF Placed, Failed, SentIsTaken
<1>10. Once'
  BY <1>0, <1>1, <1>2, <1>5, <1>6 DEF Once
<1>11. Awaits'
  <2>1. pc \in {"user", "auth"} /\ Blocked => Due' <= 1 \/ Blocked'
    <3>1. CASE reps = <<>>
      BY <1>3, <3>1
    <3>2. CASE reps # <<>>
      BY <1>0, <3>2 DEF Blocked
    <3> QED
      BY <3>1, <3>2
  <2>2. CASE pc \in Early
    <3>1. ~server'.mail
      BY <1>0, <2>2 DEF Awaits
    <3>2. \A i \in 1 .. Len(Live') : FALSE
      BY <1>1, <1>2
    <3>3. CASE pc = "envelope"
      <4>1. (\A i \in 1 .. Len(reps) : reps[i].code = "250") /\ ("noop" \in flags \/ Due = 0)
        BY <1>0, <2>2, <3>3 DEF Awaits
      <4>2. "noop" \in flags \/ Due' = 0
        BY <1>4, <4>1
      <4> QED
        BY <1>0, <3>1, <3>2, <3>3, <4>1, <4>2 DEF Awaits
    <3>4. CASE pc # "envelope"
      <4>1. \/ Due <= (IF pc \in {"handshake", "ready"} THEN 0 ELSE 1)
            \/ pc \in {"user", "auth"} /\ Blocked
        BY <1>0, <2>2, <3>4 DEF Awaits
      <4>2. \/ Due' <= (IF pc \in {"handshake", "ready"} THEN 0 ELSE 1)
            \/ pc \in {"user", "auth"} /\ Blocked'
        BY <1>4, <2>1, <4>1
      <4> QED
        BY <1>0, <3>1, <3>2, <3>4, <4>2 DEF Awaits
    <3> QED
      BY <3>3, <3>4
  <2>3. CASE pc \notin Early
    BY <1>0, <2>3 DEF Awaits
  <2> QED
    BY <2>2, <2>3
<1>12. InTurn'
  <2>1. \A i \in 1 .. Len(Live') : FALSE
    BY <1>1, <1>2
  <2>2. NoRecipient => NoRecipient'
    BY <1>0, <1>5 DEF NoRecipient
  <2> QED
    BY <1>0, <1>6, <1>7, <2>1, <2>2 DEF InTurn
<1>13. Aligned'
  <2>1. \A e \in Int : Due <= e => Due' <= e
    BY <1>4
  <2>2. Expected \in Int
    BY DEF Expected
  <2> QED
    BY <1>0, <1>6, <2>1, <2>2 DEF Aligned
<1> QED
  BY <1>8, <1>9, <1>10, <1>11, <1>12, <1>13 DEF IInv
-----------------------------------------------------------------------------
(***************************************************************************)
(* The program.                                                            *)
(***************************************************************************)
LEMMA InitKeeps ==
  ASSUME Init
  PROVE  IInv
<1>0. /\ pc = "start" /\ hosts = 0 /\ params = {} /\ ext = {} /\ cmds = <<>> /\ reps = <<>>
      /\ up = FALSE /\ server = Fresh /\ msg = Spool!Fresh /\ taken = 0 /\ said = FALSE
  BY DEF Init
<1>1. flags \subseteq KnownFlags
  BY ToggledAssumption DEF Init, KnownFlags, Defaults
<1>2. msg \in Spool!Store /\ msg.new = "none"
  BY <1>0 DEF Spool!Fresh, Spool!Store, Spool!FileContent
<1>3. server \in Peer /\ Sane(server)
  BY <1>0 DEF Fresh, Peer, Sane
<1>4. hosts \in 0 .. MaxHosts /\ taken \in 0 .. MaxHosts + 1
  BY <1>0, SndBoundAssumption
<1>5. Typed
  <2>1. TypeOK
    <3>1. reps \in Seq([code : Codes, ext : SUBSET Extensions])
      BY <1>0
    <3>2. params \subseteq Extensions /\ ext \subseteq DOMAIN Use
      BY <1>0
    <3> QED
      BY <1>0, <1>1, <1>2, <1>3, <1>4, <3>1, <3>2 DEF TypeOK
  <2>2. cmds \in Seq(Commands)
    BY <1>0
  <2> QED
    BY <1>3, <2>1, <2>2 DEF Typed
<1>6. Live = <<>>
  BY <1>0 DEF Live
<1>7. Once
  <2>1. PICK l : l = Live
    OBVIOUS
  <2>2. \A i \in 1 .. Len(l) : FALSE
    BY <1>6, <2>1
  <2> QED
    BY <1>0, <2>1, <2>2 DEF Once, NoEnd
<1>8. Placed /\ Awaits /\ InTurn /\ Failed /\ Aligned /\ SentIsTaken
  BY <1>0, <1>2 DEF Placed, Awaits, Early, InTurn, Failed, Aligned, SentIsTaken
<1> QED
  BY <1>5, <1>7, <1>8 DEF IInv

LEMMA StutterKeeps ==
  ASSUME IInv, UNCHANGED vars
  PROVE  IInv'
<1>0. UNCHANGED <<pc, flags, hosts, params, ext, cmds, reps, up, server, msg, taken, said>>
  BY DEF vars, link
<1>1. Live' = Live
  BY <1>0 DEF Live
<1>2. Due' = Due /\ NoEnd' = NoEnd /\ NoSender' = NoSender /\ NoRecipient' = NoRecipient
  BY <1>0, <1>1 DEF Due, NoEnd, NoSender, NoRecipient, NoVerb
<1>3. /\ Unwritten' = Unwritten /\ Needed' = Needed /\ Expected' = Expected
      /\ Chunked' = Chunked /\ Pipelined' = Pipelined /\ BadDad' = BadDad /\ Shifted' = Shifted
  BY <1>0, ServerLeaves
<1>4. Hopeless' = Hopeless
  BY <1>0, <1>2, <1>3 DEF Hopeless
<1>5. Typed' /\ Placed' /\ Failed' /\ SentIsTaken'
  BY <1>0, <1>3, <1>4 DEF IInv, Typed, TypeOK, Sane, Placed, Failed, SentIsTaken
<1>6. Once' /\ Awaits' /\ InTurn' /\ Aligned'
  BY <1>0, <1>1, <1>2, <1>3, <1>4 DEF IInv, Once, Awaits, Blocked, InTurn, Aligned
<1> QED
  BY <1>5, <1>6 DEF IInv

LEMMA NextKeeps ==
  ASSUME IInv, [Next]_vars
  PROVE  IInv'
<1>1. CASE Opening
  BY <1>1, StartKeeps, ConnectKeeps, RanOutKeeps, GreetingAnsweredKeeps, EhloAnsweredKeeps,
     HeloAnsweredKeeps, StarttlsAnsweredKeeps, HandshakeKeeps, EhloTlsAnsweredKeeps, ReadyKeeps,
     AuthAnsweredKeeps DEF Opening
<1>2. CASE Sending
  BY <1>2, EnvelopeKeeps, MailAnsweredKeeps, RcptAnsweredKeeps, ContentKeeps, DataAnsweredKeeps,
     DotAnsweredKeeps, LastAnsweredKeeps, QuitAnsweredKeeps, ReplyMissingKeeps DEF Sending
<1>3. CASE ServerStep
  BY <1>3, ServerStepKeeps
<1>4. CASE Break
  BY <1>4, BreakKeeps
<1>5. CASE UNCHANGED vars
  BY <1>5, StutterKeeps
<1> QED
  BY <1>1, <1>2, <1>3, <1>4, <1>5 DEF Next

\* The strengthening holds in every state: of each connection at most one end of a message is on
\* its way, and replies stand where the program looks for them.
THEOREM SndInvariant == Spec => []IInv
<1>1. Init => IInv
  BY InitKeeps
<1>2. IInv /\ [Next]_vars => IInv'
  BY NextKeeps
<1> QED
  BY <1>1, <1>2, PTL DEF Spec

\* However many receivers are found and whatever they answer, no second server takes the message:
\* main() goes on to the next host only from where snd() has not written the end of the message.
THEOREM SndTakenOnce == Spec => []TakenOnce
<1>1. IInv => TakenOnce
  BY DEF IInv, Once, TakenOnce
<1> QED
  BY <1>1, SndInvariant, PTL

\* When "mail was sent successfully" is logged or a copy is put in .Sent, and no NOOP has shifted
\* the replies, a server has the message; when the program ends in EXIT_FAILURE none has it.
THEOREM SndSaysWhatHappened == Spec => []SaysWhatHappened
<1>1. IInv => SaysWhatHappened
  BY DEF IInv, Typed, Failed, Hopeless, FailureIsNotTaken, SaysWhatHappened
<1> QED
  BY <1>1, SndInvariant, PTL
=============================================================================
