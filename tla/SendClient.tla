------------------------------ MODULE SendClient ------------------------------
(***************************************************************************)
(* Class Send (src/Send.cpp), an SMTP client as an object, with an SMTP    *)
(* server at the other end of its connection.  Its owner calls             *)
(* mail_from_rcpt_to(), send(), rset() and quit() in any order; a call     *)
(* writes commands and reads replies, each reply taken for the answer to   *)
(* the command the code has in mind.  Connections break and reads time     *)
(* out.                                                                    *)
(*                                                                         *)
(* Between a write and the read that waits for its answer the server may   *)
(* take its steps, so a method is one action per reply it waits for.       *)
(***************************************************************************)
EXTENDS SmtpPeer, SequencesExt

CONSTANTS
  UseEsmtp,     \* FLAGS_use_esmtp
  MaxMx,        \* bound on the mail exchangers of a domain, not in the code
  MaxCalls,     \* bound on the calls of the owner, not in the code
  MaxChunks     \* bound on the buffers a message fills, not in the code

KnownExtensions == {"STARTTLS", "PIPELINING", "CHUNKING"}

ASSUME ExtensionAssumption == Extensions \subseteq KnownExtensions
ASSUME EsmtpAssumption     == UseEsmtp \in BOOLEAN
ASSUME BoundAssumption     == MaxMx \in Nat /\ MaxCalls \in Nat /\ MaxChunks \in Nat \ {0}

VARIABLES
  pc,          \* what the client does: the reply it waits for
  mxs,         \* mail exchangers left to try
  conn,        \* conn_: no object, one with open descriptors, one with closed ones
  good,        \* no error bit is set in the one stream that is in() and out()
  ehlo_ok,     \* Connection::ehlo_ok
  ehlo_params, \* the keys of Connection::ehlo_params
  bulk,        \* the locals of do_bdat
  cmds, reps,  \* commands and replies on their way
  up,          \* the server still reads this connection
  server,      \* what the server knows of it
  calls,       \* calls made so far; the number of a send() names its message
  sent,        \* the messages for which send() returned true
  stored,      \* the messages the server has taken, with whether it has all of them
  lost         \* a connection broke or a read timed out

link    == <<cmds, reps, up, server>>
session == <<conn, ehlo_ok, ehlo_params>>
history == <<calls, sent, stored>>

vars == <<pc, mxs, session, good, bulk, link, history, lost>>

Waits == {"greeting", "ehlo", "helo", "starttls", "ehlo_tls", "mail", "mail_pipelined", "rcpt",
          "data", "dot", "bdat", "last", "rset", "quit"}

Replies == [code : Codes, ext : SUBSET KnownExtensions]

Commands == [verb : {"EHLO", "HELO", "STARTTLS", "MAIL", "RCPT", "DATA", "dot", "BDAT", "LAST",
                     "RSET", "QUIT"},
             m : 0..MaxCalls, n : 0..MaxChunks]

TypeOK ==
  /\ pc \in Waits \cup {"idle", "connect", "handshake", "aborted"}
  /\ mxs \in 0..MaxMx
  /\ conn \in {"none", "open", "closed"}
  /\ good \in BOOLEAN /\ ehlo_ok \in BOOLEAN /\ up \in BOOLEAN /\ lost \in BOOLEAN
  /\ ehlo_params \subseteq Extensions
  /\ bulk \in [n : 0..MaxChunks, left : 0..MaxChunks, error : BOOLEAN]
  /\ cmds \in Seq(Commands) /\ reps \in Seq(Replies)
  /\ server \in Peer
  /\ calls \in 0..MaxCalls
  /\ sent \subseteq 1..MaxCalls
  /\ stored \subseteq [m : 1..MaxCalls, whole : BOOLEAN]

NoBulk == [n |-> 0, left |-> 0, error |-> FALSE]

Init ==
  /\ pc = "idle" /\ mxs = 0
  /\ conn = "none" /\ good = TRUE /\ ehlo_ok = FALSE /\ ehlo_params = {}
  /\ bulk = NoBulk
  /\ cmds = <<>> /\ reps = <<>> /\ up = FALSE /\ server = Fresh
  /\ calls = 0 /\ sent = {} /\ stored = {} /\ lost = FALSE
-----------------------------------------------------------------------------
\* The server answers each command once, in the order they come.
ServerStep ==
  /\ up /\ cmds # <<>>
  /\ cmds' = Tail(cmds)
  /\ \E a \in Answers(server, Head(cmds)) :
       /\ reps' = Append(reps, a.reply)
       /\ server' = a.s
       /\ stored' = stored \cup a.took
  /\ up' = (Head(cmds).verb # "QUIT")
  /\ UNCHANGED <<pc, mxs, session, good, bulk, calls, sent, lost>>

\* The connection breaks, or the server gives up on it.
Break ==
  /\ up /\ up' = FALSE
  /\ lost' = TRUE
  /\ UNCHANGED <<pc, mxs, session, good, bulk, cmds, reps, server, history>>
-----------------------------------------------------------------------------
\* What is written to a stream with its error bits set, or to nobody, is lost.
Write(commands) == cmds' = IF good' /\ up THEN cmds \o commands ELSE cmds

\* parse<reply_lines>: the next reply on the connection, whatever it answers.
Reads(wait, r) ==
  /\ pc = wait /\ good /\ reps # <<>>
  /\ r = Head(reps)
  /\ reps' = Tail(reps)
  /\ UNCHANGED <<good, up, server>>

\* A reply with one of the codes is there and is read.
Read(wait, codes) == \E r \in ToSet(reps) : r.code \in codes /\ Reads(wait, r)

\* parse fails: the stream had failed, or it fails now, by an end or a time-out.
ReadFails(wait) ==
  /\ pc = wait
  /\ good => reps = <<>>
  /\ good' = FALSE
  /\ lost' = TRUE
  /\ UNCHANGED <<reps, up, server>>

\* The call goes on to wait for another reply.
Await(wait) == pc' = wait /\ UNCHANGED <<mxs, session, bulk, history>>

\* The call returns false, or true where that means nothing more.
Return == Await("idle")

\* A CHECK fails or OpenSSL's error is fatal.
Abort == Await("aborted")

\* Wrong: the mail exchanger that failed is tried again.
NextMx_Again ==
  /\ pc' = "connect"
  /\ conn' = "none"
  /\ cmds' = <<>>
  /\ mxs' = mxs + 1
  /\ UNCHANGED <<ehlo_ok, ehlo_params, bulk, history>>

\* close(fd): nothing but greetings has been written, which nobody needs to read.
NextMx ==
  /\ pc' = "connect"
  /\ conn' = "none"
  /\ cmds' = <<>>
  /\ UNCHANGED <<mxs, ehlo_ok, ehlo_params, bulk, history>>
-----------------------------------------------------------------------------
\* Send::mail_from_rcpt_to: get_mxs returns nothing for a null MX.  A server that
\* reads to the end of the old connection has done so before the new one is opened.
CallMail ==
  /\ pc = "idle" /\ calls < MaxCalls
  /\ cmds = <<>> \/ ~up
  /\ calls' = calls + 1
  /\ conn' = "none"
  /\ mxs' \in 0..MaxMx
  /\ pc' = IF mxs' = 0 THEN "aborted" ELSE "connect"
  /\ UNCHANGED <<good, ehlo_ok, ehlo_params, bulk, link, sent, stored, lost>>

\* conn() finds no address that takes a connection.
ConnectFails ==
  /\ pc = "connect" /\ mxs > 0
  /\ mxs' = mxs - 1
  /\ UNCHANGED <<pc, session, good, bulk, link, history, lost>>

RanOut == pc = "connect" /\ mxs = 0 /\ Return /\ UNCHANGED <<good, link, lost>>

\* open_session up to the greeting, if one comes; only its code is looked at.
Connect ==
  /\ pc = "connect" /\ mxs > 0
  /\ mxs' = mxs - 1
  /\ conn' = "open" /\ good' = TRUE /\ ehlo_ok' = FALSE /\ ehlo_params' = {}
  /\ cmds' = <<>> /\ up' = TRUE /\ server' = Fresh
  /\ reps' \in {<<>>} \cup {<<greeting>> : greeting \in Greetings}
  /\ pc' = "greeting"
  /\ UNCHANGED <<bulk, history, lost>>

GreetingOk ==
  /\ Read("greeting", {"220"})
  /\ LET verb == IF UseEsmtp THEN "EHLO" ELSE "HELO"
     IN  Write(<<Plain(verb)>>) /\ Await(IF UseEsmtp THEN "ehlo" ELSE "helo")
  /\ UNCHANGED lost

GreetingNotOk ==
  \/ Read("greeting", Codes \ {"220"}) /\ NextMx /\ UNCHANGED lost
  \/ ReadFails("greeting") /\ NextMx

\* from_params, mail_from_rcpt_to_pipelined, do_mail_from
SendEnvelope(params) ==
  IF "PIPELINING" \in params
  THEN Write(<<Plain("MAIL"), Plain("RCPT")>>) /\ pc' = "mail_pipelined"
  ELSE Write(<<Plain("MAIL")>>) /\ pc' = "mail"

AfterHello(params) ==
  IF "STARTTLS" \in params
  THEN Write(<<Plain("STARTTLS")>>) /\ pc' = "starttls"
  ELSE SendEnvelope(params)

EhloOk ==
  \E r \in ToSet(reps) :
    /\ Reads("ehlo", r) /\ r.code = "250"
    /\ ehlo_ok' = TRUE
    /\ ehlo_params' = ehlo_params \cup r.ext
    /\ AfterHello(ehlo_params')
    /\ UNCHANGED <<mxs, conn, bulk, history, lost>>

EhloNotOk ==
  /\ \/ Read("ehlo", Codes \ {"250"}) /\ UNCHANGED lost
     \/ ReadFails("ehlo")
  /\ Write(<<Plain("HELO")>>)
  /\ Await("helo")

HeloOk ==
  /\ Read("helo", {"250"})
  /\ AfterHello(ehlo_params)
  /\ UNCHANGED <<mxs, session, bulk, history, lost>>

HeloNotOk ==
  \/ Read("helo", Codes \ {"250"}) /\ NextMx /\ UNCHANGED lost
  \/ ReadFails("helo") /\ NextMx

\* The reply to STARTTLS must parse, nothing more.
StarttlsAnswered ==
  \/ Read("starttls", Codes) /\ Await("handshake") /\ UNCHANGED <<cmds, lost>>
  \/ ReadFails("starttls") /\ NextMx

\* A handshake with a server that is in none cannot succeed, and none that fails
\* returns: starttls_client gets false only from DANE, which is not enforced.
Handshake ==
  /\ pc = "handshake"
  /\ UNCHANGED <<good, reps, up, server, lost>>
  /\ \/ Abort /\ UNCHANGED cmds
     \/ server.tls /\ up /\ Write(<<Plain("EHLO")>>) /\ Await("ehlo_tls")

\* ehlo_ok is still true from the EHLO that announced STARTTLS, and what was
\* announced then is kept: any reply that parses will do.
EhloTlsAnswered ==
  \/ \E r \in ToSet(reps) :
       /\ Reads("ehlo_tls", r)
       /\ ehlo_params' = ehlo_params \cup r.ext
       /\ ehlo_ok
       /\ SendEnvelope(ehlo_params')
       /\ UNCHANGED <<mxs, conn, ehlo_ok, bulk, history, lost>>
  \/ ReadFails("ehlo_tls") /\ NextMx
-----------------------------------------------------------------------------
\* do_reply_lines: only a 2xx will do.
MailAnswered ==
  \/ Read("mail", Positive) /\ Write(<<Plain("RCPT")>>) /\ Await("rcpt") /\ UNCHANGED lost
  \/ Read("mail", Codes \ Positive) /\ Return /\ UNCHANGED <<cmds, lost>>
  \/ ReadFails("mail") /\ Return /\ UNCHANGED cmds

\* Wrong: the answer to RCPT is left unread when MAIL is accepted, too.
MailPipelinedAnswered_One ==
  \/ Read("mail_pipelined", Codes) /\ Return /\ UNCHANGED <<cmds, lost>>
  \/ ReadFails("mail_pipelined") /\ Return /\ UNCHANGED cmds

\* && stops at a MAIL refused: the answer to RCPT is left on the connection.
MailPipelinedAnswered ==
  \/ Read("mail_pipelined", Positive) /\ Await("rcpt") /\ UNCHANGED <<cmds, lost>>
  \/ Read("mail_pipelined", Codes \ Positive) /\ Return /\ UNCHANGED <<cmds, lost>>
  \/ ReadFails("mail_pipelined") /\ Return /\ UNCHANGED cmds

RcptAnswered ==
  \/ Read("rcpt", Codes) /\ Return /\ UNCHANGED <<cmds, lost>>
  \/ ReadFails("rcpt") /\ Return /\ UNCHANGED cmds
-----------------------------------------------------------------------------
\* A call of the owner that writes to the connection.  Writing to a closed
\* descriptor fails the PCHECK of POSIX::write; Send::quit leaves conn_ behind.
Call(commands, wait) ==
  /\ pc = "idle" /\ calls < MaxCalls
  /\ conn # "none"
  /\ calls' = calls + 1
  /\ UNCHANGED <<mxs, session, good, reps, up, server, sent, stored, lost>>
  /\ IF conn = "closed" /\ good
     THEN pc' = "aborted" /\ UNCHANGED cmds
     ELSE pc' = wait /\ Write(commands)

\* do_send
CallSend ==
  \/ /\ "CHUNKING" \notin ehlo_params
     /\ Call(<<Plain("DATA")>>, "data")
     /\ UNCHANGED bulk
  \/ /\ "CHUNKING" \in ehlo_params
     /\ \E n \in 1..MaxChunks :
          /\ bulk' = [n |-> n, left |-> n - 1, error |-> FALSE]
          /\ Call(<<Command("BDAT", calls', n)>>, "bdat")

\* The final reply says that the message was taken.
Sent(r) == r.code \in Positive

DataAnswered ==
  \/ /\ Read("data", {"354"})
     /\ Write(<<Command("dot", calls, 1)>>)
     /\ Await("dot")
     /\ UNCHANGED lost
  \/ Read("data", Codes \ {"354"}) /\ Return /\ UNCHANGED <<cmds, lost>>
  \/ ReadFails("data") /\ Return /\ UNCHANGED cmds

\* Writing the lines fails on the way: send() returns false before the dot.
DataWriteFails ==
  /\ pc = "data" /\ good /\ reps # <<>> /\ Head(reps).code = "354"
  /\ reps' = Tail(reps)
  /\ good' = FALSE /\ up' = FALSE /\ lost' = TRUE
  /\ Return
  /\ UNCHANGED <<cmds, server>>

DotAnswered ==
  \/ \E r \in ToSet(reps) :
       /\ Reads("dot", r)
       /\ sent' = IF Sent(r) THEN sent \cup {calls} ELSE sent
       /\ pc' = "idle"
       /\ UNCHANGED <<mxs, session, bulk, cmds, calls, stored, lost>>
  \/ ReadFails("dot") /\ Return /\ UNCHANGED cmds

\* Wrong: the loop ends one buffer early.
BdatAnswered_OneShort ==
  /\ \/ /\ Read("bdat", {"250"})
        /\ IF bulk.left > 1
           THEN /\ pc' = "bdat"
                /\ bulk' = [bulk EXCEPT !.left = @ - 1]
                /\ Write(<<Command("BDAT", calls, bulk.n)>>)
           ELSE /\ pc' = "last" /\ UNCHANGED bulk
                /\ Write(<<Command("LAST", calls, bulk.n)>>)
        /\ UNCHANGED lost
     \/ /\ ReadFails("bdat") /\ Abort /\ UNCHANGED <<cmds, bulk>>
  /\ UNCHANGED <<mxs, session, history>>

\* The next buffer, or after the last one or an error the end of the message.
BdatAnswered ==
  /\ \/ /\ Read("bdat", {"250"})
        /\ IF bulk.left > 0
           THEN /\ pc' = "bdat"
                /\ bulk' = [bulk EXCEPT !.left = @ - 1]
                /\ Write(<<Command("BDAT", calls, bulk.n)>>)
           ELSE /\ pc' = "last" /\ UNCHANGED bulk
                /\ Write(<<Command("LAST", calls, bulk.n)>>)
        /\ UNCHANGED lost
     \/ /\ \/ Read("bdat", Codes \ {"250"}) /\ UNCHANGED lost
           \/ ReadFails("bdat")
        /\ pc' = "last"
        /\ bulk' = [bulk EXCEPT !.error = TRUE]
        /\ Write(<<Command("LAST", calls, bulk.n)>>)
  /\ UNCHANGED <<mxs, session, history>>

\* The reply to BDAT 0 LAST is read inside a CHECK.
LastAnswered ==
  \/ \E r \in ToSet(reps) :
       /\ Reads("last", r)
       /\ sent' = IF r.code = "250" /\ ~bulk.error THEN sent \cup {calls} ELSE sent
       /\ pc' = "idle"
       /\ UNCHANGED <<mxs, session, bulk, cmds, calls, stored, lost>>
  \/ ReadFails("last") /\ Abort /\ UNCHANGED cmds

\* Send::rset and Send::quit look at nothing but whether a reply could be read.
CallRset == Call(<<Plain("RSET")>>, "rset") /\ UNCHANGED bulk

RsetAnswered ==
  \/ Read("rset", Codes) /\ Return /\ UNCHANGED <<cmds, lost>>
  \/ ReadFails("rset") /\ Return /\ UNCHANGED cmds

CallQuit == Call(<<Plain("QUIT")>>, "quit") /\ UNCHANGED bulk

QuitAnswered ==
  /\ \/ Read("quit", Codes) /\ UNCHANGED lost
     \/ ReadFails("quit")
  /\ conn' = "closed"
  /\ pc' = "idle"
  /\ UNCHANGED <<mxs, ehlo_ok, ehlo_params, bulk, cmds, history>>
-----------------------------------------------------------------------------
Opening ==
  \/ ConnectFails \/ RanOut \/ Connect \/ GreetingOk \/ GreetingNotOk
  \/ EhloOk \/ EhloNotOk \/ HeloOk \/ HeloNotOk
  \/ StarttlsAnswered \/ Handshake \/ EhloTlsAnswered

Answered ==
  \/ MailAnswered \/ MailPipelinedAnswered \/ RcptAnswered
  \/ DataAnswered \/ DataWriteFails \/ DotAnswered \/ BdatAnswered \/ LastAnswered
  \/ RsetAnswered \/ QuitAnswered

Owner == CallMail \/ CallSend \/ CallRset \/ CallQuit

Next == Opening \/ Answered \/ Owner \/ ServerStep \/ Break

Spec == Init /\ [][Next]_vars

\* A read ends after two minutes at the latest, connect() after the system's own
\* time, and the program that is not waiting runs.  Of the server nothing is
\* assumed.
FairSpec == Spec /\ WF_vars(Opening) /\ WF_vars(Answered)
-----------------------------------------------------------------------------
\* send() returns true only for a message that the server has taken, whatever was
\* left unread on the connection before: replies are matched to commands by
\* nothing but their order.
SentIsStored == \A m \in sent : [m |-> m, whole |-> TRUE] \in stored

\* As long as nothing is lost the converse holds: a message for which send()
\* returned false can be sent again without a second copy being made.
StoredIsSent ==
  ~lost => \A s \in stored : s.m \in sent \/ (s.m = calls /\ pc \in {"dot", "last"})

\* do_bdat sends BDAT 0 LAST after an error, too: what the server takes is never a
\* message cut off there.
NeverCutOff == \A s \in stored : s.whole

\* The client, in a state of the right types, and the server agree on which messages were
\* taken, and on all of each.
MessagesAgree == TypeOK /\ SentIsStored /\ StoredIsSent /\ NeverCutOff

\* mail_from_rcpt_to_pipelined leaves the answer to RCPT unread when MAIL is
\* refused.  From then on every answer is taken for that of the next command;
\* it can do no harm because the server has no transaction, and no later call
\* opens one on this connection.
OutOfStepHasNoMail ==
  (pc = "idle" /\ conn = "open" /\ good /\ up /\ Len(cmds) + Len(reps) > 0) =>
    /\ Len(cmds) + Len(reps) = 1
    /\ ~server.mail

\* Every call returns or ends the process, whatever the server does.
CallReturns == pc \notin {"idle", "aborted"} ~> pc \in {"idle", "aborted"}
=============================================================================
