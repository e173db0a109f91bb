--------------------------------- MODULE Snd ---------------------------------
(***************************************************************************)
(* Program snd (src/snd.cpp): one message, the hosts of its recipient one  *)
(* after the other, and with each an SMTP session that gives up (the next  *)
(* host is tried), ends the process, or returns true.  The flags of the    *)
(* command line are chosen in the initial state; the copy of the message   *)
(* for folder .Sent is a MessageStore (MessageStoreOps).                   *)
(*                                                                         *)
(* As in SendClient an action ends where the program waits for a reply.    *)
(***************************************************************************)
EXTENDS SmtpPeer, TLC

CONSTANTS
  Faults,      \* system calls of MessageStore that may fail
  Toggled,     \* the flags a user may set otherwise than they are by default
  Size,        \* the message's size in units, total_size
  MaxHosts     \* bound on the receivers found, not in the code

Spool == INSTANCE MessageStoreOps

KnownFlags == {"pipe", "save", "nosend", "noop", "badpipline", "pipeline_quit", "bare_lf", "auth",
               "require_tls", "force_smtputf8", "use_esmtp", "use_tls", "use_chunking",
               "use_pipelining", "use_size", "use_smtputf8", "use_8bitmime"}

Defaults == {"require_tls", "use_esmtp", "use_tls", "use_chunking", "use_pipelining", "use_size",
             "use_smtputf8", "use_8bitmime"}

\* EHLO lines; "SIZE low" is a limit below Size.
KnownExtensions == {"STARTTLS", "PIPELINING", "CHUNKING", "SMTPUTF8", "8BITMIME", "SIZE",
                    "SIZE low", "AUTH PLAIN", "AUTH LOGIN"}

Keyword(line) ==
  CASE line \in {"SIZE", "SIZE low"}         -> "SIZE"
    [] line \in {"AUTH PLAIN", "AUTH LOGIN"} -> "AUTH"
    [] OTHER                                 -> line

\* The flag that allows an extension.
Use == [STARTTLS |-> "use_tls", PIPELINING |-> "use_pipelining", CHUNKING |-> "use_chunking",
        SMTPUTF8 |-> "use_smtputf8", SIZE |-> "use_size"]
         @@ ("8BITMIME" :> "use_8bitmime")

ASSUME SndExtensionAssumption == Extensions \subseteq KnownExtensions
ASSUME ToggledAssumption   == Toggled \subseteq KnownFlags
ASSUME SndFaultsAssumption == Faults \subseteq Spool!FaultKinds
ASSUME SndBoundAssumption  == MaxHosts \in Nat /\ Size \in Nat \ {0}

VARIABLES
  pc,          \* the reply waited for, or how the process ended
  flags,       \* the flags that are set; the program changes some itself
  hosts,       \* receivers left to try
  params,      \* the lines kept in Connection::ehlo_params
  ext,         \* the constants ext_* of snd()
  cmds, reps, up, server,   \* the connection, as in SendClient
  msg,         \* the MessageStore
  taken,       \* the number of servers that have taken the message
  said         \* "mail was sent successfully" was logged

link == <<cmds, reps, up, server>>
vars == <<pc, flags, hosts, params, ext, link, msg, taken, said>>

Waits == {"greeting", "ehlo", "helo", "starttls", "ehlo_tls", "user", "pass", "auth", "mail",
          "rcpt", "data", "dot", "last", "quit", "quit_success", "quit_failure"}

Ended == {"success", "failure", "aborted"}

TypeOK ==
  /\ pc \in Waits \cup Ended \cup {"start", "host", "handshake", "ready", "envelope", "content"}
  /\ flags \subseteq KnownFlags
  /\ hosts \in 0..MaxHosts
  /\ params \subseteq Extensions
  /\ ext \subseteq DOMAIN Use
  /\ up \in BOOLEAN /\ said \in BOOLEAN
  /\ reps \in Seq([code : Codes, ext : SUBSET Extensions])
  /\ server \in Peer
  /\ msg \in Spool!Store
  /\ taken \in 0..MaxHosts + 1

Init ==
  /\ pc = "start"
  /\ \E t \in SUBSET Toggled : flags = (Defaults \ t) \cup (t \ Defaults)
  /\ hosts = 0 /\ params = {} /\ ext = {}
  /\ cmds = <<>> /\ reps = <<>> /\ up = FALSE /\ server = Fresh
  /\ msg = Spool!Fresh /\ taken = 0 /\ said = FALSE
-----------------------------------------------------------------------------
ServerStep ==
  /\ up /\ cmds # <<>>
  /\ cmds' = Tail(cmds)
  /\ \E a \in Answers(server, Head(cmds)) :
       /\ reps' = Append(reps, a.reply)
       /\ server' = a.s
       /\ taken' = IF a.took = {} THEN taken ELSE taken + 1
  /\ up' = (Head(cmds).verb # "QUIT")
  /\ UNCHANGED <<pc, flags, hosts, params, ext, msg, said>>

\* The connection breaks, or the server gives up on it.
Break ==
  /\ up /\ up' = FALSE
  /\ UNCHANGED <<pc, flags, hosts, params, ext, cmds, reps, server, msg, taken, said>>

Connection == up' = TRUE /\ server' = Fresh /\ cmds' = <<>>
              /\ reps' \in {<<>>} \cup {<<greeting>> : greeting \in Greetings}
-----------------------------------------------------------------------------
\* The verbs are written, and a reply is waited for.
Send(verbs, wait) ==
  /\ cmds' = IF up THEN cmds \o [i \in DOMAIN verbs |-> Plain(verbs[i])] ELSE cmds
  /\ pc' = wait

\* The next reply is parsed, whatever command it answers.
Read(wait, codes) ==
  /\ pc = wait /\ reps # <<>>
  /\ Head(reps).code \in codes
  /\ reps' = Tail(reps)
  /\ UNCHANGED <<up, server, taken>>

\* None can be: the connection has ended or two minutes have passed.
Missing(wait) ==
  /\ pc = wait /\ reps = <<>>
  /\ UNCHANGED <<reps, up, server, taken>>

HostsKept   == UNCHANGED hosts
SpoolKept   == UNCHANGED <<msg, said>>
SessionKept == UNCHANGED <<flags, hosts, params, ext, msg, said>>

\* snd() returns false: main() tries the next host.
GiveUp == pc' = IF "pipe" \in flags THEN "failure" ELSE "host"

\* fail(): QUIT, whose answer and any other are left unread.
Fail == Send(<<"QUIT">>, "failure")
-----------------------------------------------------------------------------
\* main() up to the loop.  A null MX leaves no receivers.
Start ==
  /\ pc = "start"
  /\ \/ /\ "pipe" \in flags
        /\ pc' = "greeting" /\ Connection
        /\ UNCHANGED hosts
     \/ /\ "pipe" \notin flags
        /\ hosts' \in 0..MaxHosts
        /\ pc' = IF hosts' = 0 THEN "success" ELSE "host"
        /\ UNCHANGED link
  /\ UNCHANGED <<flags, params, ext, msg, taken, said>>

\* Wrong: the host that gave up is tried again.
Connect_Again ==
  /\ pc = "host" /\ hosts > 0
  /\ pc' = "greeting" /\ Connection /\ params' = {} /\ ext' = {}
  /\ UNCHANGED <<flags, hosts, msg, taken, said>>

\* conn() tries every address of the host.
Connect ==
  /\ pc = "host" /\ hosts > 0
  /\ hosts' = hosts - 1
  /\ \/ pc' = "greeting" /\ Connection /\ params' = {} /\ ext' = {}
     \/ UNCHANGED <<pc, link, params, ext>>
  /\ UNCHANGED <<flags, msg, taken, said>>

\* main() reaches its end without a return.
RanOut ==
  /\ pc = "host" /\ hosts = 0
  /\ pc' = "success"
  /\ UNCHANGED <<link, taken>> /\ SessionKept

GreetingAnswered ==
  /\ \/ Read("greeting", {"220"})
        /\ IF "use_esmtp" \in flags THEN Send(<<"EHLO">>, "ehlo") ELSE Send(<<"HELO">>, "helo")
     \/ (Read("greeting", Codes \ {"220"}) \/ Missing("greeting")) /\ GiveUp /\ UNCHANGED cmds
  /\ SessionKept

\* action<ehlo_line>: emplace() keeps what is already there under a keyword.
Merge(old, new) ==
  old \cup {l \in new : \A o \in old : Keyword(o) # Keyword(l)}

BadDad == "bare_lf" \in flags

\* The extensions used from here on; the bad dads do without two of them.
Extended(lines) ==
  LET allow == IF BadDad THEN flags \ {"use_chunking", "use_size"} ELSE flags
  IN  {e \in DOMAIN Use : Use[e] \in allow /\ \E l \in lines : Keyword(l) = e}

AfterHello ==
  /\ ext' = Extended(params')
  /\ IF "force_smtputf8" \in flags /\ "SMTPUTF8" \notin ext' THEN GiveUp /\ UNCHANGED cmds
     ELSE IF "STARTTLS" \in ext' THEN Send(<<"STARTTLS">>, "starttls")
     ELSE IF "require_tls" \in flags THEN Send(<<"QUIT">>, "quit_failure")
     ELSE pc' = "ready" /\ UNCHANGED cmds

EhloAnswered ==
  /\ HostsKept /\ SpoolKept
  /\ \/ /\ reps # <<>> /\ params' = Merge(params, Head(reps).ext)
        /\ Read("ehlo", {"250"})
        /\ UNCHANGED flags
        /\ AfterHello
     \/ /\ Read("ehlo", Codes \ {"250"})
        /\ UNCHANGED <<params, ext>>
        /\ IF "force_smtputf8" \in flags THEN GiveUp /\ UNCHANGED <<cmds, flags>>
           ELSE Send(<<"HELO">>, "helo") /\ flags' = flags \ {"use_esmtp"}

HeloAnswered ==
  /\ UNCHANGED <<flags, hosts, params>> /\ SpoolKept
  /\ \/ Read("helo", {"250"}) /\ AfterHello
     \/ (Read("helo", Codes \ {"250"}) \/ Missing("helo")) /\ GiveUp /\ UNCHANGED <<cmds, ext>>

\* The reply to STARTTLS must parse, nothing more.
StarttlsAnswered ==
  /\ Read("starttls", Codes)
  /\ pc' = "handshake"
  /\ UNCHANGED cmds /\ SessionKept

\* starttls_client() aborts, succeeds, or returns false when DANE does not vouch
\* for the host: the result is dropped, and what follows in the clear is nothing
\* to a server that talks TLS.
Handshake ==
  /\ pc = "handshake"
  /\ UNCHANGED <<reps, server, taken>> /\ SessionKept
  /\ \/ pc' = "aborted" /\ UNCHANGED <<cmds, up>>
     \/ server.tls /\ up /\ UNCHANGED up /\ Send(<<"EHLO">>, "ehlo_tls")
     \/ server.tls /\ up' = FALSE /\ Send(<<>>, "ehlo_tls")

\* Only parsed: ehlo_ok is true already, and ext_* is not computed again.
EhloTlsAnswered ==
  /\ pc = "ehlo_tls" /\ reps # <<>>
  /\ params' = Merge(params, Head(reps).ext)
  /\ Read("ehlo_tls", Codes)
  /\ pc' = "ready"
  /\ UNCHANGED <<flags, hosts, ext, cmds>> /\ SpoolKept
-----------------------------------------------------------------------------
Noop == IF "noop" \in flags THEN <<"NOOP">> ELSE <<>>

\* The NOOP, the check that SMTPUTF8 comes with 8BITMIME, and do_auth.
Ready ==
  /\ pc = "ready"
  /\ UNCHANGED <<reps, up, server, taken>> /\ SessionKept
  /\ IF "SMTPUTF8" \in ext /\ "8BITMIME" \notin ext THEN Send(Noop \o <<"QUIT">>, "quit_failure")
     ELSE IF "auth" \notin flags THEN Send(Noop, "envelope")
     ELSE IF "AUTH PLAIN" \in params THEN Send(Noop \o <<"AUTH">>, "auth")
     ELSE IF "AUTH LOGIN" \in params THEN Send(Noop \o <<"LOGIN">>, "user")
     ELSE Send(Noop \o <<"QUIT">>, "failure")

AuthAnswered ==
  /\ \/ Read("user", {"334"}) /\ Send(<<"LOGIN">>, "pass")
     \/ Read("pass", {"334"}) /\ Send(<<"AUTH">>, "auth")
     \/ (Read("user", Codes \ {"334"}) \/ Read("pass", Codes \ {"334"}))
          /\ pc' = "aborted" /\ UNCHANGED cmds
     \/ Read("auth", {"235"}) /\ pc' = "envelope" /\ UNCHANGED cmds
     \/ Read("auth", Codes \ {"235"}) /\ Fail
  /\ SessionKept

Pipelined == "PIPELINING" \in ext

\* Creating and signing the message, for which the key may be missing, the check
\* of its size, and the envelope.  What is buffered counts as sent.
Envelope ==
  /\ pc = "envelope"
  /\ UNCHANGED <<reps, up, server, taken>> /\ SessionKept
  /\ LET bad == IF "badpipline" \in flags THEN <<"NOOP", "NOOP">> ELSE <<>>
     IN  \/ pc' = "aborted" /\ UNCHANGED cmds
         \/ IF "SIZE" \in ext /\ "SIZE low" \in params THEN Send(<<"QUIT">>, "quit_failure")
            ELSE IF ~Pipelined        THEN Send(bad \o <<"MAIL">>, "mail")
            ELSE IF "nosend" \in flags THEN Send(bad \o <<"MAIL", "RCPT", "QUIT">>, "mail")
            ELSE Send(bad \o <<"MAIL", "RCPT">>, IF BadDad THEN "mail" ELSE "content")

\* The message is written to folder .Sent first; what that throws ends the process.
SpoolOutcomes ==
  IF "save" \notin flags THEN {Spool!Returns(msg)}
  ELSE UNION {IF o.threw THEN {o} ELSE Spool!Write(o.m, Size) : o \in Spool!Open(msg, 2 * Size)}

\* BDAT with all of the message, or DATA.  Pipelined, the first reply read after it
\* is that to MAIL.
Content ==
  /\ pc = "content"
  /\ \E o \in SpoolOutcomes :
       IF o.threw
       THEN /\ \E closed \in Spool!Close(o.m) : msg' = closed.m
            /\ pc' = "aborted" /\ UNCHANGED cmds
       ELSE /\ msg' = o.m
            /\ IF "CHUNKING" \in ext
               THEN Send(IF "pipeline_quit" \in flags THEN <<"LAST", "QUIT">> ELSE <<"LAST">>,
                         IF Pipelined THEN "mail" ELSE "last")
               ELSE Send(<<"DATA">>, IF Pipelined THEN "mail" ELSE "data")
  /\ UNCHANGED <<flags, hosts, params, ext, reps, up, server, taken, said>>

\* check_for_fail(MAIL FROM)
MailAnswered ==
  /\ \/ Read("mail", Positive)
        /\ IF Pipelined THEN pc' = "rcpt" /\ UNCHANGED cmds ELSE Send(<<"RCPT">>, "rcpt")
     \/ Read("mail", Codes \ Positive) /\ Fail
  /\ SessionKept

\* check_for_fail(RCPT TO): pipelined, what comes next is on its way already.
RcptAnswered ==
  /\ \/ /\ Read("rcpt", Positive)
        /\ IF "nosend" \in flags
           THEN IF Pipelined THEN pc' = "quit_success" /\ UNCHANGED cmds
                ELSE Send(<<"QUIT">>, "quit_success")
           ELSE IF BadDad THEN Send(<<"DATA">>, "data")
           ELSE /\ pc' = IF ~Pipelined THEN "content"
                         ELSE IF "CHUNKING" \in ext THEN "last" ELSE "data"
                /\ UNCHANGED cmds
     \/ Read("rcpt", Codes \ Positive) /\ Fail
  /\ SessionKept

\* Writing the lines of the message may fail, which ends the process.
DataAnswered ==
  /\ \/ /\ Read("data", {"354"})
        /\ \/ Send(IF "pipeline_quit" \in flags /\ ~BadDad THEN <<"dot", "QUIT">> ELSE <<"dot">>,
                   "dot")
           \/ pc' = "aborted" /\ UNCHANGED cmds
     \/ Read("data", Codes \ {"354"}) /\ Fail
  /\ SessionKept

Quit ==
  IF "pipeline_quit" \in flags /\ ~BadDad THEN pc' = "quit" /\ UNCHANGED cmds
  ELSE Send(<<"QUIT">>, "quit")

\* The message was taken: the copy for .Sent is delivered, or there is none.
Settle ==
  IF BadDad THEN Quit /\ SpoolKept
  ELSE \E o \in (IF "save" \in flags THEN Spool!Deliver(msg) ELSE Spool!Close(msg)) :
         /\ msg' = o.m
         /\ said' = ~o.threw
         /\ IF o.threw THEN pc' = "aborted" /\ UNCHANGED cmds ELSE Quit

\* Wrong: the reply to the final dot is not looked at.
DotAnswered_Unread ==
  /\ Read("dot", Codes) /\ Settle
  /\ UNCHANGED <<flags, hosts, params, ext>>

\* A final dot that is refused is passed over: snd() returns true all the same.
DotAnswered ==
  /\ \/ Read("dot", Positive) /\ Settle
     \/ /\ Read("dot", Codes \ Positive)
        /\ IF BadDad THEN pc' = "aborted" /\ UNCHANGED cmds ELSE Quit
        /\ SpoolKept
  /\ UNCHANGED <<flags, hosts, params, ext>>

LastAnswered ==
  /\ \/ Read("last", {"250"}) /\ Settle
     \/ Read("last", Codes \ {"250"}) /\ Fail /\ SpoolKept
  /\ UNCHANGED <<flags, hosts, params, ext>>

QuitAnswered ==
  /\ \/ Read("quit", Codes) /\ pc' = "success"
     \/ Read("quit_success", Codes) /\ pc' = "success"
     \/ Read("quit_failure", Codes) /\ pc' = "failure"
  /\ UNCHANGED cmds /\ SessionKept

\* Wrong: without a reply the next host is tried.
ReplyMissing_TriesNext ==
  /\ Missing(pc) /\ pc \in Waits \ {"greeting", "helo"}
  /\ GiveUp
  /\ UNCHANGED cmds /\ SessionKept

\* Everywhere else parsing a reply is inside a CHECK.
ReplyMissing ==
  /\ Missing(pc) /\ pc \in Waits \ {"greeting", "helo"}
  /\ pc' = "aborted"
  /\ UNCHANGED cmds /\ SessionKept
-----------------------------------------------------------------------------
Opening ==
  \/ Start \/ Connect \/ RanOut \/ GreetingAnswered \/ EhloAnswered \/ HeloAnswered
  \/ StarttlsAnswered \/ Handshake \/ EhloTlsAnswered \/ Ready \/ AuthAnswered

Sending ==
  \/ Envelope \/ MailAnswered \/ RcptAnswered \/ Content \/ DataAnswered \/ DotAnswered
  \/ LastAnswered \/ QuitAnswered \/ ReplyMissing

Next == Opening \/ Sending \/ ServerStep \/ Break

Spec == Init /\ [][Next]_vars

\* The program runs when it does not wait, and a read ends after two minutes.
FairSpec == Spec /\ WF_vars(Opening) /\ WF_vars(Sending)
-----------------------------------------------------------------------------
\* No host is tried once another may have the message: snd() returns false only
\* before MAIL, so of several mail exchangers at most one takes the message.
TakenOnce == taken <= 1

\* Replies shifted by a NOOP whose own reply is never read.
Shifted == flags \cap {"noop", "badpipline"} # {}

\* "mail was sent successfully", and the copy in .Sent, are true: with MAIL, RCPT
\* and the whole message written before the first reply is read, the reply
\* looked at last is the one that counts.
SentIsTaken == (said \/ msg.new # "none") /\ ~Shifted => taken = 1

\* EXIT_FAILURE, wherever it comes from, means that no server has the message, nor
\* will take it from what is still on its way: it can be sent again.
FailureIsNotTaken == pc = "failure" => taken = 0

\* In a state of the right types, success and failure are both told as they are.
SaysWhatHappened == TypeOK /\ SentIsTaken /\ FailureIsNotTaken

\* The program ends, whatever the servers do.
Ends == <>(pc \in Ended)
=============================================================================
