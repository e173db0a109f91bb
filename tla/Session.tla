------------------------------- MODULE Session -------------------------------
(***************************************************************************)
(* One run of the smtp program: class Session (src/Session.cpp) driven by  *)
(* the command and DATA grammars of src/smtp.cpp, spooling messages into   *)
(* MessageStore objects.  The client, the network, the file system and the *)
(* verdicts of DNS, SPF and the local lists are the environment: any       *)
(* command may arrive in any state, any read may end early, any check may  *)
(* go either way.                                                          *)
(*                                                                         *)
(* A handler is one action, except where the code waits for the client     *)
(* (DATA lines, BDAT transfers) and between delivering a message and       *)
(* acknowledging it, where the SIGALRM handler may end the process.        *)
(***************************************************************************)
EXTENDS MessageStoreOps, Sequences

CONSTANTS
  Networked,         \* sock_.has_peername(): a TCP peer, not a local pipe
  Immortal,          \* FLAGS_immortal or GHSMTP_IMMORTAL: never call alarm()
  Senders,           \* the mailboxes MAIL FROM may name, the null path <> among them
  Literals,          \* those verify_sender_ accepts before do_spf_check_
  LocalhostSenders,  \* those at localhost or localhost.local
  AllowedSenders,    \* those whose (registered) domain is on the allow list
  Identities,        \* the names HELO/EHLO may give
  MailFlags,         \* the flags MAIL parameters may set
  MaxRecipients,     \* Config::max_recipients_per_message
  MaxUnrecognized,   \* Config::max_unrecognized_cmds
  InitialSize,       \* Config::max_msg_size_initial
  BroSize,           \* Config::max_msg_size_bro
  HeaderSize,        \* octets of added_headers_
  LineSizes,         \* octets of a line of DATA
  ChunkSizes,        \* transfers a BDAT chunk takes (0: an empty chunk)
  TransferSize,      \* FLAGS_max_xfer_size: octets of one transfer
  ReadFailures,      \* how reading from the client may end, of ReadFailureKinds
  MaxMessages        \* bound on the messages begun, not in the code

CONSTANTS NoSender, NoIdentity, NoMessage

ReadFailureKinds == {"eof", "timeout", "maxed"}

ASSUME FlagAssumption   == Networked \in BOOLEAN /\ Immortal \in BOOLEAN
ASSUME SenderAssumption ==
  /\ NoSender \notin Senders /\ NoIdentity \notin Identities
  /\ "localhost" \notin Senders /\ "localhost" # NoSender
  /\ Literals \subseteq Senders /\ LocalhostSenders \subseteq Senders
  /\ AllowedSenders \subseteq Senders
ASSUME MailFlagAssumption == MailFlags \subseteq {"BINARYMIME", "SMTPUTF8"}
ASSUME LimitAssumption ==
  /\ MaxRecipients \in Nat \ {0} /\ MaxUnrecognized \in Nat \ {0}
  /\ InitialSize \in Nat \ {0} /\ BroSize \in Nat \ {0}
  /\ HeaderSize \in Nat /\ TransferSize \in Nat
  /\ LineSizes \subseteq Nat /\ ChunkSizes \subseteq Nat /\ MaxMessages \in Nat
ASSUME ReadAssumption    == ReadFailures \subseteq ReadFailureKinds
ASSUME MessageAssumption == NoMessage \notin Store

InitialAlarm == 2      \* minutes, alarm(2 * 60) in greeting()
HamAlarm     == 5      \* minutes, alarm(5 * 60) in msg_new()
-----------------------------------------------------------------------------
VARIABLES
  \* Session's members
  state,             \* state_
  client_identity,   \* client_identity_
  reverse_path,      \* reverse_path_
  forward_path,      \* forward_path_.size()
  flags,             \* binarymime_ and smtputf8_, as the set of those that are true
  msg,               \* msg_
  extensions,        \* extensions_
  allowed,           \* ip_allowed_ and fcrdns_allowed_, likewise
  spf_result,        \* spf_result_, which no constructor initialises
  spf_sender_domain, \* spf_sender_domain_, as the sender it was last set for
  max_msg_size,      \* max_msg_size_
  n_unrecognized,    \* n_unrecognized_cmds_
  \* the socket
  tls,               \* sock_.tls()
  good,              \* the one iostream behind in() and out_() has no error bit set
  maxed_out,         \* sock_.maxed_out()
  timed_out,         \* sock_.timed_out(), which nothing ever clears
  \* the process
  pc,                \* what it waits for
  chunk,             \* the locals of bdat_act
  max_write,         \* FLAGS_max_write
  alarm,             \* minutes to SIGALRM, 0 when none is set
  \* what others can see
  replies,           \* codes written in answer to the current command
  acked,             \* messages acknowledged with a final 250
  maildir,           \* files of finished messages
  begun              \* messages begun, at most MaxMessages

envelope   == <<reverse_path, forward_path, flags>>
spf        == <<spf_result, spf_sender_domain>>
connection == <<client_identity, extensions, allowed, spf, tls, max_msg_size, n_unrecognized>>
stream     == <<good, maxed_out, timed_out>>
process    == <<chunk, max_write, alarm, begun>>

vars == <<state, envelope, msg, connection, stream, pc, process, replies, acked, maildir>>

Steps == {"helo", "mail", "rcpt", "data", "bdat", "rset"}

Phases == {"greet",    \* main, before greeting()
           "cmd",      \* the command grammar, waiting for a command
           "data",     \* the DATA grammar, waiting for a line
           "bdat",     \* bdat_act, waiting for octets of the chunk
           "ack",      \* do_deliver_ returned, the 250 not written yet
           "exit",     \* exited, in whatever way the code means to
           "abort"}    \* ended by a failed CHECK or a null dereference

Ended == pc \in {"exit", "abort"}

Results == {"FAIL", "PASS", "OTHER"}     \* SPF::Result, as far as it is tested

Chunk == [left : Nat, last : BOOLEAN, status_returned : BOOLEAN]

NoChunk == [left |-> 0, last |-> FALSE, status_returned |-> FALSE]

Codes == {"220", "221", "214", "250", "252", "354", "421", "432", "451", "452",
          "454", "500", "503", "550", "552", "554"}

Maildir == [whole : Nat, short : Nat, tmp : Nat]

TypeOK ==
  /\ state \in Steps /\ pc \in Phases
  /\ client_identity \in Identities \cup {NoIdentity}
  /\ reverse_path \in Senders \cup {NoSender}
  /\ forward_path \in 0..MaxRecipients
  /\ flags \subseteq MailFlags
  /\ msg \in Store \cup {NoMessage}
  /\ extensions \in BOOLEAN /\ tls \in BOOLEAN
  /\ allowed \subseteq {"ip", "fcrdns"}
  /\ spf_result \in Results
  /\ spf_sender_domain \in Senders \cup {NoSender, "localhost"}
  /\ max_msg_size \in {InitialSize, BroSize}
  /\ n_unrecognized \in 0..MaxUnrecognized
  /\ good \in BOOLEAN /\ maxed_out \in BOOLEAN /\ timed_out \in BOOLEAN
  /\ chunk \in Chunk
  /\ max_write \in {0, InitialSize, BroSize}
  /\ alarm \in 0..HamAlarm
  /\ replies \in Seq(Codes)
  /\ acked \in Nat /\ maildir \in Maildir /\ begun \in 0..MaxMessages

Init ==
  /\ state = "helo" /\ pc = "greet"
  /\ client_identity = NoIdentity
  /\ reverse_path = NoSender /\ forward_path = 0 /\ flags = {}
  /\ msg = NoMessage
  /\ extensions = FALSE /\ tls = FALSE /\ allowed = {}
  /\ spf_result \in Results /\ spf_sender_domain = NoSender
  /\ max_msg_size = InitialSize
  /\ n_unrecognized = 0
  /\ good = TRUE /\ maxed_out = FALSE /\ timed_out = FALSE
  /\ chunk = NoChunk
  /\ max_write = 0 /\ alarm = 0
  /\ replies = <<>> /\ acked = 0 /\ begun = 0
  /\ maildir = [whole |-> 0, short |-> 0, tmp |-> 0]
-----------------------------------------------------------------------------
\* The command grammar can take a command: main is parsing and its stream works.
Ready == pc = "cmd" /\ good

\* A handler that only answers.
Reply(code) ==
  /\ replies' = <<code>>
  /\ UNCHANGED <<state, envelope, msg, connection, stream, pc, process, acked, maildir>>

\* The Maildir d once message object m is destroyed: its files stay as they are.
Filed(d, m) ==
  IF m = NoMessage THEN d
  ELSE [whole |-> IF m.new = "whole" THEN d.whole + 1 ELSE d.whole,
        short |-> IF m.new = "short" THEN d.short + 1 ELSE d.short,
        tmp   |-> IF m.tmp # "none" \/ m.tmp2 # "none" THEN d.tmp + 1 ELSE d.tmp]

\* reset_() finding the message object as m: it is destroyed, not trashed.
Reset(m) ==
  /\ reverse_path' = NoSender /\ forward_path' = 0 /\ flags' = {}
  /\ msg' = NoMessage /\ maildir' = Filed(maildir, m)
  /\ maxed_out' = FALSE            \* max_msg_size() restarts the read count
  /\ state' = "mail"

\* The process ends with the message object as m; no exit path trashes it.
Leave(m, how) ==
  /\ pc' = how
  /\ msg' = NoMessage /\ maildir' = Filed(maildir, m)

\* A command answered with code after which the process exits.
ReplyAndExit(code) ==
  /\ replies' = <<code>>
  /\ Leave(msg, "exit")
  /\ UNCHANGED <<state, envelope, connection, stream, process, acked>>
-----------------------------------------------------------------------------
\* Session::verify_ip_address_ when it does not refuse: it looks at the name only
\* if the address is not allowed, and is not asked about a local pipe.
IpVerdicts == IF Networked THEN {{}, {"ip"}, {"fcrdns"}} ELSE {{}}

\* Session::greeting
GreetingRefused ==
  /\ pc = "greet" /\ Networked
  /\ \/ ReplyAndExit("554")        \* verify_ip_address_ said no
     \/ ReplyAndExit("421")        \* input before the greeting, or between its halves

\* Wrong: no alarm before the first message.
Greeting_NoAlarm ==
  /\ pc = "greet"
  /\ allowed' \in IpVerdicts
  /\ replies' = <<"220">>
  /\ pc' = "cmd"
  /\ UNCHANGED <<state, envelope, msg, client_identity, extensions, spf, tls, max_msg_size,
                 n_unrecognized, stream, process, acked, maildir>>

Greeting ==
  /\ pc = "greet"
  /\ allowed' \in IpVerdicts
  /\ replies' = <<"220">>
  /\ alarm' = IF Immortal THEN 0 ELSE InitialAlarm
  /\ pc' = "cmd"
  /\ UNCHANGED <<state, envelope, msg, client_identity, extensions, spf, tls, max_msg_size,
                 n_unrecognized, stream, chunk, max_write, begun, acked, maildir>>

\* Session::lo_ for a name that verify_client_ refuses; it only asks about a new one.
LoRefused ==
  /\ Ready
  /\ Identities \ {client_identity} # {}
  /\ ReplyAndExit("550")

Lo(verb) ==
  /\ Ready
  /\ client_identity' \in Identities
  /\ extensions' = (verb = "EHLO")
  /\ Reset(msg)
  /\ replies' = <<"250">>
  /\ UNCHANGED <<allowed, spf, tls, max_msg_size, n_unrecognized, good, timed_out, pc,
                 process, acked>>
-----------------------------------------------------------------------------
\* Session::mail_from
MailOutOfSequence == Ready /\ state # "mail" /\ Reply("503")

\* verify_from_params_ sets flags as it meets them, in no particular order,
\* until a SIZE too large or a REQUIRETLS outside TLS ends the loop.
MailParamsRefused ==
  /\ Ready /\ state = "mail"
  /\ \E seen \in SUBSET MailFlags : flags' = flags \cup seen
  /\ replies' \in {<<"552">>} \cup IF tls THEN {} ELSE {<<"554">>}
  /\ UNCHANGED <<state, reverse_path, forward_path, msg, connection, stream, pc, process,
                 acked, maildir>>

MailSenderRefused == Ready /\ state = "mail" /\ ReplyAndExit("550")

\* verify_sender_ returns before do_spf_check_ for an address literal (and, in
\* test mode, for every sender), and do_spf_check_ leaves spf_result_ alone when there is no peer.
CheckSpf(sender) ==
  IF sender \in Literals THEN UNCHANGED spf
  ELSE IF Networked
  THEN spf_result' \in Results /\ spf_sender_domain' = sender
  ELSE spf_sender_domain' = "localhost" /\ UNCHANGED spf_result

MailAccepted ==
  /\ Ready /\ state = "mail"
  /\ \E declared \in SUBSET MailFlags : flags' = flags \cup declared
  /\ \E sender \in Senders : CheckSpf(sender) /\ reverse_path' = sender
  /\ forward_path' = 0
  /\ replies' = <<"250">>
  /\ state' = "rcpt"
  /\ UNCHANGED <<msg, client_identity, extensions, allowed, tls, max_msg_size, n_unrecognized,
                 stream, pc, process, acked, maildir>>
-----------------------------------------------------------------------------
\* Session::rcpt_to
RcptOutOfSequence == Ready /\ state \notin {"rcpt", "data"} /\ Reply("503")

RcptRefused ==
  /\ Ready /\ state \in {"rcpt", "data"}
  /\ \E code \in {"554", "550", "432"} : Reply(code)

\* fs::exists(fail_db_name) throws: main logs it and returns, nothing is answered.
RcptCheckThrows ==
  /\ Ready /\ state \in {"rcpt", "data"}
  /\ "exists" \in Faults
  /\ replies' = <<>>
  /\ Leave(msg, "exit")
  /\ UNCHANGED <<state, envelope, connection, stream, process, acked>>

RcptTooMany ==
  /\ Ready /\ state \in {"rcpt", "data"}
  /\ forward_path >= MaxRecipients
  /\ Reply("452")

\* Wrong: the 452 is gone, any number of recipients is taken.
RcptAccepted_Unlimited ==
  /\ Ready /\ state \in {"rcpt", "data"}
  /\ forward_path' = forward_path + 1
  /\ state' = "data"
  /\ replies' = <<"250">>
  /\ UNCHANGED <<reverse_path, flags, msg, connection, stream, pc, process, acked, maildir>>

\* Wrong: RCPT is also taken between the chunks of a BDAT transfer.
RcptAccepted_DuringBdat ==
  /\ Ready /\ state \in {"rcpt", "data", "bdat"}
  /\ forward_path < MaxRecipients
  /\ forward_path' = forward_path + 1
  /\ state' = IF state = "bdat" THEN "bdat" ELSE "data"
  /\ replies' = <<"250">>
  /\ UNCHANGED <<reverse_path, flags, msg, connection, stream, pc, process, acked, maildir>>

RcptAccepted ==
  /\ Ready /\ state \in {"rcpt", "data"}
  /\ forward_path < MaxRecipients
  /\ forward_path' = forward_path + 1
  /\ state' = "data"
  /\ replies' = <<"250">>
  /\ UNCHANGED <<reverse_path, flags, msg, connection, stream, pc, process, acked, maildir>>
-----------------------------------------------------------------------------
\* Session::spam_status_
Ham ==
  /\ ~(spf_result = "FAIL" /\ "ip" \notin allowed)
  /\ reverse_path \notin LocalhostSenders
  /\ \/ tls
     \/ spf_result = "PASS" /\ spf_sender_domain \in AllowedSenders
     \/ "fcrdns" \in allowed

\* FLAGS_max_write, which the first message sets for all of them.
MessageLimit == IF max_write = 0 THEN max_msg_size ELSE max_write

StorageErrors == {"452", "451"}       \* ENOSPC, anything else

NewMessageOutcomes ==
  UNION {IF o.threw THEN {o} ELSE Write(o.m, HeaderSize) : o \in Open(Fresh, MessageLimit)}

\* Session::msg_new: success is answered with said and continues at onSuccess, a
\* storage error is answered here and continues at onFailure.  If trash() throws
\* too, main catches it and returns.
MsgNew(said, onSuccess, onFailure) ==
  /\ begun < MaxMessages
  /\ begun' = begun + 1
  /\ alarm' = IF Ham /\ ~Immortal THEN HamAlarm ELSE alarm
  /\ max_write' = MessageLimit
  /\ \E o \in NewMessageOutcomes :
       \/ /\ ~o.threw
          /\ msg' = o.m /\ maildir' = Filed(maildir, msg)
          /\ replies' = said
          /\ pc' = onSuccess.pc /\ chunk' = onSuccess.chunk
       \/ /\ o.threw
          /\ \E t \in Close(o.m) :
               /\ msg' = NoMessage /\ maildir' = Filed(Filed(maildir, msg), t.m)
               /\ \E code \in StorageErrors : replies' = <<code>>
               /\ pc' = IF t.threw THEN "exit" ELSE onFailure.pc
               /\ chunk' = onFailure.chunk
-----------------------------------------------------------------------------
\* A handler has written code and trash() throws, leaving the message object as
\* m: action<data> answers 421 and goes back to the commands with everything as
\* it is; from a BDAT handler the exception leaves main.
TrashThrows(code, m) ==
  /\ UNCHANGED <<state, envelope, maxed_out>>
  /\ IF pc = "data"
     THEN /\ replies' = replies \o <<code, "421">>
          /\ pc' = "cmd"
          /\ msg' = m /\ UNCHANGED maildir
     ELSE /\ replies' = Append(replies, code)
          /\ Leave(m, "exit")

\* Wrong: the message is delivered where it should be trashed.
TrashAndReset_Delivers(code, then, m, next) ==
  \E t \in Deliver(m) :
    IF t.threw THEN TrashThrows(code, t.m)
    ELSE /\ Reset(t.m)
         /\ replies' = Append(replies, code) \o then
         /\ pc' = next

\* A handler writes code, trashes the message object m, may write then, resets
\* and continues at next.
TrashAndReset(code, then, m, next) ==
  \E t \in Close(m) :
    IF t.threw THEN TrashThrows(code, t.m)
    ELSE /\ Reset(t.m)
         /\ replies' = Append(replies, code) \o then
         /\ pc' = next

\* data_size_error, bdat_size_error, bdat_seq_error and bdat_io_error, after they
\* have cleared the stream.
TransferError(code, next) ==
  IF msg = NoMessage
  THEN Reset(msg) /\ replies' = Append(replies, code) /\ pc' = next
  ELSE TrashAndReset(code, <<>>, msg, next)

\* Wrong: do_deliver_ resets when it succeeds, as it does when it fails.
DoDeliver_Resets ==
  \E d \in Deliver(msg) : \E c \in IF d.threw THEN {d} ELSE Close(d.m) :
    IF c.threw
    THEN \E code \in {"452", "550"} : TrashAndReset(code, <<>>, c.m, "ack")
    ELSE Reset(c.m) /\ pc' = "ack" /\ UNCHANGED replies

\* Session::do_deliver_ for a message that exists.  Both callers ignore its
\* result and go on to acknowledge the message.
DoDeliver ==
  \E d \in Deliver(msg) : \E c \in IF d.threw THEN {d} ELSE Close(d.m) :
    IF c.threw
    THEN \E code \in {"452", "550"} : TrashAndReset(code, <<>>, c.m, "ack")
    ELSE /\ msg' = c.m /\ pc' = "ack"
         /\ UNCHANGED <<state, envelope, maxed_out, replies, maildir>>

\* Session::msg_write of n octets to a message that exists: the write returns, or
\* it throws, leaves the message object as m, is answered and the message trashed.
WriteReturns(n) ==
  /\ \E o \in Write(msg, n) : ~o.threw /\ msg' = o.m
  /\ UNCHANGED <<state, envelope, maxed_out, replies, maildir>>

WriteFailed(code, m) ==
  \E t \in Close(m) :
    IF t.threw THEN TrashThrows(code, t.m)
    ELSE /\ msg' = NoMessage /\ maildir' = Filed(maildir, t.m)
         /\ replies' = Append(replies, code)
         /\ UNCHANGED <<state, envelope, maxed_out, pc>>
-----------------------------------------------------------------------------
\* Session::data_start
DataOutOfSequence == Ready /\ state # "data" /\ Reply("503")

DataBinaryMime ==
  /\ Ready /\ state = "data" /\ "BINARYMIME" \in flags
  /\ state' = "rset"
  /\ replies' = <<"503">>
  /\ UNCHANGED <<envelope, msg, connection, stream, pc, process, acked, maildir>>

DataStart ==
  /\ Ready /\ state = "data" /\ "BINARYMIME" \notin flags
  /\ MsgNew(<<"354">>, [pc |-> "data", chunk |-> NoChunk], [pc |-> "cmd", chunk |-> NoChunk])
  /\ UNCHANGED <<state, envelope, connection, stream, acked>>

\* data_blank, data_plain, data_dot and anything_else: action<data> ignores what
\* msg_write returns, and without a message msg_write changes nothing.
DataLine ==
  /\ pc = "data" /\ msg # NoMessage
  /\ \E n \in LineSizes : WriteReturns(n)
  /\ UNCHANGED <<connection, good, timed_out, pc, process, acked>>

DataLineFails ==
  /\ pc = "data" /\ msg # NoMessage
  /\ \E n \in LineSizes, code \in StorageErrors : \E o \in Write(msg, n) :
       o.threw /\ WriteFailed(code, o.m)
  /\ UNCHANGED <<connection, good, timed_out, process, acked>>

\* Wrong: no return after data_size_error(), the 250 follows.
DataTooLarge_FallsThrough ==
  /\ pc = "data" /\ msg # NoMessage /\ msg.sizeError
  /\ TransferError("552", "ack")
  /\ UNCHANGED <<connection, good, timed_out, process, acked>>

\* Session::data_done
DataTooLarge ==
  /\ pc = "data" /\ msg # NoMessage /\ msg.sizeError
  /\ TransferError("552", "cmd")
  /\ UNCHANGED <<connection, good, timed_out, process, acked>>

\* Wrong: size_error() is not looked at.
DataDone_AnySize ==
  /\ pc = "data" /\ msg # NoMessage
  /\ DoDeliver
  /\ UNCHANGED <<connection, good, timed_out, process, acked>>

DataDone ==
  /\ pc = "data" /\ msg # NoMessage /\ ~msg.sizeError
  /\ DoDeliver
  /\ UNCHANGED <<connection, good, timed_out, process, acked>>

\* do_deliver_'s CHECK(msg_) fails.
DataDoneChecks ==
  /\ pc = "data" /\ msg = NoMessage
  /\ Leave(msg, "abort")
  /\ UNCHANGED <<state, envelope, connection, stream, process, replies, acked>>

\* A lone "." ended by a bare LF.
DataBareLf ==
  /\ pc = "data"
  /\ replies' = Append(replies, "554")
  /\ Leave(msg, "exit")
  /\ UNCHANGED <<state, envelope, connection, stream, process, acked>>

\* parse_nested fails at the end of the input; the 421 that action<data> writes
\* for an eof goes to a stream with its error bits set.
DataReadFails ==
  /\ pc = "data"
  /\ \E why \in ReadFailures :
       /\ maxed_out' = (why = "maxed")
       /\ timed_out' = (timed_out \/ why = "timeout")
  /\ good' = FALSE
  /\ pc' = "cmd"
  /\ UNCHANGED <<state, envelope, msg, connection, process, replies, acked, maildir>>
-----------------------------------------------------------------------------
\* bdat_act up to its loop, with Session::bdat_start.
Transferring(n, last, status_returned) ==
  [pc |-> "bdat", chunk |-> [left |-> n, last |-> last, status_returned |-> status_returned]]

BdatOutOfSequence ==
  /\ Ready /\ state \notin {"data", "bdat"}
  /\ \E n \in ChunkSizes, last \in BOOLEAN : chunk' = Transferring(n, last, TRUE).chunk
  /\ replies' = <<"503">>
  /\ pc' = "bdat"
  /\ UNCHANGED <<state, envelope, msg, connection, stream, max_write, alarm, begun, acked,
                 maildir>>

\* Wrong: the first BDAT leaves state_ as it is.
BdatFirst_KeepsState ==
  /\ Ready /\ state = "data"
  /\ \E n \in ChunkSizes, last \in BOOLEAN :
       MsgNew(<<>>, Transferring(n, last, FALSE), Transferring(n, last, TRUE))
  /\ UNCHANGED <<state, envelope, connection, stream, acked>>

BdatFirst ==
  /\ Ready /\ state = "data"
  /\ state' = "bdat"
  /\ \E n \in ChunkSizes, last \in BOOLEAN :
       MsgNew(<<>>, Transferring(n, last, FALSE), Transferring(n, last, TRUE))
  /\ UNCHANGED <<envelope, connection, stream, acked>>

BdatNext ==
  /\ Ready /\ state = "bdat"
  /\ \E n \in ChunkSizes, last \in BOOLEAN : chunk' = Transferring(n, last, FALSE).chunk
  /\ replies' = <<>>
  /\ pc' = "bdat"
  /\ UNCHANGED <<state, envelope, msg, connection, stream, max_write, alarm, begun, acked,
                 maildir>>

\* One turn of bdat_act's loop that could read xfer_sz octets.
TransferLeft == pc = "bdat" /\ chunk.left > 0

xfer_sz == IF chunk.left < TransferSize THEN chunk.left ELSE TransferSize

Transferred(status_returned) ==
  [chunk EXCEPT !.left = chunk.left - xfer_sz, !.status_returned = status_returned]

\* msg_write takes octets in these states only, and if there is a message.
Spooling == msg # NoMessage /\ state \in {"data", "bdat"}

BdatTransfer ==
  /\ TransferLeft /\ Spooling
  /\ WriteReturns(xfer_sz)
  /\ chunk' = Transferred(chunk.status_returned)
  /\ UNCHANGED <<connection, good, timed_out, pc, max_write, alarm, begun, acked>>

\* msg_write has answered 452 or 451; bdat_size_error answers 552 as well.
BdatWriteFails ==
  /\ TransferLeft /\ Spooling
  /\ \E code \in StorageErrors : \E o \in Write(msg, xfer_sz) :
       /\ o.threw
       /\ IF chunk.status_returned
          THEN WriteFailed(code, o.m)
          ELSE TrashAndReset(code, <<"552">>, o.m, "bdat")
  /\ chunk' = Transferred(TRUE)
  /\ UNCHANGED <<connection, good, timed_out, max_write, alarm, begun, acked>>

\* Nothing to write to: the octets are read and dropped.
BdatDiscard ==
  /\ TransferLeft /\ ~Spooling
  /\ IF chunk.status_returned
     THEN UNCHANGED <<state, envelope, msg, maxed_out, replies, pc, maildir>>
     ELSE TransferError("552", "bdat")
  /\ chunk' = Transferred(TRUE)
  /\ UNCHANGED <<connection, good, timed_out, max_write, alarm, begun, acked>>

\* The read fails: bdat_act returns, the rest of the chunk unread.  The error
\* handlers clear the stream; without one it stays failed.
BdatReadFails ==
  /\ TransferLeft
  /\ \E why \in ReadFailures :
       /\ timed_out' = (timed_out \/ why = "timeout")
       /\ IF chunk.status_returned
          THEN /\ good' = FALSE /\ maxed_out' = (why = "maxed") /\ pc' = "cmd"
               /\ UNCHANGED <<state, envelope, msg, replies, maildir>>
          ELSE /\ good' = TRUE
               /\ TransferError(IF why = "maxed" THEN "552" ELSE "503", "cmd")
  /\ chunk' = NoChunk
  /\ UNCHANGED <<connection, max_write, alarm, begun, acked>>

\* The loop is done.  With a status returned there is nothing more to say,
\* otherwise Session::bdat_done has it.
TransferDone == pc = "bdat" /\ chunk.left = 0

BdatAnswered ==
  /\ TransferDone /\ chunk.status_returned
  /\ pc' = "cmd" /\ chunk' = NoChunk
  /\ UNCHANGED <<state, envelope, msg, connection, stream, max_write, alarm, begun, replies,
                 acked, maildir>>

\* Wrong: bdat_done is called after an error has been answered, too.
BdatDone_Always == TransferDone

BdatDone == TransferDone /\ ~chunk.status_returned

\* bdat_done with no message returns without a word.
BdatNoMessage ==
  /\ BdatDone /\ state = "bdat" /\ msg = NoMessage
  /\ pc' = "cmd" /\ chunk' = NoChunk
  /\ UNCHANGED <<state, envelope, msg, connection, stream, max_write, alarm, begun, replies,
                 acked, maildir>>

BdatRejected ==
  /\ BdatDone
  /\ state # "bdat" \/ (msg # NoMessage /\ msg.sizeError)
  /\ TransferError(IF state # "bdat" THEN "503" ELSE "552", "cmd")
  /\ chunk' = NoChunk
  /\ UNCHANGED <<connection, good, timed_out, max_write, alarm, begun, acked>>

BdatChunkDone ==
  /\ BdatDone /\ state = "bdat" /\ msg # NoMessage /\ ~msg.sizeError
  /\ ~chunk.last
  /\ replies' = Append(replies, "250")
  /\ pc' = "cmd" /\ chunk' = NoChunk
  /\ UNCHANGED <<state, envelope, msg, connection, stream, max_write, alarm, begun, acked,
                 maildir>>

BdatLastDone ==
  /\ BdatDone /\ state = "bdat" /\ msg # NoMessage /\ ~msg.sizeError
  /\ chunk.last
  /\ DoDeliver
  /\ chunk' = NoChunk
  /\ UNCHANGED <<connection, good, timed_out, max_write, alarm, begun, acked>>

\* The tail of data_done and bdat_done: the 250, then a log line that looks into
\* the message, gone if do_deliver_ has failed and reset, then reset_().
Acknowledge ==
  /\ pc = "ack"
  /\ replies' = Append(replies, "250")
  /\ acked' = acked + 1
  /\ IF msg = NoMessage
     THEN pc' = "abort" /\ UNCHANGED <<state, envelope, msg, maxed_out, maildir>>
     ELSE pc' = "cmd" /\ Reset(msg)
  /\ UNCHANGED <<connection, good, timed_out, process>>
-----------------------------------------------------------------------------
\* reset_() takes a session that has seen no HELO/EHLO to "mail" as well.
Rset ==
  /\ Ready
  /\ replies' = <<"250">>
  /\ Reset(msg)
  /\ UNCHANGED <<connection, good, timed_out, pc, process, acked>>

\* noop, vrfy and help
Answer == Ready /\ \E code \in {"250", "252", "214"} : Reply(code)

\* quit and auth, neither of which returns
Quit == Ready /\ \E code \in {"221", "454"} : ReplyAndExit(code)

\* Session::cmd_unrecognized
Unrecognized ==
  /\ Ready
  /\ n_unrecognized' = n_unrecognized + 1
  /\ replies' = <<"500">>
  /\ IF n_unrecognized' >= MaxUnrecognized THEN Leave(msg, "exit") ELSE UNCHANGED <<pc, msg, maildir>>
  /\ UNCHANGED <<state, envelope, client_identity, extensions, allowed, spf, tls, max_msg_size,
                 stream, process, acked>>

\* Session::starttls
StarttlsRefused == Ready /\ (tls \/ ~extensions) /\ Reply("554")

Starttls ==
  /\ Ready /\ ~tls /\ extensions
  /\ replies' = <<"220">>
  /\ tls' = TRUE
  /\ Reset(msg)
  /\ max_msg_size' = BroSize
  /\ UNCHANGED <<client_identity, extensions, allowed, spf, n_unrecognized, good, timed_out,
                 pc, process, acked>>

\* starttls_server returns false, or a CHECK in it ends the process.
StarttlsFails ==
  /\ Ready /\ ~tls /\ extensions
  /\ replies' = <<"220">>
  /\ \/ UNCHANGED <<pc, msg, maildir>>
     \/ Leave(msg, "abort")
  /\ UNCHANGED <<state, envelope, connection, stream, process, acked>>
-----------------------------------------------------------------------------
\* What is written to a stream with its error bits set is lost.
Heard(codes) == IF good' THEN codes ELSE <<>>

\* The command grammar finds no more input, now or since an earlier read failed:
\* main's last words, with no way left to say them, and the end.
EndOfInput ==
  /\ pc = "cmd"
  /\ IF good
     THEN \E why \in ReadFailures :
            /\ maxed_out' = (why = "maxed")
            /\ timed_out' = (timed_out \/ why = "timeout")
     ELSE UNCHANGED <<maxed_out, timed_out>>
  /\ good' = FALSE
  /\ replies' = Heard(IF maxed_out' THEN <<"552">> ELSE IF timed_out' THEN <<"421">> ELSE <<>>)
  /\ Leave(msg, "exit")
  /\ UNCHANGED <<state, envelope, connection, process, acked>>

\* A minute passes.
Tick ==
  /\ ~Ended /\ alarm > 1
  /\ alarm' = alarm - 1
  /\ UNCHANGED <<state, envelope, msg, connection, stream, pc, chunk, max_write, begun, replies,
                 acked, maildir>>

\* timeout(), the SIGALRM handler, writes past the stream and calls _Exit.
AlarmRings ==
  /\ ~Ended /\ alarm = 1
  /\ alarm' = 0
  /\ replies' = Append(replies, "421")
  /\ Leave(msg, "exit")
  /\ UNCHANGED <<state, envelope, connection, stream, chunk, max_write, begun, acked>>
-----------------------------------------------------------------------------
Transaction ==
  \/ LoRefused \/ \E verb \in {"HELO", "EHLO"} : Lo(verb)
  \/ MailOutOfSequence \/ MailParamsRefused \/ MailSenderRefused \/ MailAccepted
  \/ RcptOutOfSequence \/ RcptRefused \/ RcptCheckThrows \/ RcptTooMany \/ RcptAccepted

Data ==
  \/ DataOutOfSequence \/ DataBinaryMime \/ DataStart
  \/ DataLine \/ DataLineFails \/ DataReadFails \/ DataBareLf
  \/ DataTooLarge \/ DataDone \/ DataDoneChecks

Bdat ==
  \/ BdatOutOfSequence \/ BdatFirst \/ BdatNext
  \/ BdatTransfer \/ BdatWriteFails \/ BdatDiscard \/ BdatReadFails
  \/ BdatAnswered \/ BdatNoMessage \/ BdatRejected \/ BdatChunkDone \/ BdatLastDone

Other == Rset \/ Answer \/ Quit \/ Unrecognized \/ StarttlsRefused \/ Starttls \/ StarttlsFails

Start == GreetingRefused \/ Greeting

Next ==
  \/ Start
  \/ Transaction
  \/ Data
  \/ Bdat
  \/ Acknowledge
  \/ Other
  \/ EndOfInput
  \/ Tick
  \/ AlarmRings

Spec == Init /\ [][Next]_vars

\* Time passes and signals are delivered, whatever the client does, and
\* greeting() waits for the client no longer than twice Config::greeting_wait.
FairSpec == Spec /\ WF_vars(Start) /\ WF_vars(Tick) /\ WF_vars(AlarmRings)
-----------------------------------------------------------------------------
\* "The sender issues a command and the receiver responds with a reply"
\* (Session.cpp:321): when the session waits for the next command it has answered
\* the last one exactly once, or, for a DATA it let begin, 354 and once more.  A
\* reply too many or too few puts a pipelining client out of step for good.
ReplyPerCommand ==
  Ready => \/ Len(replies) = 1 /\ replies[1] # "354"
           \/ Len(replies) = 2 /\ replies[1] = "354" /\ replies[2] # "354"

\* A final 250 for a message means the Maildir has all of it: it is not said for
\* a message that was refused, cut off, too large or already dropped.
AckedIsStored == acked <= maildir.whole

\* And the other way round: what is in the Maildir's new/ has been acknowledged,
\* so a client that was told no and tries again leaves no second copy.  (Not so
\* if the alarm can ring between the two, see AlarmRings.)
StoredIsAcked == Immortal => maildir.whole + maildir.short <= acked

\* folder() reads forward_path_[0] and added_headers_ the reverse path: no message
\* is begun or kept without a sender and a recipient.
OpenHasEnvelope ==
  msg # NoMessage => /\ reverse_path # NoSender /\ forward_path > 0
                     /\ state \in {"data", "bdat"}

\* While a message is spooled its envelope does not change: the recipients in
\* its Received: header are those of the transaction it is acknowledged in.
EnvelopeFrozen ==
  [][msg # NoMessage /\ msg' # NoMessage => UNCHANGED <<reverse_path, forward_path>>]_vars

\* A message one of whose writes was refused for its size never reaches new/,
\* however it was sent and whatever arrived after the refusal.
OversizeNotDelivered == msg # NoMessage /\ msg.sizeError => msg.new = "none"

\* The CHECKs of msg_new and data_done hold, and a message that is to be
\* delivered exists: the grammar's position and state_ never disagree.
PhaseMatchesState ==
  /\ pc = "data" => state = "data" /\ msg # NoMessage
  /\ pc = "bdat" /\ ~chunk.status_returned => state = "bdat" /\ msg # NoMessage
  /\ pc = "ack" => state \in {"data", "bdat"} /\ msg # NoMessage

\* RFC 3030 as quoted at Session.cpp:992: the content of a BINARYMIME message is
\* never taken by DATA, whatever was tried in between.
BinaryMimeNotByData == pc = "data" => "BINARYMIME" \notin flags

\* The session implements MailTransaction: its state_, msg_ and envelope pass through
\* the phases of one transaction in order, a message enters the Maildir only from
\* the content of a transaction, and the next thing after it is the one 250 for it
\* or the end.
TransactionPhase ==
  IF pc = "ack" THEN "stored"
  ELSE IF Ended THEN "over"
  ELSE IF msg # NoMessage THEN "content"
  ELSE IF forward_path > 0 THEN "recipients"
  ELSE IF reverse_path # NoSender THEN "sender" ELSE "idle"

\* Whole files in new/, the one of the message in hand among them.
StoredMessages ==
  maildir.whole + (IF msg # NoMessage /\ msg.new = "whole" THEN 1 ELSE 0)

Mail == INSTANCE MailTransaction
  WITH phase <- TransactionPhase, stored <- StoredMessages

KeepsMailPromise == Mail!Spec

\* A session ends however the client behaves, if it does not keep sending ham:
\* here it may begin MaxMessages messages and send any number of commands.
SessionEnds == <>Ended
=============================================================================
