----------------------------- MODULE SessionProofs -----------------------------
(***************************************************************************)
(* What holds in every session, for all limits, mailboxes, sizes and       *)
(* bounds, in three parts: whichever system calls fail, unless a theorem   *)
(* names the ones it needs to work; what a client may rely on, where the   *)
(* calls that the answers depend on work; and what reaches the session     *)
(* from the commands, as the grammar of smtp.cpp reads them.               *)
(***************************************************************************)
EXTENDS Session, CommandContext, MessageStoreOpsProofs, SequenceTheorems, WellFoundedInduction

-----------------------------------------------------------------------------
(***************************************************************************)
(* Lemmas about the operators the actions are made of.                     *)
(***************************************************************************)

\* What a handler writes is a sequence of reply codes.
LEMMA RepliesType ==
  /\ <<>> \in Seq(Codes)
  /\ \A c \in Codes : <<c>> \in Seq(Codes)
  /\ \A c, d \in Codes : <<c, d>> \in Seq(Codes)
  /\ \A s \in Seq(Codes), c \in Codes : Append(s, c) \in Seq(Codes)
  /\ \A s, t \in Seq(Codes) : s \o t \in Seq(Codes)
  OBVIOUS

\* Destroying a message object files what it has in new/ and takes nothing away.
LEMMA FiledType ==
  ASSUME NEW d \in Maildir, NEW m \in Store \cup {NoMessage}
  PROVE  /\ Filed(d, m) \in Maildir
         /\ Filed(d, m).whole = d.whole + (IF m # NoMessage /\ m.new = "whole" THEN 1 ELSE 0)
  BY DEF Filed, Maildir, Store, FileContent

\* A message that msg_new could begin is sound and not in new/.
LEMMA NewMessageType ==
  ASSUME NEW o \in NewMessageOutcomes, MessageLimit \in Nat
  PROVE  /\ o \in Outcome
         /\ o.m.new = "none"
         /\ ~o.threw => Sound(o.m)
<1>1. PICK q \in Open(Fresh, MessageLimit) : o \in IF q.threw THEN {q} ELSE Write(q.m, HeaderSize)
  BY DEF NewMessageOutcomes
<1>2. /\ q \in Outcome /\ q.m.new = "none"
      /\ ~q.threw => Sound(q.m)
  <2>1. Fresh.new = "none"
    BY DEF Fresh
  <2> QED
    BY <2>1, FreshType, OpenOutcome
<1>3. CASE q.threw
  BY <1>1, <1>2, <1>3
<1>4. CASE ~q.threw
  <2>1. o \in Write(q.m, HeaderSize) /\ q.m \in Store /\ HeaderSize \in Nat
    BY <1>1, <1>2, <1>4, LimitAssumption DEF Outcome
  <2> QED
    BY <2>1, <1>2, <1>4, WriteOutcome DEF Sound
<1> QED
  BY <1>3, <1>4

\* The limit of a message is one of the two configured sizes.
LEMMA MessageLimitType ==
  ASSUME TypeOK
  PROVE  MessageLimit \in {InitialSize, BroSize} /\ MessageLimit \in Nat
  BY LimitAssumption DEF TypeOK, MessageLimit

\* A message object that exists is a store.
LEMMA MessageType ==
  ASSUME TypeOK, msg # NoMessage
  PROVE  msg \in Store
  BY DEF TypeOK

\* The copies of a message object in new/ that are whole: one or none.
InNew(m) == IF m # NoMessage /\ m.new = "whole" THEN 1 ELSE 0

LEMMA FiledCopies ==
  ASSUME NEW d \in Maildir, NEW m \in Store \cup {NoMessage}
  PROVE  Filed(d, m) \in Maildir /\ Filed(d, m).whole = d.whole + InNew(m)
  BY FiledType DEF InNew

LEMMA CopiesType == \A m : InNew(m) \in {0, 1}
  BY DEF InNew

\* The message is filed and the transaction cleared.
Dropped ==
  /\ state' = "mail" /\ reverse_path' = NoSender /\ forward_path' = 0 /\ flags' = {}
  /\ msg' = NoMessage /\ maxed_out' = FALSE

\* reset_() clears the transaction and loses no copy.
LEMMA ResetEffect ==
  ASSUME TypeOK, NEW m \in Store \cup {NoMessage}, Reset(m)
  PROVE  /\ Dropped
         /\ maildir' \in Maildir /\ maildir'.whole = maildir.whole + InNew(m)
  BY FiledCopies DEF Reset, Dropped, TypeOK

\* Neither does the end of the process.
LEMMA LeaveEffect ==
  ASSUME TypeOK, NEW m \in Store \cup {NoMessage}, NEW how, Leave(m, how)
  PROVE  /\ pc' = how /\ msg' = NoMessage
         /\ maildir' \in Maildir /\ maildir'.whole = maildir.whole + InNew(m)
  BY FiledCopies DEF Leave, TypeOK

\* The transaction is kept as it is; only DATA keeps the message object as well.
Kept(m) ==
  /\ UNCHANGED <<state, reverse_path, forward_path, flags, maxed_out>>
  /\ IF pc = "data"
     THEN pc' = "cmd" /\ msg' \in Store /\ msg'.new = m.new /\ msg'.sizeError = m.sizeError
     ELSE pc' = "exit" /\ msg' = NoMessage

\* When trash() throws nothing is cleared and no copy is lost.
LEMMA TrashThrowsEffect ==
  ASSUME TypeOK, NEW m \in Store, NEW code \in Codes, TrashThrows(code, m)
  PROVE  /\ Kept(m)
         /\ replies' \in Seq(Codes) /\ maildir' \in Maildir
         /\ maildir'.whole + InNew(msg') = maildir.whole + InNew(m)
         /\ maildir'.whole >= maildir.whole
<1>1. UNCHANGED <<state, reverse_path, forward_path, flags, maxed_out>>
  BY DEF TrashThrows, envelope
<1>2. CASE pc = "data"
  <2>1. replies' = replies \o <<code, "421">> /\ pc' = "cmd" /\ msg' = m /\ maildir' = maildir
    BY <1>2 DEF TrashThrows
  <2>2. replies' \in Seq(Codes)
    BY <2>1, RepliesType DEF TypeOK, Codes
  <2> QED
    BY <1>1, <1>2, <2>1, <2>2 DEF Kept, TypeOK, Maildir
<1>3. CASE pc # "data"
  <2>1. replies' = Append(replies, code) /\ Leave(m, "exit")
    BY <1>3 DEF TrashThrows
  <2>2. replies' \in Seq(Codes)
    BY <2>1, RepliesType DEF TypeOK
  <2>3. /\ pc' = "exit" /\ msg' = NoMessage
        /\ maildir' \in Maildir /\ maildir'.whole = maildir.whole + InNew(m)
    BY <2>1, LeaveEffect
  <2>4. InNew(msg') = 0 /\ InNew(m) \in {0, 1} /\ maildir.whole \in Nat
    BY <2>3, CopiesType DEF InNew, TypeOK, Maildir
  <2> QED
    BY <1>1, <1>3, <2>2, <2>3, <2>4 DEF Kept
<1> QED
  BY <1>2, <1>3

\* Trashing and resetting keeps what is in new/ already; it fails to clear the
\* transaction only where fs::exists can throw.
LEMMA TrashAndResetEffect ==
  ASSUME TypeOK, NEW m \in Store, NEW code \in Codes, NEW then \in Seq(Codes), NEW next,
         TrashAndReset(code, then, m, next)
  PROVE  /\ (Dropped /\ pc' = next) \/ ("exists" \in Faults /\ Kept(m))
         /\ replies' \in Seq(Codes) /\ maildir' \in Maildir
         /\ maildir'.whole + InNew(msg') = maildir.whole + InNew(m)
         /\ maildir'.whole >= maildir.whole
<1>1. PICK t \in Close(m) :
        IF t.threw THEN TrashThrows(code, t.m)
        ELSE Reset(t.m) /\ replies' = Append(replies, code) \o then /\ pc' = next
  BY DEF TrashAndReset
<1>2. /\ t.m \in Store /\ t.m.new = m.new /\ t.m.sizeError = m.sizeError
      /\ t.threw => "exists" \in Faults
      /\ InNew(t.m) = InNew(m)
  BY CloseOutcome, MessageAssumption DEF Outcome, InNew
<1>3. CASE t.threw
  <2>1. /\ Kept(t.m) /\ replies' \in Seq(Codes) /\ maildir' \in Maildir
        /\ maildir'.whole + InNew(msg') = maildir.whole + InNew(m)
        /\ maildir'.whole >= maildir.whole
    BY <1>1, <1>2, <1>3, TrashThrowsEffect
  <2> QED
    BY <1>2, <1>3, <2>1 DEF Kept
<1>4. CASE ~t.threw
  <2>1. /\ Dropped /\ maildir' \in Maildir /\ maildir'.whole = maildir.whole + InNew(m)
    BY <1>1, <1>2, <1>4, ResetEffect
  <2>2. replies' \in Seq(Codes)
    <3>1. Append(replies, code) \in Seq(Codes)
      BY RepliesType DEF TypeOK
    <3> QED
      BY <1>1, <1>4, <3>1, RepliesType
  <2>3. InNew(msg') = 0 /\ InNew(m) \in {0, 1} /\ maildir.whole \in Nat
    BY <2>1, CopiesType DEF Dropped, InNew, TypeOK, Maildir
  <2> QED
    BY <1>1, <1>4, <2>1, <2>2, <2>3
<1> QED
  BY <1>3, <1>4

\* The error handlers of a transfer likewise, whether or not a message exists.
LEMMA TransferErrorEffect ==
  ASSUME TypeOK, NEW code \in Codes, NEW next, TransferError(code, next)
  PROVE  /\ (Dropped /\ pc' = next) \/ ("exists" \in Faults /\ msg # NoMessage /\ Kept(msg))
         /\ replies' \in Seq(Codes) /\ maildir' \in Maildir
         /\ maildir'.whole + InNew(msg') = maildir.whole + InNew(msg)
         /\ maildir'.whole >= maildir.whole
<1>1. CASE msg = NoMessage
  <2>1. Reset(msg) /\ replies' = Append(replies, code) /\ pc' = next
    BY <1>1 DEF TransferError
  <2>2. Dropped /\ maildir' \in Maildir /\ maildir'.whole = maildir.whole + InNew(msg)
    BY <1>1, <2>1, ResetEffect
  <2> QED
    BY <1>1, <2>1, <2>2, RepliesType DEF Dropped, InNew, Maildir, TypeOK
<1>2. CASE msg # NoMessage
  <2>1. TrashAndReset(code, <<>>, msg, next) /\ msg \in Store /\ <<>> \in Seq(Codes)
    BY <1>2, MessageType, RepliesType DEF TransferError
  <2> QED
    BY <1>2, <2>1, TrashAndResetEffect
<1> QED
  BY <1>1, <1>2

\* msg_write that returns: the message stays sound and where it is.
LEMMA WriteReturnsEffect ==
  ASSUME TypeOK, msg # NoMessage, NEW n \in Nat, WriteReturns(n)
  PROVE  /\ UNCHANGED <<state, reverse_path, forward_path, flags, maxed_out, replies, maildir>>
         /\ msg' \in Store /\ msg'.new = msg.new
         /\ Sound(msg) => Sound(msg')
<1>1. PICK o \in Write(msg, n) : ~o.threw /\ msg' = o.m
  BY DEF WriteReturns
<1>2. msg \in Store
  BY MessageType
<1> QED
  BY <1>1, <1>2, WriteOutcome DEF WriteReturns, envelope, Outcome, Sound

\* do_deliver_ of a sound message that is not in new/ yet: it returns at "ack",
\* unless trash() throws, and, where close and rename work, with one more copy.
LEMMA DoDeliverEffect ==
  ASSUME TypeOK, msg # NoMessage, Sound(msg), msg.new = "none", DoDeliver
  PROVE  /\ replies' \in Seq(Codes) /\ maildir' \in Maildir
         /\ \/ /\ pc' = "ack"
               /\ UNCHANGED <<state, reverse_path, forward_path, flags, maxed_out>>
               /\ msg' \in Store /\ msg'.sizeError = msg.sizeError
            \/ /\ "exists" \in Faults
               /\ \/ Dropped /\ pc' = "ack"
                  \/ \E m \in Store : Kept(m) /\ m.sizeError = msg.sizeError
         /\ maildir'.whole >= maildir.whole
         /\ Faults \cap {"close", "rename"} = {} =>
              maildir'.whole + InNew(msg') = maildir.whole + 1
<1> DEFINE Lossless == Faults \cap {"close", "rename"} = {}
<1>1. PICK d \in Deliver(msg) : \E c \in IF d.threw THEN {d} ELSE Close(d.m) :
        IF c.threw
        THEN \E code \in {"452", "550"} : TrashAndReset(code, <<>>, c.m, "ack")
        ELSE /\ msg' = c.m /\ pc' = "ack"
             /\ UNCHANGED <<state, envelope, maxed_out, replies, maildir>>
  BY DEF DoDeliver
<1>2. PICK c \in IF d.threw THEN {d} ELSE Close(d.m) :
        IF c.threw
        THEN \E code \in {"452", "550"} : TrashAndReset(code, <<>>, c.m, "ack")
        ELSE /\ msg' = c.m /\ pc' = "ack"
             /\ UNCHANGED <<state, envelope, maxed_out, replies, maildir>>
  BY <1>1
<1>3. /\ d.m \in Store /\ d.m.sizeError = msg.sizeError
      /\ d.threw => "exists" \in Faults
      /\ Lossless => d.m.new = "whole"
  <2>1. msg \in Store /\ msg.tmp = "whole"
    BY MessageType DEF Sound
  <2> QED
    BY <2>1, DeliverOutcome DEF Outcome
<1>4. /\ c.m \in Store /\ c.m.sizeError = msg.sizeError
      /\ c.threw => "exists" \in Faults
      /\ Lossless => c.m.new = "whole"
  BY <1>2, <1>3, CloseOutcome DEF Outcome
<1>5. /\ InNew(c.m) \in {0, 1}
      /\ Lossless => InNew(c.m) = 1
  BY <1>4, MessageAssumption DEF InNew
<1>6. CASE c.threw
  <2>1. PICK code \in {"452", "550"} : TrashAndReset(code, <<>>, c.m, "ack")
    BY <1>2, <1>6
  <2>2. code \in Codes /\ <<>> \in Seq(Codes)
    BY <2>1, RepliesType DEF Codes
  <2>3. /\ (Dropped /\ pc' = "ack") \/ ("exists" \in Faults /\ Kept(c.m))
        /\ replies' \in Seq(Codes) /\ maildir' \in Maildir
        /\ maildir'.whole + InNew(msg') = maildir.whole + InNew(c.m)
        /\ maildir'.whole >= maildir.whole
    BY <1>4, <2>1, <2>2, TrashAndResetEffect
  <2> QED
    BY <1>4, <1>5, <1>6, <2>3 DEF TypeOK, Maildir
<1>7. CASE ~c.threw
  <2>1. /\ msg' = c.m /\ pc' = "ack"
        /\ UNCHANGED <<state, envelope, maxed_out, replies, maildir>>
    BY <1>2, <1>7
  <2> QED
    BY <1>4, <1>5, <2>1 DEF TypeOK, Maildir, envelope
<1> QED
  BY <1>6, <1>7

\* msg_new: a sound message that is not in new/, or none; an old object that was
\* still there is filed.
LEMMA MsgNewEffect ==
  ASSUME TypeOK, NEW said \in Seq(Codes), NEW onSuccess, NEW onFailure,
         MsgNew(said, onSuccess, onFailure)
  PROVE  /\ begun' \in 0..MaxMessages /\ alarm' \in 0..HamAlarm
         /\ max_write' \in {0, InitialSize, BroSize}
         /\ replies' \in Seq(Codes) /\ maildir' \in Maildir
         /\ maildir'.whole >= maildir.whole + InNew(msg)
         /\ \/ /\ msg' \in Store /\ msg' # NoMessage /\ Sound(msg') /\ msg'.new = "none"
               /\ pc' = onSuccess.pc /\ chunk' = onSuccess.chunk
            \/ /\ msg' = NoMessage
               /\ pc' \in {"exit", onFailure.pc} /\ chunk' = onFailure.chunk
<1>1. begun' \in 0..MaxMessages
  BY LimitAssumption DEF MsgNew, TypeOK
<1>2. alarm' \in 0..HamAlarm
  BY DEF MsgNew, TypeOK, HamAlarm
<1>3. max_write' \in {0, InitialSize, BroSize}
  BY MessageLimitType DEF MsgNew
<1>4. PICK o \in NewMessageOutcomes :
       \/ /\ ~o.threw
          /\ msg' = o.m /\ maildir' = Filed(maildir, msg)
          /\ replies' = said
          /\ pc' = onSuccess.pc /\ chunk' = onSuccess.chunk
       \/ /\ o.threw
          /\ \E t \in Close(o.m) :
               /\ msg' = NoMessage /\ maildir' = Filed(Filed(maildir, msg), t.m)
               /\ \E code \in StorageErrors : replies' = <<code>>
               /\ pc' = IF t.threw THEN "exit" ELSE onFailure.pc
               /\ chunk' = onFailure.chunk
  BY DEF MsgNew
<1>5. /\ o.m \in Store /\ o.m.new = "none" /\ o.m # NoMessage
      /\ ~o.threw => Sound(o.m)
  BY NewMessageType, MessageLimitType, MessageAssumption DEF Outcome
<1>6. /\ Filed(maildir, msg) \in Maildir
      /\ Filed(maildir, msg).whole = maildir.whole + InNew(msg)
  BY FiledCopies DEF TypeOK
<1>7. CASE ~o.threw
  BY <1>1, <1>2, <1>3, <1>4, <1>5, <1>6, <1>7 DEF Maildir
<1>8. CASE o.threw
  <2>1. PICK t \in Close(o.m) :
               /\ msg' = NoMessage /\ maildir' = Filed(Filed(maildir, msg), t.m)
               /\ \E code \in StorageErrors : replies' = <<code>>
               /\ pc' = IF t.threw THEN "exit" ELSE onFailure.pc
               /\ chunk' = onFailure.chunk
    BY <1>4, <1>8
  <2>2. t.m \in Store
    BY <1>5, <2>1, CloseOutcome DEF Outcome
  <2>3. /\ maildir' \in Maildir
        /\ maildir'.whole = Filed(maildir, msg).whole + InNew(t.m)
    BY <1>6, <2>1, <2>2, FiledCopies
  <2>4. InNew(t.m) \in {0, 1}
    BY DEF InNew
  <2>5. maildir'.whole >= maildir.whole + InNew(msg)
    BY <1>6, <2>3, <2>4 DEF Maildir
  <2>6. replies' \in Seq(Codes)
    BY <2>1, RepliesType DEF StorageErrors, Codes
  <2> QED
    BY <1>1, <1>2, <1>3, <2>1, <2>3, <2>5, <2>6
<1> QED
  BY <1>4, <1>7, <1>8
-----------------------------------------------------------------------------
(***************************************************************************)
(* The inductive invariant.  Beside the types it says what the position of *)
(* the grammar and state_ tell about the transaction and its message, and  *)
(* it counts: every acknowledgement, given or due, has a whole message in  *)
(* new/, if only on behalf of the object that still owns it.               *)
(***************************************************************************)

\* No command counts as unrecognized once the limit is reached.
Patient == ~Ended => n_unrecognized < MaxUnrecognized

\* state_ and the grammar's position agree with the transaction.
Positions ==
  /\ state \in {"rcpt", "data", "bdat"} => reverse_path # NoSender
  /\ state \in {"data", "bdat"} => forward_path > 0
  /\ msg # NoMessage => state \in {"data", "bdat"}
  /\ pc = "greet" => msg = NoMessage
  /\ pc = "data" => state = "data"
  /\ pc = "data" \/ (state = "data" /\ msg # NoMessage) => "BINARYMIME" \notin flags
  /\ pc = "bdat" /\ msg # NoMessage => state = "bdat"

\* A message that can still be written to is sound and not in new/.
SpoolIsSound ==
  msg # NoMessage /\ pc # "ack" /\ (pc = "data" \/ state = "bdat")
    => Sound(msg) /\ msg.new = "none"

\* If closing and renaming work, every 250 given or due has its message.
Accounted ==
  Faults \cap {"close", "rename"} = {} =>
    /\ acked <= maildir.whole
    /\ pc = "ack" => acked < maildir.whole + InNew(msg)

\* If fs::exists works, a message outlives its command only between BDAT chunks.
NothingLeftOver ==
  "exists" \notin Faults /\ msg # NoMessage /\ Ready => state = "bdat"

Kernel == Patient /\ Positions /\ SpoolIsSound /\ OversizeNotDelivered
            /\ Accounted /\ NothingLeftOver

IInv == TypeOK /\ Kernel
-----------------------------------------------------------------------------
(***************************************************************************)
(* Type correctness, group of actions by group of actions.                 *)
(***************************************************************************)
\* The members reset_() clears keep their types.
LEMMA DroppedType ==
  ASSUME Dropped
  PROVE  /\ state' \in Steps /\ reverse_path' \in Senders \cup {NoSender}
         /\ forward_path' \in 0..MaxRecipients /\ flags' \subseteq MailFlags
         /\ msg' \in Store \cup {NoMessage} /\ maxed_out' \in BOOLEAN
<1>1. forward_path' \in 0..MaxRecipients
  BY LimitAssumption DEF Dropped
<1>2. flags' \subseteq MailFlags
  BY DEF Dropped
<1> QED
  BY <1>1, <1>2 DEF Dropped, Steps

\* The type of what ReplyAndExit writes.
LEMMA ReplyAndExitType ==
  ASSUME TypeOK, NEW code \in Codes, ReplyAndExit(code)
  PROVE  TypeOK'
<1>1. /\ pc' = "exit" /\ msg' = NoMessage /\ maildir' \in Maildir
  BY LeaveEffect DEF ReplyAndExit, TypeOK
<1>2. replies' \in Seq(Codes)
  BY RepliesType DEF ReplyAndExit
<1> QED
  BY <1>1, <1>2 DEF ReplyAndExit, TypeOK, envelope, connection, spf, stream, process, Phases

LEMMA StartType == TypeOK /\ Start => TypeOK'
<1> SUFFICES ASSUME TypeOK, Start PROVE TypeOK'
  OBVIOUS
<1> USE DEF envelope, connection, spf, stream, process, Phases
<1>1. CASE GreetingRefused
  <2>1. PICK code \in {"554", "421"} : ReplyAndExit(code)
    BY <1>1 DEF GreetingRefused
  <2> QED
    BY <2>1, ReplyAndExitType DEF Codes
<1>2. CASE Greeting
  <2>1. allowed' \subseteq {"ip", "fcrdns"}
    BY <1>2, Zenon DEF Greeting, IpVerdicts
  <2> QED
    BY <1>2, <2>1, RepliesType
       DEF Greeting, IpVerdicts, TypeOK, Codes, InitialAlarm, HamAlarm
<1> QED
  BY <1>1, <1>2 DEF Start

LEMMA TransactionType == TypeOK /\ Transaction => TypeOK'
<1> SUFFICES ASSUME TypeOK, Transaction PROVE TypeOK'
  OBVIOUS
<1> USE DEF envelope, connection, spf, stream, process, Phases, Steps
<1>1. CASE LoRefused
  BY <1>1, ReplyAndExitType DEF LoRefused, Codes
<1>2. CASE \E verb \in {"HELO", "EHLO"} : Lo(verb)
  <2>1. Dropped /\ maildir' \in Maildir
    BY <1>2, ResetEffect DEF Lo, TypeOK
  <2>2. replies' \in Seq(Codes) /\ extensions' \in BOOLEAN /\ client_identity' \in Identities
    BY <1>2, RepliesType DEF Lo, Codes
  <2> QED
    BY <1>2, <2>1, <2>2, DroppedType DEF Lo, TypeOK
<1>3. CASE MailOutOfSequence
  BY <1>3, RepliesType DEF MailOutOfSequence, Reply, TypeOK, Codes
<1>4. CASE MailParamsRefused
  <2>1. flags' \subseteq MailFlags
    BY <1>4 DEF MailParamsRefused, TypeOK
  <2>2. replies' \in Seq(Codes)
    <3>1. PICK code \in {"552", "554"} : replies' = <<code>>
      BY <1>4 DEF MailParamsRefused
    <3> QED
      BY <3>1, RepliesType DEF Codes
  <2> QED
    BY <1>4, <2>1, <2>2 DEF MailParamsRefused, TypeOK
<1>5. CASE MailSenderRefused
  BY <1>5, ReplyAndExitType DEF MailSenderRefused, Codes
<1>6. CASE MailAccepted
  <2>1. flags' \subseteq MailFlags
    BY <1>6 DEF MailAccepted, TypeOK
  <2>2. /\ reverse_path' \in Senders /\ spf_result' \in Results
        /\ spf_sender_domain' \in Senders \cup {NoSender, "localhost"}
    BY <1>6 DEF MailAccepted, CheckSpf, TypeOK
  <2> QED
    BY <1>6, <2>1, <2>2, RepliesType, LimitAssumption DEF MailAccepted, TypeOK, Codes
<1>7. CASE RcptOutOfSequence
  BY <1>7, RepliesType DEF RcptOutOfSequence, Reply, TypeOK, Codes
<1>8. CASE RcptRefused
  BY <1>8, RepliesType DEF RcptRefused, Reply, TypeOK, Codes
<1>9. CASE RcptCheckThrows
  <2>1. pc' \in Phases /\ msg' = NoMessage /\ maildir' \in Maildir
    <3>1. msg \in Store \cup {NoMessage} /\ Leave(msg, "exit")
      BY <1>9 DEF RcptCheckThrows, TypeOK
    <3> QED
      BY <3>1, LeaveEffect
  <2>2. replies' \in Seq(Codes)
    BY <1>9, RepliesType DEF RcptCheckThrows
  <2>3. UNCHANGED <<state, envelope, connection, stream, process, acked>>
    BY <1>9 DEF RcptCheckThrows
  <2> QED
    BY <2>1, <2>2, <2>3 DEF TypeOK
<1>10. CASE RcptTooMany
  BY <1>10, RepliesType DEF RcptTooMany, Reply, TypeOK, Codes
<1>11. CASE RcptAccepted
  BY <1>11, RepliesType, LimitAssumption DEF RcptAccepted, TypeOK, Codes
<1> QED
  BY <1>1, <1>2, <1>3, <1>4, <1>5, <1>6, <1>7, <1>8, <1>9, <1>10, <1>11 DEF Transaction

LEMMA OtherType == TypeOK /\ Patient /\ (Other \/ EndOfInput \/ Tick \/ AlarmRings) => TypeOK'
<1> SUFFICES ASSUME TypeOK, Patient, Other \/ EndOfInput \/ Tick \/ AlarmRings PROVE TypeOK'
  OBVIOUS
<1> USE DEF envelope, connection, spf, stream, process, Phases, Steps
<1>1. CASE Rset
  <2>1. Dropped /\ maildir' \in Maildir
    BY <1>1, ResetEffect DEF Rset, TypeOK
  <2>2. replies' \in Seq(Codes)
    BY <1>1, RepliesType DEF Rset, Codes
  <2> QED
    BY <1>1, <2>1, <2>2, DroppedType DEF Rset, TypeOK
<1>2. CASE Answer
  BY <1>2, RepliesType DEF Answer, Reply, TypeOK, Codes
<1>3. CASE Quit
  BY <1>3, ReplyAndExitType DEF Quit, Codes
<1>4. CASE Unrecognized
  <2>1. n_unrecognized' \in 0..MaxUnrecognized
    BY <1>4, LimitAssumption DEF Unrecognized, TypeOK, Patient, Ended, Ready
  <2> QED
    <3>1. pc' \in Phases /\ msg' \in Store \cup {NoMessage} /\ maildir' \in Maildir
      BY <1>4, LeaveEffect DEF Unrecognized, TypeOK
    <3>2. replies' \in Seq(Codes)
      BY <1>4, RepliesType DEF Unrecognized, Codes
    <3> QED
      BY <1>4, <2>1, <3>1, <3>2 DEF Unrecognized, TypeOK
<1>5. CASE StarttlsRefused
  BY <1>5, RepliesType DEF StarttlsRefused, Reply, TypeOK, Codes
<1>6. CASE Starttls
  <2>1. Dropped /\ maildir' \in Maildir
    BY <1>6, ResetEffect DEF Starttls, TypeOK
  <2>2. replies' \in Seq(Codes)
    BY <1>6, RepliesType DEF Starttls, Codes
  <2> QED
    BY <1>6, <2>1, <2>2, DroppedType DEF Starttls, TypeOK
<1>7. CASE StarttlsFails
  <2>1. pc' \in Phases /\ msg' \in Store \cup {NoMessage} /\ maildir' \in Maildir
    BY <1>7, LeaveEffect DEF StarttlsFails, TypeOK
  <2>2. replies' \in Seq(Codes)
    BY <1>7, RepliesType DEF StarttlsFails, Codes
  <2> QED
    BY <1>7, <2>1, <2>2 DEF StarttlsFails, TypeOK
<1>8. CASE EndOfInput
  <2>1. replies' \in Seq(Codes)
    BY <1>8, RepliesType DEF EndOfInput, Heard, Codes
  <2>2. maxed_out' \in BOOLEAN /\ timed_out' \in BOOLEAN
    BY <1>8 DEF EndOfInput, TypeOK
  <2> QED
    <3>1. pc' = "exit" /\ msg' = NoMessage /\ maildir' \in Maildir
      BY <1>8, LeaveEffect DEF EndOfInput, TypeOK
    <3>2. good' \in BOOLEAN /\ UNCHANGED <<state, envelope, connection, process, acked>>
      BY <1>8 DEF EndOfInput
    <3> QED
      BY <2>1, <2>2, <3>1, <3>2 DEF TypeOK
<1>9. CASE Tick
  <2>1. alarm' \in 0..HamAlarm
    BY <1>9 DEF Tick, TypeOK, HamAlarm
  <2> QED
    BY <1>9, <2>1 DEF Tick, TypeOK
<1>10. CASE AlarmRings
  <2>1. pc' \in Phases /\ msg' = NoMessage /\ maildir' \in Maildir
    <3>1. msg \in Store \cup {NoMessage} /\ Leave(msg, "exit")
      BY <1>10 DEF AlarmRings, TypeOK
    <3> QED
      BY <3>1, LeaveEffect
  <2>2. "421" \in Codes /\ replies \in Seq(Codes) /\ replies' = Append(replies, "421")
    BY <1>10 DEF AlarmRings, TypeOK, Codes
  <2>3. replies' \in Seq(Codes)
    BY <2>2, RepliesType
  <2>4. alarm' \in 0..HamAlarm
    BY <1>10 DEF AlarmRings, HamAlarm
  <2>5. UNCHANGED <<state, envelope, connection, stream, chunk, max_write, begun, acked>>
    BY <1>10 DEF AlarmRings
  <2> QED
    BY <2>1, <2>3, <2>4, <2>5 DEF TypeOK
<1> QED
  BY <1>1, <1>2, <1>3, <1>4, <1>5, <1>6, <1>7, <1>8, <1>9, <1>10 DEF Other

\* The members that DATA and BDAT handlers change besides the message have their types.
TransferType ==
  /\ state' \in Steps /\ reverse_path' \in Senders \cup {NoSender}
  /\ forward_path' \in 0..MaxRecipients /\ flags' \subseteq MailFlags
  /\ msg' \in Store \cup {NoMessage} /\ maxed_out' \in BOOLEAN

LEMMA KeptType ==
  ASSUME TypeOK, NEW m, Kept(m)
  PROVE  TransferType /\ pc' \in Phases
  BY DEF Kept, TransferType, TypeOK, Phases

LEMMA TransferErrorType ==
  ASSUME TypeOK, NEW code \in Codes, NEW next \in Phases, TransferError(code, next)
  PROVE  TransferType /\ pc' \in Phases /\ replies' \in Seq(Codes) /\ maildir' \in Maildir
  BY TransferErrorEffect, KeptType, DroppedType DEF TransferType

LEMMA DoDeliverType ==
  ASSUME TypeOK, msg # NoMessage, Sound(msg), msg.new = "none", DoDeliver
  PROVE  TransferType /\ pc' \in Phases /\ replies' \in Seq(Codes) /\ maildir' \in Maildir
<1>1. replies' \in Seq(Codes) /\ maildir' \in Maildir
  BY DoDeliverEffect
<1>2. CASE /\ pc' = "ack" /\ msg' \in Store
           /\ UNCHANGED <<state, reverse_path, forward_path, flags, maxed_out>>
  BY <1>1, <1>2 DEF TransferType, TypeOK, Phases
<1>3. CASE Dropped /\ pc' = "ack"
  BY <1>1, <1>3, DroppedType DEF TransferType, Phases
<1>4. CASE \E m \in Store : Kept(m)
  BY <1>1, <1>4, KeptType
<1> QED
  BY <1>2, <1>3, <1>4, DoDeliverEffect

LEMMA MsgNewType ==
  ASSUME TypeOK, NEW said \in Seq(Codes), NEW onSuccess, NEW onFailure,
         MsgNew(said, onSuccess, onFailure),
         onSuccess.pc \in Phases, onFailure.pc \in Phases,
         onSuccess.chunk \in Chunk, onFailure.chunk \in Chunk
  PROVE  /\ msg' \in Store \cup {NoMessage} /\ pc' \in Phases /\ chunk' \in Chunk
         /\ begun' \in 0..MaxMessages /\ alarm' \in 0..HamAlarm
         /\ max_write' \in {0, InitialSize, BroSize}
         /\ replies' \in Seq(Codes) /\ maildir' \in Maildir
  BY MsgNewEffect DEF Phases

\* A write, thrown or not, leaves what is in new/ alone.
LEMMA ThrowingWrite ==
  ASSUME TypeOK, msg # NoMessage, NEW n \in Nat, NEW o \in Write(msg, n)
  PROVE  /\ o.m \in Store /\ o.m.new = msg.new
         /\ msg.sizeError => o.m.sizeError
         /\ InNew(o.m) = InNew(msg)
  BY MessageType, MessageAssumption, WriteOutcome DEF Outcome, InNew

\* The answer to it loses no copy and, unless trash() throws, ends the message.
LEMMA WriteFailedEffect ==
  ASSUME TypeOK, NEW m \in Store, NEW code \in Codes, WriteFailed(code, m)
  PROVE  /\ \/ /\ msg' = NoMessage
               /\ UNCHANGED <<state, reverse_path, forward_path, flags, maxed_out, pc>>
            \/ "exists" \in Faults /\ Kept(m)
         /\ replies' \in Seq(Codes) /\ maildir' \in Maildir
         /\ maildir'.whole + InNew(msg') = maildir.whole + InNew(m)
         /\ maildir'.whole >= maildir.whole
<1>1. PICK t \in Close(m) :
        IF t.threw THEN TrashThrows(code, t.m)
        ELSE /\ msg' = NoMessage /\ maildir' = Filed(maildir, t.m)
             /\ replies' = Append(replies, code)
             /\ UNCHANGED <<state, envelope, maxed_out, pc>>
  BY DEF WriteFailed
<1>2. /\ t.m \in Store /\ t.m.new = m.new /\ t.m.sizeError = m.sizeError
      /\ t.threw => "exists" \in Faults
      /\ InNew(t.m) = InNew(m)
  BY CloseOutcome, MessageAssumption DEF Outcome, InNew
<1>3. CASE t.threw
  <2>1. /\ Kept(t.m) /\ replies' \in Seq(Codes) /\ maildir' \in Maildir
        /\ maildir'.whole + InNew(msg') = maildir.whole + InNew(m)
        /\ maildir'.whole >= maildir.whole
    BY <1>1, <1>2, <1>3, TrashThrowsEffect
  <2> QED
    BY <1>2, <1>3, <2>1 DEF Kept
<1>4. CASE ~t.threw
  <2>1. maildir' \in Maildir /\ maildir'.whole = maildir.whole + InNew(m)
    BY <1>1, <1>2, <1>4, FiledCopies DEF TypeOK
  <2>2. replies' \in Seq(Codes)
    BY <1>1, <1>4, RepliesType DEF TypeOK
  <2>3. InNew(NoMessage) = 0 /\ InNew(m) \in {0, 1} /\ maildir.whole \in Nat
    BY CopiesType DEF InNew, TypeOK, Maildir
  <2> QED
    BY <1>1, <1>4, <2>1, <2>2, <2>3 DEF envelope
<1> QED
  BY <1>3, <1>4

LEMMA WriteFailedType ==
  ASSUME TypeOK, NEW m \in Store, NEW code \in Codes, WriteFailed(code, m)
  PROVE  TransferType /\ pc' \in Phases /\ replies' \in Seq(Codes) /\ maildir' \in Maildir
<1>1. replies' \in Seq(Codes) /\ maildir' \in Maildir
  BY WriteFailedEffect
<1>2. CASE Kept(m)
  BY <1>1, <1>2, KeptType
<1>3. CASE msg' = NoMessage
           /\ UNCHANGED <<state, reverse_path, forward_path, flags, maxed_out, pc>>
  BY <1>1, <1>3 DEF TransferType, TypeOK
<1> QED
  BY <1>2, <1>3, WriteFailedEffect

LEMMA DataType == TypeOK /\ SpoolIsSound /\ Data => TypeOK'
<1> SUFFICES ASSUME TypeOK, SpoolIsSound, Data PROVE TypeOK'
  OBVIOUS
<1> USE DEF envelope, connection, spf, stream, process
<1>1. CASE DataOutOfSequence
  BY <1>1, RepliesType DEF DataOutOfSequence, Reply, TypeOK, Codes
<1>2. CASE DataBinaryMime
  BY <1>2, RepliesType DEF DataBinaryMime, TypeOK, Codes, Steps
<1>3. CASE DataStart
  <2> DEFINE onSuccess == [pc |-> "data", chunk |-> NoChunk]
             onFailure == [pc |-> "cmd", chunk |-> NoChunk]
  <2>1. NoChunk \in Chunk
    BY DEF NoChunk, Chunk
  <2>2. MsgNew(<<"354">>, onSuccess, onFailure) /\ <<"354">> \in Seq(Codes)
    BY <1>3, RepliesType DEF DataStart, Codes
  <2>3. /\ onSuccess.pc \in Phases /\ onFailure.pc \in Phases
        /\ onSuccess.chunk \in Chunk /\ onFailure.chunk \in Chunk
    BY <2>1 DEF Phases
  <2> HIDE DEF onSuccess, onFailure
  <2>4. UNCHANGED <<state, envelope, connection, stream, acked>>
    BY <1>3 DEF DataStart
  <2>5. /\ msg' \in Store \cup {NoMessage} /\ pc' \in Phases /\ chunk' \in Chunk
        /\ begun' \in 0..MaxMessages /\ alarm' \in 0..HamAlarm
        /\ max_write' \in {0, InitialSize, BroSize}
        /\ replies' \in Seq(Codes) /\ maildir' \in Maildir
    BY <2>2, <2>3, MsgNewType
  <2> QED
    BY <2>4, <2>5 DEF TypeOK
<1>4. CASE DataLine
  <2>1. PICK n \in LineSizes : WriteReturns(n)
    BY <1>4 DEF DataLine
  <2>2. /\ UNCHANGED <<state, reverse_path, forward_path, flags, maxed_out, replies, maildir>>
        /\ msg' \in Store
    BY <1>4, <2>1, WriteReturnsEffect, LimitAssumption DEF DataLine
  <2> QED
    BY <1>4, <2>2 DEF DataLine, TypeOK
<1>5. CASE DataLineFails
  <2>1. PICK n \in LineSizes, code \in StorageErrors : \E o \in Write(msg, n) :
          o.threw /\ WriteFailed(code, o.m)
    BY <1>5 DEF DataLineFails
  <2>2. PICK o \in Write(msg, n) : o.threw /\ WriteFailed(code, o.m)
    BY <2>1
  <2>3. o.m \in Store /\ code \in Codes
    BY <1>5, <2>1, <2>2, ThrowingWrite, LimitAssumption DEF DataLineFails, StorageErrors, Codes
  <2> QED
    BY <1>5, <2>2, <2>3, WriteFailedType DEF DataLineFails, TypeOK, TransferType
<1>6. CASE DataReadFails
  <2>1. maxed_out' \in BOOLEAN /\ timed_out' \in BOOLEAN
    BY <1>6 DEF DataReadFails, TypeOK
  <2> QED
    BY <1>6, <2>1 DEF DataReadFails, TypeOK, Phases
<1>7. CASE DataBareLf
  <2>1. /\ pc' = "exit" /\ msg' = NoMessage /\ maildir' \in Maildir
    BY <1>7, LeaveEffect DEF DataBareLf, TypeOK
  <2>2. replies' \in Seq(Codes)
    BY <1>7, RepliesType DEF DataBareLf, TypeOK, Codes
  <2> QED
    BY <1>7, <2>1, <2>2 DEF DataBareLf, TypeOK, Phases
<1>8. CASE DataTooLarge
  <2>1. TransferError("552", "cmd") /\ "552" \in Codes /\ "cmd" \in Phases
    BY <1>8 DEF DataTooLarge, Codes, Phases
  <2> QED
    BY <1>8, <2>1, TransferErrorType DEF DataTooLarge, TypeOK, TransferType
<1>9. CASE DataDone
  <2>1. DoDeliver /\ msg # NoMessage /\ Sound(msg) /\ msg.new = "none"
    BY <1>9 DEF DataDone, SpoolIsSound
  <2> QED
    BY <1>9, <2>1, DoDeliverType DEF DataDone, TypeOK, TransferType
<1>10. CASE DataDoneChecks
  <2>1. /\ pc' = "abort" /\ msg' = NoMessage /\ maildir' \in Maildir
    BY <1>10, LeaveEffect DEF DataDoneChecks, TypeOK
  <2> QED
    BY <1>10, <2>1 DEF DataDoneChecks, TypeOK, Phases
<1> QED
  BY <1>1, <1>2, <1>3, <1>4, <1>5, <1>6, <1>7, <1>8, <1>9, <1>10 DEF Data

\* The locals of bdat_act have their types.
LEMMA ChunkType ==
  /\ NoChunk \in Chunk
  /\ \A n \in ChunkSizes, last \in BOOLEAN, status_returned \in BOOLEAN :
       Transferring(n, last, status_returned).chunk \in Chunk
  /\ TypeOK /\ TransferLeft => /\ xfer_sz \in Nat
                              /\ \A b \in BOOLEAN : Transferred(b) \in Chunk
<1>1. NoChunk \in Chunk
  BY DEF NoChunk, Chunk
<1>2. \A n \in ChunkSizes, last \in BOOLEAN, status_returned \in BOOLEAN :
       Transferring(n, last, status_returned).chunk \in Chunk
  BY LimitAssumption DEF Transferring, Chunk
<1>3. ASSUME TypeOK, TransferLeft
      PROVE  /\ xfer_sz \in Nat
             /\ \A b \in BOOLEAN : Transferred(b) \in Chunk
  <2>1. chunk \in Chunk /\ chunk.left \in Nat
    BY <1>3 DEF TypeOK, Chunk
  <2>2. xfer_sz \in Nat /\ chunk.left - xfer_sz \in Nat
    BY <2>1, LimitAssumption DEF xfer_sz
  <2> QED
    BY <2>1, <2>2 DEF Transferred, Chunk
<1> QED
  BY <1>1, <1>2, <1>3

LEMMA BdatType == TypeOK /\ Positions /\ SpoolIsSound /\ Bdat => TypeOK'
<1> SUFFICES ASSUME TypeOK, Positions, SpoolIsSound, Bdat PROVE TypeOK'
  OBVIOUS
<1> USE DEF envelope, connection, spf, stream, process
<1>1. CASE BdatOutOfSequence
  <2>1. chunk' \in Chunk
    BY <1>1, ChunkType DEF BdatOutOfSequence
  <2> QED
    <3>1. replies' \in Seq(Codes) /\ pc' \in Phases
      BY <1>1, RepliesType DEF BdatOutOfSequence, Codes, Phases
    <3>2. UNCHANGED <<state, envelope, msg, connection, stream, max_write, alarm, begun, acked,
                      maildir>>
      BY <1>1 DEF BdatOutOfSequence
    <3> QED
      BY <2>1, <3>1, <3>2 DEF TypeOK
<1>2. CASE BdatFirst
  <2>1. PICK n \in ChunkSizes, last \in BOOLEAN :
          MsgNew(<<>>, Transferring(n, last, FALSE), Transferring(n, last, TRUE))
    BY <1>2 DEF BdatFirst
  <2> DEFINE onSuccess == Transferring(n, last, FALSE)
             onFailure == Transferring(n, last, TRUE)
  <2>2. /\ onSuccess.pc \in Phases /\ onFailure.pc \in Phases
        /\ onSuccess.chunk \in Chunk /\ onFailure.chunk \in Chunk
    <3>1. onSuccess.pc = "bdat" /\ onFailure.pc = "bdat"
      BY DEF Transferring
    <3> QED
      BY <3>1, ChunkType DEF Phases
  <2>3. MsgNew(<<>>, onSuccess, onFailure) /\ <<>> \in Seq(Codes)
    BY <2>1, RepliesType
  <2> HIDE DEF onSuccess, onFailure
  <2>4. state' \in Steps /\ UNCHANGED <<envelope, connection, stream, acked>>
    BY <1>2 DEF BdatFirst, Steps
  <2>5. /\ msg' \in Store \cup {NoMessage} /\ pc' \in Phases /\ chunk' \in Chunk
        /\ begun' \in 0..MaxMessages /\ alarm' \in 0..HamAlarm
        /\ max_write' \in {0, InitialSize, BroSize}
        /\ replies' \in Seq(Codes) /\ maildir' \in Maildir
    BY <2>2, <2>3, MsgNewType
  <2> QED
    BY <2>4, <2>5 DEF TypeOK
<1>3. CASE BdatNext
  <2>1. chunk' \in Chunk
    BY <1>3, ChunkType DEF BdatNext
  <2> QED
    <3>1. replies' \in Seq(Codes) /\ pc' \in Phases
      BY <1>3, RepliesType DEF BdatNext, Phases
    <3>2. UNCHANGED <<state, envelope, msg, connection, stream, max_write, alarm, begun, acked,
                      maildir>>
      BY <1>3 DEF BdatNext
    <3> QED
      BY <2>1, <3>1, <3>2 DEF TypeOK
<1>4. CASE BdatTransfer
  <2>1. chunk' \in Chunk /\ xfer_sz \in Nat
    BY <1>4, ChunkType DEF BdatTransfer, TypeOK, Chunk
  <2>2. /\ UNCHANGED <<state, reverse_path, forward_path, flags, maxed_out, replies, maildir>>
        /\ msg' \in Store
    BY <1>4, <2>1, WriteReturnsEffect DEF BdatTransfer, Spooling
  <2> QED
    BY <1>4, <2>1, <2>2 DEF BdatTransfer, TypeOK
<1>5. CASE BdatWriteFails
  <2>1. chunk' \in Chunk /\ xfer_sz \in Nat
    BY <1>5, ChunkType DEF BdatWriteFails
  <2>2. PICK code \in StorageErrors : \E o \in Write(msg, xfer_sz) :
          /\ o.threw
          /\ IF chunk.status_returned
             THEN WriteFailed(code, o.m)
             ELSE TrashAndReset(code, <<"552">>, o.m, "bdat")
    BY <1>5 DEF BdatWriteFails
  <2>3. PICK o \in Write(msg, xfer_sz) :
          /\ o.threw
          /\ IF chunk.status_returned
             THEN WriteFailed(code, o.m)
             ELSE TrashAndReset(code, <<"552">>, o.m, "bdat")
    BY <2>2
  <2>4. /\ o.m \in Store /\ code \in Codes
        /\ <<"552">> \in Seq(Codes) /\ "bdat" \in Phases
    BY <1>5, <2>1, <2>2, <2>3, ThrowingWrite, RepliesType
      DEF BdatWriteFails, Spooling, StorageErrors, Codes, Phases
  <2>5. TransferType /\ pc' \in Phases /\ replies' \in Seq(Codes) /\ maildir' \in Maildir
    <3>1. CASE chunk.status_returned
      BY <2>3, <2>4, <3>1, WriteFailedType
    <3>2. CASE ~chunk.status_returned
      BY <2>3, <2>4, <3>2, TrashAndResetEffect, KeptType, DroppedType DEF TransferType
    <3> QED
      BY <3>1, <3>2
  <2> QED
    BY <1>5, <2>1, <2>5 DEF BdatWriteFails, TypeOK, TransferType
<1>6. CASE BdatDiscard
  <2>1. chunk' \in Chunk
    BY <1>6, ChunkType DEF BdatDiscard
  <2>2. TransferType /\ pc' \in Phases /\ replies' \in Seq(Codes) /\ maildir' \in Maildir
    <3>1. CASE chunk.status_returned
      BY <1>6, <3>1 DEF BdatDiscard, TypeOK, TransferType
    <3>2. CASE ~chunk.status_returned
      BY <1>6, <3>2, TransferErrorType DEF BdatDiscard, Codes, Phases
    <3> QED
      BY <3>1, <3>2
  <2> QED
    BY <1>6, <2>1, <2>2 DEF BdatDiscard, TypeOK, TransferType
<1>7. CASE BdatReadFails
  <2>1. PICK why \in ReadFailures :
       /\ timed_out' = (timed_out \/ why = "timeout")
       /\ IF chunk.status_returned
          THEN /\ good' = FALSE /\ maxed_out' = (why = "maxed") /\ pc' = "cmd"
               /\ UNCHANGED <<state, envelope, msg, replies, maildir>>
          ELSE /\ good' = TRUE
               /\ TransferError(IF why = "maxed" THEN "552" ELSE "503", "cmd")
    BY <1>7 DEF BdatReadFails
  <2>2. TransferType /\ pc' \in Phases /\ replies' \in Seq(Codes) /\ maildir' \in Maildir
    <3>1. CASE chunk.status_returned
      BY <2>1, <3>1 DEF TypeOK, TransferType, Phases
    <3>2. CASE ~chunk.status_returned
      BY <2>1, <3>2, TransferErrorType DEF Codes, Phases
    <3> QED
      BY <3>1, <3>2
  <2>3. good' \in BOOLEAN /\ timed_out' \in BOOLEAN
    BY <2>1 DEF TypeOK
  <2> QED
    BY <1>7, <2>2, <2>3, ChunkType DEF BdatReadFails, TypeOK, TransferType
<1>8. CASE BdatAnswered
  BY <1>8, ChunkType DEF BdatAnswered, TypeOK, Phases
<1>9. CASE BdatNoMessage
  BY <1>9, ChunkType DEF BdatNoMessage, TypeOK, Phases
<1>10. CASE BdatRejected
  <2>1. PICK code \in {"503", "552"} : TransferError(code, "cmd")
    BY <1>10 DEF BdatRejected
  <2>2. TransferType /\ pc' \in Phases /\ replies' \in Seq(Codes) /\ maildir' \in Maildir
    BY <2>1, TransferErrorType DEF Codes, Phases
  <2> QED
    BY <1>10, <2>2, ChunkType DEF BdatRejected, TypeOK, TransferType
<1>11. CASE BdatChunkDone
  BY <1>11, ChunkType, RepliesType DEF BdatChunkDone, TypeOK, Phases, Codes
<1>12. CASE BdatLastDone
  <2>1. DoDeliver /\ msg # NoMessage /\ Sound(msg) /\ msg.new = "none"
    BY <1>12 DEF BdatLastDone, BdatDone, TransferDone, SpoolIsSound
  <2> QED
    BY <1>12, <2>1, DoDeliverType, ChunkType DEF BdatLastDone, TypeOK, TransferType
<1> QED
  BY <1>1, <1>2, <1>3, <1>4, <1>5, <1>6, <1>7, <1>8, <1>9, <1>10, <1>11, <1>12 DEF Bdat

LEMMA AcknowledgeType == TypeOK /\ Acknowledge => TypeOK'
<1> SUFFICES ASSUME TypeOK, Acknowledge PROVE TypeOK'
  OBVIOUS
<1> USE DEF envelope, connection, spf, stream, process
<1>1. replies' \in Seq(Codes) /\ acked' \in Nat
  BY RepliesType DEF Acknowledge, TypeOK, Codes
<1>2. CASE msg = NoMessage
  BY <1>1, <1>2 DEF Acknowledge, TypeOK, Phases
<1>3. CASE msg # NoMessage
  <2>1. Dropped /\ maildir' \in Maildir
    BY <1>3, ResetEffect DEF Acknowledge, TypeOK
  <2> QED
    BY <1>1, <1>3, <2>1, DroppedType DEF Acknowledge, TypeOK, Phases
<1> QED
  BY <1>2, <1>3

LEMMA NextType == IInv /\ [Next]_vars => TypeOK'
<1>1. TypeOK /\ UNCHANGED vars => TypeOK'
  BY DEF vars, envelope, connection, spf, stream, process, TypeOK
<1> QED
  BY <1>1, StartType, TransactionType, DataType, BdatType, AcknowledgeType, OtherType
    DEF IInv, Kernel, Next
-----------------------------------------------------------------------------
(***************************************************************************)
(* The rest of the invariant: first what every quiet, leaving, clearing or *)
(* failing step does to it, then the steps that do more.                   *)
(***************************************************************************)

\* A step that touches none of what the invariant is about.
LEMMA QuietKernel ==
  ASSUME IInv,
         UNCHANGED <<state, reverse_path, forward_path, flags, msg, pc, acked, maildir,
                     n_unrecognized>>,
         good' => good
  PROVE  Kernel'
  BY DEF IInv, Kernel, Patient, Positions, SpoolIsSound, OversizeNotDelivered, Accounted,
         NothingLeftOver, InNew, Sound, Ended, Ready

\* What is written in a step that ends no message is accounted for as before.
LEMMA CopyCount ==
  ASSUME TypeOK
  PROVE  maildir.whole \in Nat /\ acked \in Nat /\ InNew(msg) \in {0, 1}
  BY DEF TypeOK, Maildir, InNew

\* A step after which the process has ended.
LEMMA LeaveKernel ==
  ASSUME IInv, NEW m \in Store \cup {NoMessage}, InNew(m) = InNew(msg),
         NEW how \in {"exit", "abort"}, Leave(m, how), acked' = acked, UNCHANGED <<state, envelope>>
  PROVE  Kernel'
<1>1. /\ pc' = how /\ msg' = NoMessage
      /\ maildir'.whole = maildir.whole + InNew(msg)
  BY LeaveEffect DEF IInv
<1>2. Patient' /\ Positions' /\ SpoolIsSound' /\ OversizeNotDelivered' /\ NothingLeftOver'
  BY <1>1 DEF IInv, Kernel, Patient, Positions, SpoolIsSound, OversizeNotDelivered,
              NothingLeftOver, Ended, envelope
<1>3. Accounted'
  BY <1>1, CopyCount DEF IInv, Kernel, Accounted, InNew
<1> QED
  BY <1>2, <1>3 DEF Kernel

\* A step that files the message and clears the transaction.
LEMMA DroppedKernel ==
  ASSUME IInv, Dropped, ~Ended, pc' \notin {"data", "ack"}, acked' = acked,
         n_unrecognized' = n_unrecognized,
         maildir' \in Maildir, maildir'.whole >= maildir.whole
  PROVE  Kernel'
<1>1. Patient' /\ Positions' /\ SpoolIsSound' /\ OversizeNotDelivered' /\ NothingLeftOver'
  BY DEF IInv, Kernel, Patient, Positions, SpoolIsSound, OversizeNotDelivered,
         NothingLeftOver, Dropped, Ended
<1>2. Accounted'
  <2>1. maildir'.whole \in Nat
    BY DEF Maildir
  <2> QED
    BY <2>1, CopyCount DEF IInv, Kernel, Accounted
<1> QED
  BY <1>1, <1>2 DEF Kernel

LEMMA ResetKernel ==
  ASSUME IInv, Reset(msg), ~Ended, pc' \notin {"data", "ack"}, acked' = acked,
         n_unrecognized' = n_unrecognized
  PROVE  Kernel'
<1>1. /\ Dropped /\ maildir' \in Maildir
      /\ maildir'.whole = maildir.whole + InNew(msg)
  BY ResetEffect DEF IInv, TypeOK
<1>2. maildir'.whole >= maildir.whole
  BY <1>1, CopyCount DEF IInv
<1> QED
  BY <1>1, <1>2, DroppedKernel

\* A step whose trash() throws.
LEMMA KeptKernel ==
  ASSUME IInv, "exists" \in Faults, pc \in {"data", "bdat"},
         NEW m \in Store, Kept(m), m.sizeError => m.new = "none", acked' = acked,
         n_unrecognized' = n_unrecognized,
         maildir' \in Maildir, maildir'.whole >= maildir.whole
  PROVE  Kernel'
<1>1. Patient'
  BY DEF IInv, Kernel, Patient, Ended
<1>2. Positions'
  BY DEF IInv, Kernel, Positions, Kept
<1>3. SpoolIsSound' /\ OversizeNotDelivered' /\ NothingLeftOver'
  BY DEF IInv, Kernel, Positions, SpoolIsSound, OversizeNotDelivered, NothingLeftOver, Kept
<1>4. Accounted'
  <2>1. pc' \in {"cmd", "exit"}
    BY DEF Kept
  <2>2. InNew(msg') \in {0, 1} /\ maildir'.whole \in Nat
    BY DEF InNew, Maildir
  <2> QED
    BY <2>1, <2>2, CopyCount DEF IInv, Kernel, Accounted
<1> QED
  BY <1>1, <1>2, <1>3, <1>4 DEF Kernel

\* A handler that only answers, or answers and exits.
LEMMA ReplyKernel == ASSUME IInv, NEW code, Reply(code) PROVE Kernel'
  BY QuietKernel DEF Reply, envelope, connection, spf, stream, process

LEMMA ReplyAndExitKernel == ASSUME IInv, NEW code, ReplyAndExit(code) PROVE Kernel'
  BY LeaveKernel DEF ReplyAndExit, IInv, TypeOK

LEMMA StartKernel == IInv /\ Start => Kernel'
<1> SUFFICES ASSUME IInv, Start PROVE Kernel'
  OBVIOUS
<1>1. CASE GreetingRefused
  BY <1>1, ReplyAndExitKernel DEF GreetingRefused
<1>2. CASE Greeting
  <2>1. /\ pc = "greet" /\ pc' = "cmd"
        /\ UNCHANGED <<state, reverse_path, forward_path, flags, msg, acked, maildir, good,
                       n_unrecognized>>
    BY <1>2 DEF Greeting, envelope, stream
  <2>2. msg = NoMessage
    BY <2>1 DEF IInv, Kernel, Positions
  <2> QED
    BY <2>1, <2>2 DEF IInv, Kernel, Patient, Positions, SpoolIsSound, OversizeNotDelivered,
         Accounted, NothingLeftOver, InNew, Sound, Ended, Ready
<1> QED
  BY <1>1, <1>2 DEF Start

LEMMA TransactionKernel == IInv /\ Transaction => Kernel'
<1> SUFFICES ASSUME IInv, Transaction PROVE Kernel'
  OBVIOUS
<1>1. CASE LoRefused
  BY <1>1, ReplyAndExitKernel DEF LoRefused
<1>2. CASE \E verb \in {"HELO", "EHLO"} : Lo(verb)
  <2>1. /\ Reset(msg) /\ pc = "cmd" /\ pc' = "cmd" /\ acked' = acked
        /\ n_unrecognized' = n_unrecognized
    BY <1>2 DEF Lo, process, Ready
  <2> QED
    BY <2>1, ResetKernel DEF Ended
<1>3. CASE MailOutOfSequence
  BY <1>3, ReplyKernel DEF MailOutOfSequence
<1>4. CASE MailParamsRefused
  <2>1. /\ state = "mail" /\ pc = "cmd"
        /\ UNCHANGED <<state, reverse_path, forward_path, msg, pc, acked, maildir, good,
                       n_unrecognized>>
    BY <1>4 DEF MailParamsRefused, Ready, connection, stream
  <2> QED
    BY <2>1 DEF IInv, Kernel, Patient, Positions, SpoolIsSound, OversizeNotDelivered,
         Accounted, NothingLeftOver, InNew, Ended, Ready
<1>5. CASE MailSenderRefused
  BY <1>5, ReplyAndExitKernel DEF MailSenderRefused
<1>6. CASE MailAccepted
  <2>1. /\ state = "mail" /\ pc = "cmd" /\ state' = "rcpt" /\ reverse_path' \in Senders
        /\ UNCHANGED <<msg, pc, acked, maildir, good, n_unrecognized>>
    BY <1>6 DEF MailAccepted, Ready, stream
  <2>2. msg = NoMessage
    BY <2>1 DEF IInv, Kernel, Positions
  <2> QED
    BY <2>1, <2>2, SenderAssumption DEF IInv, Kernel, Patient, Positions, SpoolIsSound,
         OversizeNotDelivered, Accounted, NothingLeftOver, InNew, Ended, Ready
<1>7. CASE RcptOutOfSequence
  BY <1>7, ReplyKernel DEF RcptOutOfSequence
<1>8. CASE RcptRefused
  BY <1>8, ReplyKernel DEF RcptRefused
<1>9. CASE RcptCheckThrows
  BY <1>9, LeaveKernel DEF RcptCheckThrows, IInv, TypeOK
<1>10. CASE RcptTooMany
  BY <1>10, ReplyKernel DEF RcptTooMany
<1>11. CASE RcptAccepted
  <2>1. /\ state \in {"rcpt", "data"} /\ pc = "cmd" /\ state' = "data"
        /\ forward_path' = forward_path + 1 /\ forward_path \in Nat
        /\ UNCHANGED <<reverse_path, flags, msg, pc, acked, maildir, good, n_unrecognized>>
    BY <1>11, LimitAssumption DEF RcptAccepted, Ready, connection, stream, IInv, TypeOK
  <2>2. state = "rcpt" => msg = NoMessage
    BY DEF IInv, Kernel, Positions
  <2> QED
    BY <2>1, <2>2 DEF IInv, Kernel, Patient, Positions, SpoolIsSound,
         OversizeNotDelivered, Accounted, NothingLeftOver, InNew, Sound, Ended, Ready
<1> QED
  BY <1>1, <1>2, <1>3, <1>4, <1>5, <1>6, <1>7, <1>8, <1>9, <1>10, <1>11 DEF Transaction

LEMMA OtherKernel == IInv /\ (Other \/ EndOfInput \/ Tick \/ AlarmRings) => Kernel'
<1> SUFFICES ASSUME IInv, Other \/ EndOfInput \/ Tick \/ AlarmRings PROVE Kernel'
  OBVIOUS
<1>0. msg \in Store \cup {NoMessage} /\ TypeOK
  BY DEF IInv, TypeOK
<1>1. CASE Rset
  <2>1. /\ Reset(msg) /\ pc = "cmd" /\ pc' = "cmd" /\ acked' = acked
        /\ n_unrecognized' = n_unrecognized
    BY <1>1 DEF Rset, connection, Ready
  <2> QED
    BY <2>1, ResetKernel DEF Ended
<1>2. CASE Answer
  BY <1>2, ReplyKernel DEF Answer
<1>3. CASE Quit
  BY <1>3, ReplyAndExitKernel DEF Quit
<1>4. CASE Unrecognized
  <2>1. CASE n_unrecognized' >= MaxUnrecognized
    BY <1>0, <1>4, <2>1, LeaveKernel DEF Unrecognized
  <2>2. CASE ~(n_unrecognized' >= MaxUnrecognized)
    <3>1. /\ UNCHANGED <<state, reverse_path, forward_path, flags, msg, pc, acked, maildir, good>>
          /\ n_unrecognized' \in Nat /\ n_unrecognized' < MaxUnrecognized
      BY <1>0, <1>4, <2>2, LimitAssumption DEF Unrecognized, envelope, stream, TypeOK
    <3> QED
      BY <3>1 DEF IInv, Kernel, Patient, Positions, SpoolIsSound, OversizeNotDelivered,
         Accounted, NothingLeftOver, InNew, Sound, Ended, Ready
  <2> QED
    BY <2>1, <2>2
<1>5. CASE StarttlsRefused
  BY <1>5, ReplyKernel DEF StarttlsRefused
<1>6. CASE Starttls
  <2>1. /\ Reset(msg) /\ pc = "cmd" /\ pc' = "cmd" /\ acked' = acked
        /\ n_unrecognized' = n_unrecognized
    BY <1>6 DEF Starttls, Ready
  <2> QED
    BY <2>1, ResetKernel DEF Ended
<1>7. CASE StarttlsFails
  <2>1. CASE UNCHANGED <<pc, msg, maildir>>
    BY <1>7, <2>1, QuietKernel DEF StarttlsFails, envelope, connection, spf, stream
  <2>2. CASE Leave(msg, "abort")
    BY <1>0, <1>7, <2>2, LeaveKernel DEF StarttlsFails
  <2> QED
    BY <1>7, <2>1, <2>2 DEF StarttlsFails
<1>8. CASE EndOfInput
  BY <1>0, <1>8, LeaveKernel DEF EndOfInput
<1>9. CASE Tick
  BY <1>9, QuietKernel DEF Tick, envelope, connection, spf, stream
<1>10. CASE AlarmRings
  BY <1>0, <1>10, LeaveKernel DEF AlarmRings
<1> QED
  BY <1>1, <1>2, <1>3, <1>4, <1>5, <1>6, <1>7, <1>8, <1>9, <1>10 DEF Other

\* msg_write that returns, in DATA or BDAT.
LEMMA WriteReturnsKernel ==
  ASSUME IInv, msg # NoMessage, pc = "data" \/ (pc = "bdat" /\ state = "bdat"), pc' = pc,
         NEW n \in Nat, WriteReturns(n), acked' = acked, n_unrecognized' = n_unrecognized
  PROVE  Kernel'
<1>1. /\ UNCHANGED <<state, reverse_path, forward_path, flags, maildir>>
      /\ msg' \in Store /\ msg'.new = msg.new /\ (Sound(msg) => Sound(msg'))
  BY WriteReturnsEffect DEF IInv
<1>2. Sound(msg) /\ msg.new = "none" /\ msg' # NoMessage /\ InNew(msg') = InNew(msg)
  BY <1>1, MessageAssumption DEF IInv, Kernel, SpoolIsSound, InNew
<1> QED
  BY <1>1, <1>2 DEF IInv, Kernel, Patient, Positions, SpoolIsSound, OversizeNotDelivered,
     Accounted, NothingLeftOver, Ended, Ready

\* msg_write that throws.
LEMMA WriteFailedKernel ==
  ASSUME IInv, msg # NoMessage, pc = "data" \/ (pc = "bdat" /\ state = "bdat"),
         NEW n \in Nat, NEW o \in Write(msg, n), NEW code \in Codes, WriteFailed(code, o.m),
         acked' = acked, n_unrecognized' = n_unrecognized
  PROVE  Kernel'
<1>1. msg.new = "none" /\ o.m \in Store /\ o.m.new = msg.new /\ InNew(o.m) = InNew(msg)
  BY ThrowingWrite DEF IInv, Kernel, SpoolIsSound
<1>2. maildir' \in Maildir /\ maildir'.whole >= maildir.whole
  BY <1>1, WriteFailedEffect DEF IInv
<1>3. CASE "exists" \in Faults /\ Kept(o.m)
  BY <1>1, <1>2, <1>3, KeptKernel
<1>4. CASE /\ msg' = NoMessage
           /\ UNCHANGED <<state, reverse_path, forward_path, flags, maxed_out, pc>>
  <2>1. maildir'.whole \in Nat
    BY <1>2 DEF Maildir
  <2> QED
    BY <1>2, <1>4, <2>1, CopyCount DEF IInv, Kernel, Patient, Positions, SpoolIsSound,
       OversizeNotDelivered, Accounted, NothingLeftOver, Ended
<1> QED
  BY <1>1, <1>3, <1>4, WriteFailedEffect DEF IInv

\* The error handlers of a transfer.
LEMMA TransferErrorKernel ==
  ASSUME IInv, pc \in {"data", "bdat"}, NEW code \in Codes, NEW next \in {"cmd", "bdat"},
         TransferError(code, next), acked' = acked, n_unrecognized' = n_unrecognized
  PROVE  Kernel'
<1>1. maildir' \in Maildir /\ maildir'.whole >= maildir.whole
  BY TransferErrorEffect DEF IInv
<1>2. CASE Dropped /\ pc' = next
  BY <1>1, <1>2, DroppedKernel DEF Ended
<1>3. CASE "exists" \in Faults /\ msg # NoMessage /\ Kept(msg)
  <2>1. msg \in Store /\ (msg.sizeError => msg.new = "none")
    BY <1>3, MessageType DEF IInv, Kernel, OversizeNotDelivered
  <2> QED
    BY <1>1, <1>3, <2>1, KeptKernel
<1> QED
  BY <1>2, <1>3, TransferErrorEffect DEF IInv

\* The delivery itself.
LEMMA DoDeliverKernel ==
  ASSUME IInv, msg # NoMessage, ~msg.sizeError, pc = "data" \/ (pc = "bdat" /\ state = "bdat"),
         DoDeliver, acked' = acked, n_unrecognized' = n_unrecognized
  PROVE  Kernel'
<1>1. /\ TypeOK /\ msg \in Store /\ Sound(msg) /\ msg.new = "none"
      /\ InNew(msg) = 0
  BY MessageType DEF IInv, Kernel, SpoolIsSound, InNew
<1>2. /\ maildir' \in Maildir /\ maildir'.whole >= maildir.whole
      /\ Faults \cap {"close", "rename"} = {} =>
           maildir'.whole + InNew(msg') = maildir.whole + 1
  BY <1>1, DoDeliverEffect
<1>3. CASE \E m \in Store : Kept(m) /\ m.sizeError = msg.sizeError /\ "exists" \in Faults
  <2>1. PICK m \in Store : Kept(m) /\ m.sizeError = msg.sizeError /\ "exists" \in Faults
    BY <1>3
  <2> QED
    BY <1>1, <1>2, <2>1, KeptKernel
<1>4. CASE /\ pc' = "ack"
           /\ \/ Dropped
              \/ /\ UNCHANGED <<state, reverse_path, forward_path, flags, maxed_out>>
                 /\ msg' \in Store /\ msg'.sizeError = msg.sizeError
  <2>1. Patient' /\ SpoolIsSound' /\ NothingLeftOver'
    BY <1>4 DEF IInv, Kernel, Patient, SpoolIsSound, NothingLeftOver, Ended, Ready
  <2>2. Positions' /\ OversizeNotDelivered'
    BY <1>4 DEF IInv, Kernel, Positions, OversizeNotDelivered, Dropped
  <2>3. Accounted'
    <3>1. InNew(msg') \in {0, 1} /\ maildir'.whole \in Nat
      BY <1>2, CopiesType DEF Maildir
    <3> QED
      BY <1>1, <1>2, <1>4, <3>1, CopyCount DEF IInv, Kernel, Accounted
  <2> QED
    BY <2>1, <2>2, <2>3 DEF Kernel
<1> QED
  BY <1>1, <1>3, <1>4, DoDeliverEffect

\* msg_new: the envelope stays and the message, if there is one, is a new one.
LEMMA MsgNewKernel ==
  ASSUME IInv, NEW said \in Seq(Codes), NEW onSuccess, NEW onFailure, MsgNew(said, onSuccess, onFailure),
         pc = "cmd", state = "data", UNCHANGED <<reverse_path, forward_path, flags>>, acked' = acked,
         n_unrecognized' = n_unrecognized,
         \/ /\ onSuccess.pc = "data" /\ onFailure.pc = "cmd" /\ state' = "data"
            /\ "BINARYMIME" \notin flags
         \/ onSuccess.pc = "bdat" /\ onFailure.pc = "bdat" /\ state' = "bdat"
  PROVE  Kernel'
<1>1. /\ maildir' \in Maildir /\ maildir'.whole >= maildir.whole + InNew(msg)
      /\ \/ /\ msg' \in Store /\ msg' # NoMessage /\ Sound(msg') /\ msg'.new = "none"
            /\ pc' = onSuccess.pc
         \/ msg' = NoMessage /\ pc' \in {"exit", onFailure.pc}
  BY MsgNewEffect DEF IInv
<1>2. InNew(msg') = 0 /\ pc' # "ack"
  BY <1>1 DEF InNew
<1>3. Patient' /\ Positions'
  BY <1>1 DEF IInv, Kernel, Patient, Positions, Ended
<1>4. SpoolIsSound' /\ OversizeNotDelivered' /\ NothingLeftOver'
  BY <1>1 DEF SpoolIsSound, OversizeNotDelivered, NothingLeftOver, Ready
<1>5. Accounted'
  BY <1>1, <1>2, CopyCount DEF IInv, Kernel, Accounted, Maildir
<1> QED
  BY <1>3, <1>4, <1>5 DEF Kernel

LEMMA DataKernel == IInv /\ Data => Kernel'
<1> SUFFICES ASSUME IInv, Data PROVE Kernel'
  OBVIOUS
<1>0. msg \in Store \cup {NoMessage} /\ TypeOK
  BY DEF IInv, TypeOK
<1>1. CASE DataOutOfSequence
  BY <1>1, ReplyKernel DEF DataOutOfSequence
<1>2. CASE DataBinaryMime
  <2>1. /\ state' = "rset" /\ pc = "cmd" /\ state = "data" /\ "BINARYMIME" \in flags
        /\ UNCHANGED <<reverse_path, forward_path, flags, msg, pc, acked, maildir, good,
                       n_unrecognized>>
    BY <1>2 DEF DataBinaryMime, Ready, envelope, connection, stream
  <2>2. msg = NoMessage
    BY <2>1 DEF IInv, Kernel, Positions
  <2> QED
    BY <2>1, <2>2 DEF IInv, Kernel, Patient, Positions, SpoolIsSound, OversizeNotDelivered,
       Accounted, NothingLeftOver, InNew, Ended, Ready
<1>3. CASE DataStart
  <2> DEFINE onSuccess == [pc |-> "data", chunk |-> NoChunk]
             onFailure == [pc |-> "cmd", chunk |-> NoChunk]
  <2>1. MsgNew(<<"354">>, onSuccess, onFailure) /\ <<"354">> \in Seq(Codes)
    BY <1>3, RepliesType DEF DataStart, Codes
  <2>2. onSuccess.pc = "data" /\ onFailure.pc = "cmd"
    OBVIOUS
  <2>3. /\ pc = "cmd" /\ state = "data" /\ state' = "data" /\ "BINARYMIME" \notin flags
        /\ UNCHANGED <<reverse_path, forward_path, flags, acked, n_unrecognized>>
    BY <1>3 DEF DataStart, Ready, envelope, connection
  <2> HIDE DEF onSuccess, onFailure
  <2> QED
    BY <2>1, <2>2, <2>3, MsgNewKernel
<1>4. CASE DataLine
  <2>1. PICK n \in LineSizes : WriteReturns(n)
    BY <1>4 DEF DataLine
  <2> QED
    BY <1>4, <2>1, WriteReturnsKernel, LimitAssumption DEF DataLine, connection
<1>5. CASE DataLineFails
  <2>1. PICK n \in LineSizes, code \in StorageErrors : \E o \in Write(msg, n) :
          o.threw /\ WriteFailed(code, o.m)
    BY <1>5 DEF DataLineFails
  <2>2. code \in Codes /\ n \in Nat
    BY <2>1, LimitAssumption DEF StorageErrors, Codes
  <2> QED
    BY <1>5, <2>1, <2>2, WriteFailedKernel DEF DataLineFails, connection
<1>6. CASE DataReadFails
  <2>1. /\ pc = "data" /\ pc' = "cmd" /\ good' = FALSE
        /\ UNCHANGED <<state, reverse_path, forward_path, flags, msg, acked, maildir,
                       n_unrecognized>>
    BY <1>6 DEF DataReadFails, envelope, connection
  <2> QED
    BY <2>1 DEF IInv, Kernel, Patient, Positions, SpoolIsSound, OversizeNotDelivered,
       Accounted, NothingLeftOver, InNew, Sound, Ended, Ready
<1>7. CASE DataBareLf
  BY <1>0, <1>7, LeaveKernel DEF DataBareLf
<1>8. CASE DataTooLarge
  BY <1>8, TransferErrorKernel DEF DataTooLarge, connection, Codes
<1>9. CASE DataDone
  BY <1>9, DoDeliverKernel DEF DataDone, connection
<1>10. CASE DataDoneChecks
  BY <1>0, <1>10, LeaveKernel DEF DataDoneChecks
<1> QED
  BY <1>1, <1>2, <1>3, <1>4, <1>5, <1>6, <1>7, <1>8, <1>9, <1>10 DEF Data

\* A BDAT step that touches no message: it only moves between commands and transfer.
LEMMA MovesKernel ==
  ASSUME IInv, pc \in {"cmd", "bdat"}, pc' \in {"cmd", "bdat"},
         msg # NoMessage => state = "bdat",
         UNCHANGED <<state, reverse_path, forward_path, flags, msg, acked, maildir, n_unrecognized>>
  PROVE  Kernel'
  BY DEF IInv, Kernel, Patient, Positions, SpoolIsSound, OversizeNotDelivered,
     Accounted, NothingLeftOver, InNew, Sound, Ended, Ready

LEMMA BdatKernel == IInv /\ Bdat => Kernel'
<1> SUFFICES ASSUME IInv, Bdat PROVE Kernel'
  OBVIOUS
<1>0. /\ TypeOK
      /\ pc = "bdat" /\ msg # NoMessage => state = "bdat"
  BY DEF IInv, Kernel, Positions
<1> USE DEF envelope, connection
<1>1. CASE BdatOutOfSequence
  <2>1. msg = NoMessage
    BY <1>1 DEF BdatOutOfSequence, IInv, Kernel, Positions
  <2> QED
    BY <1>1, <2>1, MovesKernel DEF BdatOutOfSequence, Ready
<1>2. CASE BdatFirst
  <2>1. PICK n \in ChunkSizes, last \in BOOLEAN :
          MsgNew(<<>>, Transferring(n, last, FALSE), Transferring(n, last, TRUE))
    BY <1>2 DEF BdatFirst
  <2> DEFINE onSuccess == Transferring(n, last, FALSE)
             onFailure == Transferring(n, last, TRUE)
  <2>2. onSuccess.pc = "bdat" /\ onFailure.pc = "bdat"
    BY DEF Transferring
  <2>3. MsgNew(<<>>, onSuccess, onFailure) /\ <<>> \in Seq(Codes)
    BY <2>1, RepliesType
  <2>4. /\ pc = "cmd" /\ state = "data" /\ state' = "bdat"
        /\ UNCHANGED <<reverse_path, forward_path, flags, acked, n_unrecognized>>
    BY <1>2 DEF BdatFirst, Ready
  <2> HIDE DEF onSuccess, onFailure
  <2> QED
    BY <2>2, <2>3, <2>4, MsgNewKernel
<1>3. CASE BdatNext
  BY <1>3, MovesKernel DEF BdatNext, Ready
<1>4. CASE BdatTransfer
  <2>1. xfer_sz \in Nat /\ pc = "bdat" /\ msg # NoMessage
    BY <1>0, <1>4, ChunkType DEF BdatTransfer, TransferLeft, Spooling
  <2> QED
    BY <1>0, <1>4, <2>1, WriteReturnsKernel DEF BdatTransfer
<1>5. CASE BdatWriteFails
  <2>1. xfer_sz \in Nat /\ pc = "bdat" /\ msg # NoMessage
    BY <1>0, <1>5, ChunkType DEF BdatWriteFails, TransferLeft, Spooling
  <2>2. PICK code \in StorageErrors : \E o \in Write(msg, xfer_sz) :
          /\ o.threw
          /\ IF chunk.status_returned
             THEN WriteFailed(code, o.m)
             ELSE TrashAndReset(code, <<"552">>, o.m, "bdat")
    BY <1>5 DEF BdatWriteFails
  <2>3. PICK o \in Write(msg, xfer_sz) :
             IF chunk.status_returned
             THEN WriteFailed(code, o.m)
             ELSE TrashAndReset(code, <<"552">>, o.m, "bdat")
    BY <2>2
  <2>4. /\ code \in Codes /\ acked' = acked /\ n_unrecognized' = n_unrecognized
        /\ <<"552">> \in Seq(Codes)
    BY <1>5, <2>2, RepliesType DEF BdatWriteFails, StorageErrors, Codes
  <2>5. CASE chunk.status_returned
    BY <1>0, <2>1, <2>3, <2>4, <2>5, WriteFailedKernel
  <2>6. CASE ~chunk.status_returned
    <3>1. o.m \in Store /\ o.m.new = msg.new /\ InNew(o.m) = InNew(msg)
      BY <1>0, <2>1, ThrowingWrite
    <3>2. TrashAndReset(code, <<"552">>, o.m, "bdat")
      BY <2>3, <2>6
    <3>3. /\ (Dropped /\ pc' = "bdat") \/ ("exists" \in Faults /\ Kept(o.m))
          /\ maildir' \in Maildir /\ maildir'.whole >= maildir.whole
      BY <1>0, <2>4, <3>1, <3>2, TrashAndResetEffect
    <3>4. CASE Dropped /\ pc' = "bdat"
      BY <2>1, <2>4, <3>3, <3>4, DroppedKernel DEF Ended
    <3>5. CASE "exists" \in Faults /\ Kept(o.m)
      <4>1. msg.new = "none"
        BY <1>0, <2>1 DEF IInv, Kernel, SpoolIsSound
      <4> QED
        BY <2>1, <2>4, <3>1, <3>3, <3>5, <4>1, KeptKernel
    <3> QED
      BY <3>3, <3>4, <3>5
  <2> QED
    BY <2>5, <2>6
<1>6. CASE BdatDiscard
  <2>1. CASE chunk.status_returned
    BY <1>0, <1>6, <2>1, MovesKernel DEF BdatDiscard, TransferLeft
  <2>2. CASE ~chunk.status_returned
    BY <1>6, <2>2, TransferErrorKernel DEF BdatDiscard, TransferLeft, Codes
  <2> QED
    BY <2>1, <2>2
<1>7. CASE BdatReadFails
  <2>1. pc = "bdat" /\ acked' = acked /\ n_unrecognized' = n_unrecognized
    BY <1>7 DEF BdatReadFails, TransferLeft
  <2>2. CASE chunk.status_returned
    BY <1>0, <1>7, <2>1, <2>2, MovesKernel DEF BdatReadFails
  <2>3. CASE ~chunk.status_returned
    <3>1. PICK code \in {"552", "503"} : TransferError(code, "cmd")
      BY <1>7, <2>3 DEF BdatReadFails
    <3> QED
      BY <2>1, <3>1, TransferErrorKernel DEF Codes
  <2> QED
    BY <2>2, <2>3
<1>8. CASE BdatAnswered
  BY <1>0, <1>8, MovesKernel DEF BdatAnswered, TransferDone
<1>9. CASE BdatNoMessage
  BY <1>0, <1>9, MovesKernel DEF BdatNoMessage, BdatDone, TransferDone
<1>10. CASE BdatRejected
  <2>1. PICK code \in {"503", "552"} : TransferError(code, "cmd")
    BY <1>10 DEF BdatRejected
  <2> QED
    BY <1>10, <2>1, TransferErrorKernel DEF BdatRejected, BdatDone, TransferDone, Codes
<1>11. CASE BdatChunkDone
  BY <1>0, <1>11, MovesKernel DEF BdatChunkDone, BdatDone, TransferDone
<1>12. CASE BdatLastDone
  BY <1>12, DoDeliverKernel DEF BdatLastDone, BdatDone, TransferDone
<1> QED
  BY <1>1, <1>2, <1>3, <1>4, <1>5, <1>6, <1>7, <1>8, <1>9, <1>10, <1>11, <1>12 DEF Bdat

\* The 250 due becomes a 250 given.
LEMMA AcknowledgeKernel == IInv /\ Acknowledge => Kernel'
<1> SUFFICES ASSUME IInv, Acknowledge PROVE Kernel'
  OBVIOUS
<1>1. pc = "ack" /\ acked' = acked + 1 /\ n_unrecognized' = n_unrecognized
  BY DEF Acknowledge, connection
<1>2. CASE msg = NoMessage
  <2>1. pc' = "abort" /\ UNCHANGED <<state, reverse_path, forward_path, flags, msg, maildir>>
    BY <1>2 DEF Acknowledge, envelope
  <2> QED
    BY <1>1, <1>2, <2>1, CopyCount DEF IInv, Kernel, Patient, Positions, SpoolIsSound,
       OversizeNotDelivered, Accounted, NothingLeftOver, InNew, Ended, Ready
<1>3. CASE msg # NoMessage
  <2>1. pc' = "cmd" /\ Reset(msg)
    BY <1>3 DEF Acknowledge
  <2>2. Dropped /\ maildir'.whole = maildir.whole + InNew(msg)
    BY <2>1, ResetEffect DEF IInv, TypeOK
  <2>3. Accounted'
    BY <1>1, <2>1, <2>2, CopyCount DEF IInv, Kernel, Accounted, Dropped, InNew
  <2> QED
    BY <1>1, <2>1, <2>2, <2>3 DEF IInv, Kernel, Patient, Positions, SpoolIsSound,
       OversizeNotDelivered, NothingLeftOver, Dropped, Ended
<1> QED
  BY <1>2, <1>3

\* A session starts with the invariant.
LEMMA InitIInv == Init => IInv
<1> SUFFICES ASSUME Init PROVE IInv
  OBVIOUS
<1>1. TypeOK
  <2>1. /\ forward_path \in 0..MaxRecipients /\ n_unrecognized \in 0..MaxUnrecognized
        /\ begun \in 0..MaxMessages /\ alarm \in 0..HamAlarm
        /\ max_msg_size \in {InitialSize, BroSize}
    BY LimitAssumption DEF Init, HamAlarm
  <2>2. flags \subseteq MailFlags /\ allowed \subseteq {"ip", "fcrdns"} /\ replies \in Seq(Codes)
    BY RepliesType DEF Init
  <2>3. chunk \in Chunk /\ maildir \in Maildir
    BY DEF Init, NoChunk, Chunk, Maildir
  <2> QED
    BY <2>1, <2>2, <2>3 DEF Init, TypeOK, Steps, Phases
<1>2. Kernel
  BY LimitAssumption DEF Init, Kernel, Patient, Positions, SpoolIsSound, OversizeNotDelivered,
     Accounted, NothingLeftOver, InNew, Ready
<1> QED
  BY <1>1, <1>2 DEF IInv

LEMMA NextIInv == IInv /\ [Next]_vars => IInv'
<1>1. IInv /\ UNCHANGED vars => Kernel'
  BY QuietKernel DEF vars, envelope, connection, spf, stream
<1>2. IInv /\ Next => Kernel'
  BY StartKernel, TransactionKernel, DataKernel, BdatKernel, AcknowledgeKernel, OtherKernel DEF Next
<1> QED
  BY <1>1, <1>2, NextType DEF IInv

LEMMA AlwaysIInv == Spec => []IInv
  BY InitIInv, NextIInv, PTL DEF Spec
-----------------------------------------------------------------------------
\* Every member of the session keeps its type: no run of commands takes
\* forward_path_ past the limit on recipients or n_unrecognized_cmds_ past its own.
THEOREM SessionTypeCorrect == Spec => []TypeOK
<1>1. IInv => TypeOK
  BY DEF IInv
<1> QED
  BY <1>1, AlwaysIInv, PTL

\* There is a message only under a complete envelope, in the states that accept
\* its octets, whichever system calls fail.
THEOREM SessionOpenHasEnvelope == Spec => []OpenHasEnvelope
<1>1. IInv => OpenHasEnvelope
  BY DEF IInv, Kernel, Positions, OpenHasEnvelope
<1> QED
  BY <1>1, AlwaysIInv, PTL

\* A message that overran its limit never reaches new/, whichever calls fail.
THEOREM SessionOversizeNotDelivered == Spec => []OversizeNotDelivered
<1>1. IInv => OversizeNotDelivered
  BY DEF IInv, Kernel
<1> QED
  BY <1>1, AlwaysIInv, PTL

\* DATA never takes the content of a BINARYMIME message.
THEOREM SessionBinaryMimeNotByData == Spec => []BinaryMimeNotByData
<1>1. IInv => BinaryMimeNotByData
  BY DEF IInv, Kernel, Positions, BinaryMimeNotByData
<1> QED
  BY <1>1, AlwaysIInv, PTL

\* Where closing and renaming a file work, each final 250 has its whole message in
\* new/, whatever else fails and wherever the client, the alarm or an exception
\* ends the session.
THEOREM SessionAckedIsStored ==
  ASSUME Faults \cap {"close", "rename"} = {}
  PROVE  Spec => []AckedIsStored
<1>1. IInv => AckedIsStored
  BY DEF IInv, Kernel, Accounted, AckedIsStored
<1> QED
  BY <1>1, AlwaysIInv, PTL

\* What a step may do to the envelope of a message: leave it alone, or end the
\* message, or take a recipient when fs::exists has left a message behind.
LEMMA EnvelopeStep ==
  ASSUME IInv, Next, "exists" \notin Faults, msg # NoMessage, msg' # NoMessage
  PROVE  UNCHANGED <<reverse_path, forward_path>>
<1> USE DEF envelope
<1>0. /\ TypeOK /\ msg \in Store
      /\ Ready => state = "bdat"
      /\ pc = "bdat" => state = "bdat"
      /\ pc = "data" => Sound(msg) /\ msg.new = "none"
      /\ pc = "bdat" => Sound(msg) /\ msg.new = "none"
  BY DEF IInv, TypeOK, Kernel, NothingLeftOver, Positions, SpoolIsSound
<1>1. ASSUME NEW m \in Store \cup {NoMessage}, Reset(m) \/ Dropped PROVE FALSE
  BY <1>1 DEF Reset, Dropped
<1>2. CASE Start
  BY <1>2 DEF Start, GreetingRefused, Greeting, ReplyAndExit
<1>3. CASE Transaction
  <2>1. CASE \E verb \in {"HELO", "EHLO"} : Lo(verb)
    BY <1>0, <1>1, <2>1 DEF Lo
  <2>2. CASE MailAccepted \/ RcptAccepted
    BY <1>0, <2>2 DEF MailAccepted, RcptAccepted
  <2>3. CASE LoRefused \/ MailOutOfSequence \/ MailParamsRefused \/ MailSenderRefused
    BY <2>3 DEF LoRefused, MailOutOfSequence, MailParamsRefused, MailSenderRefused, Reply,
                ReplyAndExit
  <2>4. CASE RcptOutOfSequence \/ RcptRefused \/ RcptCheckThrows \/ RcptTooMany
    BY <2>4 DEF RcptOutOfSequence, RcptRefused, RcptCheckThrows, RcptTooMany, Reply
  <2> QED
    BY <1>3, <2>1, <2>2, <2>3, <2>4 DEF Transaction
<1>4. CASE Data
  <2>1. CASE DataLine
    BY <2>1 DEF DataLine, WriteReturns
  <2>2. CASE DataLineFails
    <3>1. PICK n \in LineSizes, code \in StorageErrors : \E o \in Write(msg, n) :
            WriteFailed(code, o.m)
      BY <2>2 DEF DataLineFails
    <3>2. PICK o \in Write(msg, n) : WriteFailed(code, o.m)
      BY <3>1
    <3>3. o.m \in Store /\ code \in Codes
      BY <1>0, <3>1, ThrowingWrite, LimitAssumption DEF StorageErrors, Codes
    <3> QED
      BY <1>0, <3>2, <3>3, WriteFailedEffect
  <2>3. CASE DataTooLarge
    BY <1>0, <2>3, <1>1, TransferErrorEffect DEF DataTooLarge, Codes
  <2>4. CASE DataDone
    BY <1>0, <2>4, <1>1, DoDeliverEffect DEF DataDone
  <2>5. CASE DataOutOfSequence \/ DataBinaryMime \/ DataStart \/ DataReadFails \/ DataBareLf
               \/ DataDoneChecks
    BY <2>5 DEF DataOutOfSequence, DataBinaryMime, DataStart, DataReadFails, DataBareLf,
                DataDoneChecks, Reply
  <2> QED
    BY <1>4, <2>1, <2>2, <2>3, <2>4, <2>5 DEF Data
<1>5. CASE Bdat
  <2>1. CASE BdatTransfer
    BY <2>1 DEF BdatTransfer, WriteReturns
  <2>2. CASE BdatWriteFails
    <3>1. PICK code \in StorageErrors : \E o \in Write(msg, xfer_sz) :
             IF chunk.status_returned
             THEN WriteFailed(code, o.m)
             ELSE TrashAndReset(code, <<"552">>, o.m, "bdat")
      BY <2>2 DEF BdatWriteFails
    <3>2. PICK o \in Write(msg, xfer_sz) :
             IF chunk.status_returned
             THEN WriteFailed(code, o.m)
             ELSE TrashAndReset(code, <<"552">>, o.m, "bdat")
      BY <3>1
    <3>3. o.m \in Store /\ code \in Codes /\ <<"552">> \in Seq(Codes)
      BY <1>0, <2>2, <3>1, ThrowingWrite, ChunkType, RepliesType
        DEF BdatWriteFails, StorageErrors, Codes
    <3>4. CASE chunk.status_returned
      BY <1>0, <3>2, <3>3, <3>4, WriteFailedEffect
    <3>5. CASE ~chunk.status_returned
      BY <1>0, <1>1, <3>2, <3>3, <3>5, TrashAndResetEffect
    <3> QED
      BY <3>4, <3>5
  <2>3. CASE BdatDiscard
    BY <1>0, <1>1, <2>3, TransferErrorEffect DEF BdatDiscard, Codes
  <2>4. CASE BdatReadFails
    <3>1. CASE chunk.status_returned
      BY <2>4, <3>1 DEF BdatReadFails
    <3>2. CASE ~chunk.status_returned
      <4>1. PICK code \in {"552", "503"} : TransferError(code, "cmd")
        BY <2>4, <3>2 DEF BdatReadFails
      <4> QED
        BY <1>0, <1>1, <4>1, TransferErrorEffect DEF Codes
    <3> QED
      BY <3>1, <3>2
  <2>5. CASE BdatRejected
    <3>1. PICK code \in {"503", "552"} : TransferError(code, "cmd")
      BY <2>5 DEF BdatRejected
    <3> QED
      BY <1>0, <1>1, <3>1, TransferErrorEffect DEF Codes
  <2>6. CASE BdatLastDone
    BY <1>0, <1>1, <2>6, DoDeliverEffect DEF BdatLastDone, BdatDone, TransferDone
  <2>7. CASE BdatOutOfSequence \/ BdatFirst \/ BdatNext \/ BdatAnswered \/ BdatNoMessage
               \/ BdatChunkDone
    BY <2>7 DEF BdatOutOfSequence, BdatFirst, BdatNext, BdatAnswered, BdatNoMessage, BdatChunkDone
  <2> QED
    BY <1>5, <2>1, <2>2, <2>3, <2>4, <2>5, <2>6, <2>7 DEF Bdat
<1>6. CASE Acknowledge
  BY <1>0, <1>1, <1>6 DEF Acknowledge
<1>7. CASE Other
  <2>1. CASE Rset \/ Starttls
    BY <1>0, <1>1, <2>1 DEF Rset, Starttls
  <2>2. CASE Answer \/ Quit \/ Unrecognized \/ StarttlsRefused \/ StarttlsFails
    BY <2>2 DEF Answer, Quit, Unrecognized, StarttlsRefused, StarttlsFails, Reply, ReplyAndExit
  <2> QED
    BY <1>7, <2>1, <2>2 DEF Other
<1>8. CASE EndOfInput \/ Tick \/ AlarmRings
  BY <1>8 DEF EndOfInput, Tick, AlarmRings
<1> QED
  BY <1>2, <1>3, <1>4, <1>5, <1>6, <1>7, <1>8 DEF Next

\* Where fs::exists works, the envelope of a message does not change.
THEOREM SessionEnvelopeFrozen ==
  ASSUME "exists" \notin Faults
  PROVE  Spec => EnvelopeFrozen
<1>1. IInv /\ [Next]_vars =>
        [msg # NoMessage /\ msg' # NoMessage => UNCHANGED <<reverse_path, forward_path>>]_vars
  BY EnvelopeStep
<1> QED
  BY <1>1, AlwaysIInv, PTL DEF Spec, EnvelopeFrozen

-----------------------------------------------------------------------------
(***************************************************************************)
(* What a client may rely on, where the calls that a session's answers     *)
(* depend on work: one reply per command, one 250 per message stored, and  *)
(* with them that the session implements MailTransaction.  Each theorem    *)
(* names the calls it needs; those above hold whichever of them fail.      *)
(***************************************************************************)

(***************************************************************************)
(* The invariants.                                                         *)
(***************************************************************************)
\* The calls a handler makes while it takes a message and answers.
Spools == Faults \cap {"open", "write", "exists"} = {}

\* Where the session takes content it has a message to put it in, and where it has no
\* transaction it has neither sender nor recipient.
Aligned ==
  /\ state = "bdat" /\ ~Ended => msg # NoMessage
  /\ pc = "data" => msg # NoMessage
  /\ pc = "ack" => state \in {"data", "bdat"} /\ msg # NoMessage
  /\ pc = "bdat" /\ ~chunk.status_returned => state = "bdat"
  /\ state \in {"helo", "mail"} /\ ~Ended => reverse_path = NoSender /\ forward_path = 0

\* The replies so far: none is owed and none too many when the next command is read, 354 while
\* DATA is under way, nothing in a BDAT chunk before its one reply.
OneReply(rs) == Len(rs) = 1 /\ rs[1] # "354"

Answered(rs) ==
  \/ OneReply(rs)
  \/ Len(rs) = 2 /\ rs[1] = "354" /\ rs[2] # "354"

Said ==
  /\ Ready => Answered(replies)
  /\ pc = "data" => replies = <<"354">>
  /\ pc = "bdat" => IF chunk.status_returned THEN OneReply(replies) ELSE replies = <<>>
  /\ pc = "ack" => replies \in {<<>>, <<"354">>}

\* Files that a reader of the Maildir sees: those filed, and that of the message in hand.
Shown(m) == IF m # NoMessage /\ m.new # "none" THEN 1 ELSE 0

Seen == maildir.whole + maildir.short + Shown(msg)

\* If no alarm can ring, all of these were acknowledged but the one that is about to be.
AckBound ==
  Immortal => alarm = 0 /\ Seen <= acked + (IF pc = "ack" THEN Shown(msg) ELSE 0)
-----------------------------------------------------------------------------
(***************************************************************************)
(* What the operators do when nothing throws.                              *)
(***************************************************************************)
\* Replies as sequences of known length.
LEMMA RepliesSaid ==
  /\ \A c \in Codes \ {"354"} : OneReply(<<c>>) /\ OneReply(Append(<<>>, c))
  /\ \A c \in Codes \ {"354"} : Answered(<<c>>) /\ Answered(Append(<<>>, c))
                                  /\ Answered(Append(<<"354">>, c))
  BY DEF OneReply, Answered

\* A stream that was opened takes what it is given.
LEMMA WorkingWrite ==
  ASSUME Spools, NEW m \in Store, Sound(m), NEW n \in Nat, NEW o \in Write(m, n)
  PROVE  ~o.threw
  BY DEF Spools, Write, When, Returns

LEMMA WorkingClose ==
  ASSUME "exists" \notin Faults, NEW m \in Store, NEW t \in Close(m)
  PROVE  ~t.threw /\ t.m \in Store /\ t.m.new = m.new
  BY CloseOutcome DEF Outcome

\* A message can be begun.
LEMMA WorkingNew ==
  ASSUME Spools, TypeOK, NEW o \in NewMessageOutcomes
  PROVE  ~o.threw /\ o.m \in Store /\ o.m.new = "none"
<1>1. PICK q \in Open(Fresh, MessageLimit) : o \in IF q.threw THEN {q} ELSE Write(q.m, HeaderSize)
  BY DEF NewMessageOutcomes
<1>2. MessageLimit \in Nat
  BY MessageLimitType
<1>3. ~q.threw
  BY <1>1 DEF Spools, Open, When, Returns
<1>4. q.m \in Store /\ Sound(q.m) /\ HeaderSize \in Nat
  BY <1>1, <1>2, <1>3, FreshType, OpenOutcome, LimitAssumption DEF Outcome
<1>5. o \in Write(q.m, HeaderSize)
  BY <1>1, <1>3
<1> QED
  BY <1>2, <1>4, <1>5, WorkingWrite, NewMessageType DEF Outcome

LEMMA WorkingMsgNew ==
  ASSUME Spools, TypeOK, msg = NoMessage, NEW said, NEW onSuccess, NEW onFailure,
         MsgNew(said, onSuccess, onFailure)
  PROVE  /\ msg' \in Store /\ msg' # NoMessage /\ msg'.new = "none"
         /\ pc' = onSuccess.pc /\ chunk' = onSuccess.chunk /\ replies' = said
         /\ maildir' = maildir
<1>1. PICK o \in NewMessageOutcomes :
       \/ /\ ~o.threw
          /\ msg' = o.m /\ maildir' = Filed(maildir, msg)
          /\ replies' = said
          /\ pc' = onSuccess.pc /\ chunk' = onSuccess.chunk
       \/ o.threw
  BY DEF MsgNew
<1>2. ~o.threw /\ o.m \in Store /\ o.m.new = "none"
  BY WorkingNew
<1> QED
  BY <1>1, <1>2, MessageAssumption DEF Filed

\* An error handler answers and clears the transaction.
LEMMA WorkingTransferError ==
  ASSUME "exists" \notin Faults, TypeOK, NEW code, NEW next, TransferError(code, next)
  PROVE  /\ Dropped /\ pc' = next /\ replies' = Append(replies, code)
         /\ maildir' \in Maildir /\ maildir'.whole = maildir.whole + InNew(msg)
<1>1. CASE msg = NoMessage
  BY <1>1, ResetEffect DEF TransferError
<1>2. CASE msg # NoMessage
  <2>1. PICK t \in Close(msg) :
          IF t.threw THEN TrashThrows(code, t.m)
          ELSE /\ Reset(t.m)
               /\ replies' = Append(replies, code) \o <<>>
               /\ pc' = next
    BY <1>2 DEF TransferError, TrashAndReset
  <2>2. ~t.threw /\ t.m \in Store /\ InNew(t.m) = InNew(msg)
    BY <1>2, <2>1, MessageType, MessageAssumption, WorkingClose DEF InNew
  <2>3. Append(replies, code) \o <<>> = Append(replies, code)
    BY DEF TypeOK
  <2> QED
    BY <2>1, <2>2, <2>3, ResetEffect
<1> QED
  BY <1>1, <1>2

\* do_deliver_ returns to the acknowledgement, with the envelope as it is.
LEMMA WorkingDeliver ==
  ASSUME "exists" \notin Faults, IInv, msg # NoMessage, Sound(msg), msg.new = "none", DoDeliver
  PROVE  /\ pc' = "ack" /\ msg' \in Store /\ msg' # NoMessage
         /\ UNCHANGED <<state, reverse_path, forward_path, replies, maildir>>
<1>1. msg \in Store
  BY MessageType DEF IInv
<1>2. PICK d \in Deliver(msg) : \E c \in IF d.threw THEN {d} ELSE Close(d.m) :
        IF c.threw
        THEN \E code \in {"452", "550"} : TrashAndReset(code, <<>>, c.m, "ack")
        ELSE /\ msg' = c.m /\ pc' = "ack"
             /\ UNCHANGED <<state, envelope, maxed_out, replies, maildir>>
  BY DEF DoDeliver
<1>3. ~d.threw /\ d.m \in Store
  BY <1>1, <1>2, DeliverOutcome DEF Outcome
<1>4. PICK c \in Close(d.m) :
        IF c.threw
        THEN \E code \in {"452", "550"} : TrashAndReset(code, <<>>, c.m, "ack")
        ELSE /\ msg' = c.m /\ pc' = "ack"
             /\ UNCHANGED <<state, envelope, maxed_out, replies, maildir>>
  BY <1>2, <1>3
<1>5. ~c.threw /\ c.m \in Store
  BY <1>3, <1>4, WorkingClose
<1> QED
  BY <1>4, <1>5, MessageAssumption DEF envelope
-----------------------------------------------------------------------------
(***************************************************************************)
(* One reply per command, and a message wherever one is expected.          *)
(***************************************************************************)
WInv == IInv /\ Aligned /\ Said

\* A command that only answers.
LEMMA AnswerStep ==
  ASSUME WInv, Ready, pc' = "cmd", UNCHANGED <<state, reverse_path, forward_path, msg>>,
         NEW code \in Codes \ {"354"}, replies' = <<code>>
  PROVE  Aligned' /\ Said'
<1>1. Answered(replies')
  BY RepliesSaid
<1> QED
  BY <1>1 DEF WInv, Aligned, Said, Ready, Ended

\* A step after which the process has ended.
LEMMA LeaveStep ==
  ASSUME pc' \in {"exit", "abort"}
  PROVE  Aligned' /\ Said'
  BY DEF Aligned, Said, Ready, Ended

\* A step that clears the transaction and has answered.
LEMMA ClearStep ==
  ASSUME Dropped, pc' = "cmd", Answered(replies')
  PROVE  Aligned' /\ Said'
  BY DEF Aligned, Said, Ready, Ended, Dropped

\* A step that changes nothing here but the stream.
LEMMA StillStep ==
  ASSUME WInv, UNCHANGED <<state, reverse_path, forward_path, msg, pc, chunk, replies>>,
         good' => good
  PROVE  Aligned' /\ Said'
  BY DEF WInv, Aligned, Said, Ready, Ended

LEMMA ReplyStep ==
  ASSUME WInv, Ready, NEW code \in Codes \ {"354"}, Reply(code)
  PROVE  Aligned' /\ Said'
  BY AnswerStep DEF Reply, Ready, envelope

LEMMA StartStep == WInv /\ Start => Aligned' /\ Said'
<1> SUFFICES ASSUME WInv, Start PROVE Aligned' /\ Said'
  OBVIOUS
<1>1. CASE GreetingRefused
  BY <1>1, LeaveStep DEF GreetingRefused, ReplyAndExit, Leave
<1>2. CASE Greeting
  <2>1. Answered(replies')
    BY <1>2, RepliesSaid DEF Greeting, Codes
  <2> QED
    BY <1>2, <2>1 DEF Greeting, envelope, WInv, Aligned, Said, Ready, Ended
<1> QED
  BY <1>1, <1>2 DEF Start

LEMMA TransactionStep == WInv /\ Transaction => Aligned' /\ Said'
<1> SUFFICES ASSUME WInv, Transaction PROVE Aligned' /\ Said'
  OBVIOUS
<1>0. msg \in Store \cup {NoMessage} /\ TypeOK
  BY DEF WInv, IInv, TypeOK
<1>1. CASE LoRefused \/ MailSenderRefused \/ RcptCheckThrows
  BY <1>1, LeaveStep DEF LoRefused, MailSenderRefused, RcptCheckThrows, ReplyAndExit, Leave
<1>2. CASE \E verb \in {"HELO", "EHLO"} : Lo(verb)
  <2>1. Reset(msg) /\ pc' = "cmd" /\ replies' = <<"250">>
    BY <1>2 DEF Lo, Ready
  <2> QED
    BY <1>0, <2>1, ClearStep, ResetEffect, RepliesSaid DEF Codes
<1>3. CASE MailOutOfSequence \/ RcptOutOfSequence \/ RcptTooMany
  BY <1>3, ReplyStep DEF MailOutOfSequence, RcptOutOfSequence, RcptTooMany, Codes
<1>4. CASE RcptRefused
  BY <1>4, ReplyStep DEF RcptRefused, Codes
<1>5. CASE MailParamsRefused
  <2>1. PICK code \in {"552", "554"} : replies' = <<code>>
    BY <1>5 DEF MailParamsRefused
  <2>2. Ready /\ pc' = "cmd" /\ UNCHANGED <<state, reverse_path, forward_path, msg>>
    BY <1>5 DEF MailParamsRefused, Ready
  <2> QED
    BY <2>1, <2>2, AnswerStep DEF Codes
<1>6. CASE MailAccepted
  <2>1. Answered(replies')
    BY <1>6, RepliesSaid DEF MailAccepted, Codes
  <2>2. pc' = "cmd" /\ state' = "rcpt"
    BY <1>6 DEF MailAccepted, Ready
  <2> QED
    BY <2>1, <2>2 DEF Aligned, Said
<1>7. CASE RcptAccepted
  <2>1. Answered(replies')
    BY <1>7, RepliesSaid DEF RcptAccepted, Codes
  <2>2. pc' = "cmd" /\ state' = "data"
    BY <1>7 DEF RcptAccepted, Ready
  <2> QED
    BY <2>1, <2>2 DEF Aligned, Said
<1> QED
  BY <1>1, <1>2, <1>3, <1>4, <1>5, <1>6, <1>7 DEF Transaction

LEMMA OtherStep == WInv /\ (Other \/ EndOfInput \/ Tick \/ AlarmRings) => Aligned' /\ Said'
<1> SUFFICES ASSUME WInv, Other \/ EndOfInput \/ Tick \/ AlarmRings PROVE Aligned' /\ Said'
  OBVIOUS
<1>0. msg \in Store \cup {NoMessage} /\ TypeOK
  BY DEF WInv, IInv, TypeOK
<1>1. CASE Rset
  <2>1. Reset(msg) /\ pc' = "cmd" /\ replies' = <<"250">>
    BY <1>1 DEF Rset, Ready
  <2> QED
    BY <1>0, <2>1, ClearStep, ResetEffect, RepliesSaid DEF Codes
<1>2. CASE Starttls
  <2>1. Reset(msg) /\ pc' = "cmd" /\ replies' = <<"220">>
    BY <1>2 DEF Starttls, Ready
  <2> QED
    BY <1>0, <2>1, ClearStep, ResetEffect, RepliesSaid DEF Codes
<1>3. CASE Answer \/ StarttlsRefused
  BY <1>3, ReplyStep DEF Answer, StarttlsRefused, Codes
<1>4. CASE Quit \/ EndOfInput \/ AlarmRings
  BY <1>4, LeaveStep DEF Quit, EndOfInput, AlarmRings, ReplyAndExit, Leave
<1>5. CASE Unrecognized
  <2>1. CASE Leave(msg, "exit")
    BY <2>1, LeaveStep DEF Leave
  <2>2. CASE UNCHANGED <<pc, msg, maildir>>
    <3>1. /\ Ready /\ pc' = "cmd" /\ UNCHANGED <<state, reverse_path, forward_path, msg>>
          /\ replies' = <<"500">>
      BY <1>5, <2>2 DEF Unrecognized, Ready, envelope
    <3> QED
      BY <3>1, AnswerStep DEF Codes
  <2> QED
    BY <1>5, <2>1, <2>2 DEF Unrecognized
<1>6. CASE StarttlsFails
  <2>1. CASE Leave(msg, "abort")
    BY <2>1, LeaveStep DEF Leave
  <2>2. CASE UNCHANGED <<pc, msg, maildir>>
    <3>1. /\ Ready /\ pc' = "cmd" /\ UNCHANGED <<state, reverse_path, forward_path, msg>>
          /\ replies' = <<"220">>
      BY <1>6, <2>2 DEF StarttlsFails, Ready, envelope
    <3> QED
      BY <3>1, AnswerStep DEF Codes
  <2> QED
    BY <1>6, <2>1, <2>2 DEF StarttlsFails
<1>7. CASE Tick
  BY <1>7, StillStep DEF Tick, envelope, stream
<1> QED
  BY <1>1, <1>2, <1>3, <1>4, <1>5, <1>6, <1>7 DEF Other

\* A spooled message: it exists, is sound and not in new/, and with working calls
\* there is none when a new one is begun.
LEMMA WorkingSpool ==
  ASSUME Spools, WInv
  PROVE  /\ pc = "data" => state = "data" /\ msg \in Store /\ msg # NoMessage
                             /\ Sound(msg) /\ msg.new = "none"
         /\ state = "bdat" /\ msg # NoMessage /\ pc # "ack"
              => msg \in Store /\ Sound(msg) /\ msg.new = "none"
         /\ Ready /\ state = "data" => msg = NoMessage
  BY DEF Spools, WInv, IInv, Kernel, Positions, SpoolIsSound, NothingLeftOver, Aligned, TypeOK

LEMMA DataStep == Spools /\ WInv /\ Data => Aligned' /\ Said'
<1> SUFFICES ASSUME Spools, WInv, Data PROVE Aligned' /\ Said'
  OBVIOUS
<1>0. TypeOK /\ IInv /\ "exists" \notin Faults
  BY DEF WInv, IInv, Spools
<1>1. CASE DataOutOfSequence
  BY <1>1, ReplyStep DEF DataOutOfSequence, Codes
<1>2. CASE DataBinaryMime
  <2>1. Answered(replies')
    BY <1>2, RepliesSaid DEF DataBinaryMime, Codes
  <2>2. state' = "rset" /\ pc' = "cmd"
    BY <1>2 DEF DataBinaryMime, Ready
  <2> QED
    BY <2>1, <2>2 DEF Aligned, Said
<1>3. CASE DataStart
  <2> DEFINE onSuccess == [pc |-> "data", chunk |-> NoChunk]
             onFailure == [pc |-> "cmd", chunk |-> NoChunk]
  <2>1. MsgNew(<<"354">>, onSuccess, onFailure) /\ onSuccess.pc = "data"
    BY <1>3 DEF DataStart
  <2> HIDE DEF onSuccess, onFailure
  <2>2. msg' # NoMessage /\ pc' = "data" /\ replies' = <<"354">>
    BY <1>0, <1>3, <2>1, WorkingSpool, WorkingMsgNew DEF DataStart
  <2>3. state' = "data"
    BY <1>3 DEF DataStart
  <2> QED
    BY <2>2, <2>3 DEF Aligned, Said, Ready
<1>4. CASE DataLine
  <2>1. PICK n \in LineSizes : WriteReturns(n)
    BY <1>4 DEF DataLine
  <2>2. UNCHANGED <<state, reverse_path, forward_path, replies>> /\ msg' # NoMessage
    BY <1>0, <1>4, <2>1, WriteReturnsEffect, LimitAssumption, MessageAssumption DEF DataLine
  <2>3. pc = "data" /\ pc' = "data"
    BY <1>4 DEF DataLine
  <2> QED
    BY <2>2, <2>3 DEF WInv, Aligned, Said, Ready, Ended
<1>5. CASE DataLineFails
  <2>1. PICK n \in LineSizes : \E o \in Write(msg, n) : o.threw
    BY <1>5 DEF DataLineFails
  <2> QED
    BY <1>5, <2>1, WorkingSpool, WorkingWrite, LimitAssumption DEF DataLineFails
<1>6. CASE DataReadFails
  <2>1. UNCHANGED <<state, reverse_path, forward_path, msg>> /\ pc' = "cmd" /\ good' = FALSE
    BY <1>6 DEF DataReadFails, envelope
  <2>2. state = "data" /\ msg # NoMessage
    BY <1>6, WorkingSpool DEF DataReadFails
  <2> QED
    BY <2>1, <2>2 DEF Aligned, Said, Ready, Ended
<1>7. CASE DataBareLf \/ DataDoneChecks
  BY <1>7, LeaveStep DEF DataBareLf, DataDoneChecks, Leave
<1>8. CASE DataTooLarge
  <2>1. Dropped /\ pc' = "cmd" /\ replies' = Append(replies, "552")
    BY <1>0, <1>8, WorkingTransferError DEF DataTooLarge
  <2>2. replies = <<"354">>
    BY <1>8 DEF DataTooLarge, WInv, Said
  <2> QED
    BY <2>1, <2>2, ClearStep, RepliesSaid DEF Codes
<1>9. CASE DataDone
  <2>1. /\ pc' = "ack" /\ msg' # NoMessage /\ replies' = replies
        /\ UNCHANGED <<state, reverse_path, forward_path>>
    BY <1>0, <1>9, WorkingSpool, WorkingDeliver DEF DataDone
  <2>2. state = "data" /\ replies = <<"354">>
    BY <1>9, WorkingSpool DEF DataDone, WInv, Said
  <2> QED
    BY <2>1, <2>2 DEF Aligned, Said, Ready
<1> QED
  BY <1>1, <1>2, <1>3, <1>4, <1>5, <1>6, <1>7, <1>8, <1>9 DEF Data

LEMMA BdatStep == Spools /\ WInv /\ Bdat => Aligned' /\ Said'
<1> SUFFICES ASSUME Spools, WInv, Bdat PROVE Aligned' /\ Said'
  OBVIOUS
<1>0. TypeOK /\ IInv /\ "exists" \notin Faults
  BY DEF WInv, IInv, Spools
<1>1. CASE BdatOutOfSequence
  <2>1. chunk'.status_returned
    BY <1>1 DEF BdatOutOfSequence, Transferring
  <2>2. OneReply(replies')
    BY <1>1, RepliesSaid DEF BdatOutOfSequence, Codes
  <2>3. pc' = "bdat" /\ state' = state /\ ~(state' = "bdat") /\ Ready
        /\ UNCHANGED <<reverse_path, forward_path>>
    BY <1>1 DEF BdatOutOfSequence, envelope
  <2> QED
    BY <2>1, <2>2, <2>3 DEF WInv, Aligned, Said, Ready, Ended
<1>2. CASE BdatFirst
  <2>1. PICK n \in ChunkSizes, last \in BOOLEAN :
          MsgNew(<<>>, Transferring(n, last, FALSE), Transferring(n, last, TRUE))
    BY <1>2 DEF BdatFirst
  <2> DEFINE onSuccess == Transferring(n, last, FALSE)
             onFailure == Transferring(n, last, TRUE)
  <2>2. MsgNew(<<>>, onSuccess, onFailure) /\ onSuccess.pc = "bdat"
        /\ ~onSuccess.chunk.status_returned
    BY <2>1 DEF Transferring
  <2> HIDE DEF onSuccess, onFailure
  <2>3. msg' # NoMessage /\ pc' = "bdat" /\ replies' = <<>> /\ ~chunk'.status_returned
    BY <1>0, <1>2, <2>2, WorkingSpool, WorkingMsgNew DEF BdatFirst
  <2>4. state' = "bdat"
    BY <1>2 DEF BdatFirst
  <2> QED
    BY <2>3, <2>4 DEF Aligned, Said, Ready
<1>3. CASE BdatNext
  <2>1. ~chunk'.status_returned
    BY <1>3 DEF BdatNext, Transferring
  <2>2. /\ pc' = "bdat" /\ state' = "bdat" /\ msg' = msg /\ replies' = <<>>
        /\ Ready /\ state = "bdat"
    BY <1>3 DEF BdatNext
  <2> QED
    BY <2>1, <2>2 DEF WInv, Aligned, Said, Ready, Ended
<1>4. CASE BdatTransfer
  <2>1. xfer_sz \in Nat /\ msg # NoMessage
    BY <1>0, <1>4, ChunkType DEF BdatTransfer, Spooling
  <2>2. UNCHANGED <<state, reverse_path, forward_path, replies>> /\ msg' # NoMessage
    BY <1>0, <1>4, <2>1, WriteReturnsEffect, MessageAssumption DEF BdatTransfer
  <2>3. chunk'.status_returned = chunk.status_returned
    BY <1>0, <1>4 DEF BdatTransfer, Transferred, TypeOK, Chunk
  <2>4. pc = "bdat" /\ pc' = "bdat"
    BY <1>4 DEF BdatTransfer, TransferLeft
  <2> QED
    BY <2>2, <2>3, <2>4 DEF WInv, Aligned, Said, Ready, Ended
<1>5. CASE BdatWriteFails
  <2>1. PICK o \in Write(msg, xfer_sz) : o.threw
    BY <1>5 DEF BdatWriteFails
  <2>2. xfer_sz \in Nat /\ state = "bdat" /\ msg # NoMessage /\ pc = "bdat"
    BY <1>0, <1>5, ChunkType
      DEF BdatWriteFails, TransferLeft, Spooling, IInv, Kernel, Positions
  <2> QED
    BY <2>1, <2>2, WorkingSpool, WorkingWrite
<1>6. CASE BdatDiscard
  <2>1. chunk.status_returned
    BY <1>6 DEF BdatDiscard, TransferLeft, Spooling, WInv, Aligned, Ended
  <2>2. chunk'.status_returned
    BY <1>0, <1>6 DEF BdatDiscard, Transferred, TypeOK, Chunk
  <2>3. /\ UNCHANGED <<state, reverse_path, forward_path, msg, replies>>
        /\ pc = "bdat" /\ pc' = "bdat"
    BY <1>6, <2>1 DEF BdatDiscard, TransferLeft, envelope
  <2> QED
    BY <2>1, <2>2, <2>3 DEF WInv, Aligned, Said, Ready, Ended
<1>7. CASE BdatReadFails
  <2>1. CASE chunk.status_returned
    <3>1. /\ UNCHANGED <<state, reverse_path, forward_path, msg>>
          /\ pc = "bdat" /\ pc' = "cmd" /\ good' = FALSE
      BY <1>7, <2>1 DEF BdatReadFails, TransferLeft, envelope
    <3> QED
      BY <3>1 DEF WInv, Aligned, Said, Ready, Ended
  <2>2. CASE ~chunk.status_returned
    <3>1. PICK code \in {"552", "503"} : TransferError(code, "cmd")
      BY <1>7, <2>2 DEF BdatReadFails
    <3>2. Dropped /\ pc' = "cmd" /\ replies' = Append(replies, code)
      BY <1>0, <3>1, WorkingTransferError
    <3>3. replies = <<>>
      BY <1>7, <2>2 DEF BdatReadFails, TransferLeft, WInv, Said
    <3> QED
      BY <3>2, <3>3, ClearStep, RepliesSaid DEF Codes
  <2> QED
    BY <2>1, <2>2
<1>8. CASE BdatAnswered
  <2>1. /\ UNCHANGED <<state, reverse_path, forward_path, msg, replies>>
        /\ pc = "bdat" /\ pc' = "cmd" /\ chunk.status_returned
    BY <1>8 DEF BdatAnswered, TransferDone, envelope
  <2> QED
    BY <2>1 DEF WInv, Aligned, Said, Answered, Ready, Ended
<1>9. CASE BdatNoMessage
  BY <1>9 DEF BdatNoMessage, BdatDone, TransferDone, WInv, Aligned, Ended
<1>10. CASE BdatRejected
  <2>1. PICK code \in {"552", "503"} : TransferError(code, "cmd")
    BY <1>10 DEF BdatRejected
  <2>2. Dropped /\ pc' = "cmd" /\ replies' = Append(replies, code)
    BY <1>0, <2>1, WorkingTransferError
  <2>3. replies = <<>>
    BY <1>10 DEF BdatRejected, BdatDone, TransferDone, WInv, Said
  <2> QED
    BY <2>2, <2>3, ClearStep, RepliesSaid DEF Codes
<1>11. CASE BdatChunkDone
  <2>1. /\ UNCHANGED <<state, reverse_path, forward_path, msg>>
        /\ pc = "bdat" /\ pc' = "cmd" /\ replies' = Append(replies, "250")
        /\ ~chunk.status_returned
    BY <1>11 DEF BdatChunkDone, BdatDone, TransferDone, envelope
  <2>2. Answered(replies')
    BY <2>1, RepliesSaid DEF WInv, Said, Codes
  <2> QED
    BY <2>1, <2>2 DEF WInv, Aligned, Said, Ready, Ended
<1>12. CASE BdatLastDone
  <2>1. /\ pc = "bdat" /\ ~chunk.status_returned /\ state = "bdat"
        /\ msg # NoMessage /\ DoDeliver
    BY <1>12 DEF BdatLastDone, BdatDone, TransferDone
  <2>2. /\ pc' = "ack" /\ msg' # NoMessage /\ replies' = replies
        /\ UNCHANGED <<state, reverse_path, forward_path>>
    BY <1>0, <2>1, WorkingSpool, WorkingDeliver
  <2>3. replies = <<>>
    BY <2>1 DEF WInv, Said
  <2> QED
    BY <2>1, <2>2, <2>3 DEF Aligned, Said, Ready
<1> QED
  BY <1>1, <1>2, <1>3, <1>4, <1>5, <1>6, <1>7, <1>8, <1>9, <1>10, <1>11, <1>12 DEF Bdat

LEMMA AcknowledgeStep == WInv /\ Acknowledge => Aligned' /\ Said'
<1> SUFFICES ASSUME WInv, Acknowledge PROVE Aligned' /\ Said'
  OBVIOUS
<1>1. TypeOK /\ msg \in Store \cup {NoMessage} /\ msg # NoMessage
  BY DEF Acknowledge, WInv, IInv, TypeOK, Aligned
<1>2. pc' = "cmd" /\ Reset(msg) /\ replies' = Append(replies, "250")
  BY <1>1 DEF Acknowledge
<1>3. Answered(replies')
  BY <1>2, RepliesSaid DEF Acknowledge, WInv, Said, Codes
<1> QED
  BY <1>1, <1>2, <1>3, ResetEffect, ClearStep

LEMMA InitWInv == Init => WInv
<1> SUFFICES ASSUME Init PROVE WInv
  OBVIOUS
<1>1. Aligned /\ Said
  BY DEF Init, Aligned, Said, Ready, Ended
<1> QED
  BY <1>1, InitIInv DEF WInv

LEMMA NextWInv == Spools /\ WInv /\ [Next]_vars => WInv'
<1> SUFFICES ASSUME Spools, WInv, [Next]_vars PROVE WInv'
  OBVIOUS
<1>1. IInv'
  BY NextIInv DEF WInv
<1>2. CASE UNCHANGED vars
  <2>1. UNCHANGED <<state, reverse_path, forward_path, msg, pc, chunk, replies, good>>
    BY <1>2 DEF vars, envelope, stream, process
  <2> QED
    BY <1>1, <2>1, StillStep DEF WInv
<1>3. CASE Next
  BY <1>1, <1>3, StartStep, TransactionStep, DataStep, BdatStep, AcknowledgeStep, OtherStep
    DEF Next, WInv
<1> QED
  BY <1>2, <1>3

LEMMA AlwaysWInv ==
  ASSUME Spools
  PROVE  Spec => []WInv
<1>1. Spools /\ WInv /\ [Next]_vars => WInv'
  BY NextWInv
<1>2. WInv /\ [Next]_vars => WInv'
  BY <1>1
<1> QED
  BY <1>2, InitWInv, PTL DEF Spec
-----------------------------------------------------------------------------
(***************************************************************************)
(* What follows from it.                                                   *)
(***************************************************************************)
\* Where a message can be opened and written to and fs::exists works, no CHECK of
\* data_start, data_done and bdat_done fails: the grammar is never in DATA, in the
\* loop of bdat_act or at the 250 without a message in the matching state_.
THEOREM SessionPhaseMatchesState ==
  ASSUME Spools
  PROVE  Spec => []PhaseMatchesState
<1>1. WInv => PhaseMatchesState
  BY DEF WInv, IInv, Kernel, Positions, Aligned, Ended, PhaseMatchesState
<1> QED
  BY <1>1, AlwaysWInv, PTL

\* And each command is answered once, a DATA that was let begin with 354 and once
\* more, whatever the client pipelines and however its input ends.
THEOREM SessionReplyPerCommand ==
  ASSUME Spools
  PROVE  Spec => []ReplyPerCommand
<1>1. WInv => ReplyPerCommand
  BY DEF WInv, Said, Answered, OneReply, ReplyPerCommand
<1> QED
  BY <1>1, AlwaysWInv, PTL
-----------------------------------------------------------------------------
(***************************************************************************)
(* No second copy: what a reader of the Maildir sees was acknowledged, if  *)
(* no alarm can ring between the two.  This needs fs::exists to work and   *)
(* nothing else: opening and writing may fail.                             *)
(***************************************************************************)
\* Destroying an object moves what it shows to the count of the filed.
LEMMA FiledSeen ==
  ASSUME NEW d \in Maildir, NEW m \in Store \cup {NoMessage}
  PROVE  /\ Filed(d, m) \in Maildir
         /\ Filed(d, m).whole + Filed(d, m).short = d.whole + d.short + Shown(m)
  BY FiledType DEF Filed, Shown, Maildir, Store, FileContent

\* What the operators of the actions leave in view.
LEMMA ResetSeen ==
  ASSUME TypeOK, NEW m \in Store \cup {NoMessage}, Shown(m) = Shown(msg),
         msg' = NoMessage, maildir' = Filed(maildir, m)
  PROVE  Seen' = Seen
<1>1. maildir \in Maildir
  BY DEF TypeOK
<1>2. Seen' = maildir'.whole + maildir'.short /\ Seen' \in Nat
  BY <1>1, FiledSeen DEF Seen, Shown, Maildir
<1> QED
  BY <1>1, <1>2, FiledSeen DEF Seen

LEMMA LeaveSeen ==
  ASSUME TypeOK, NEW how, Leave(msg, how)
  PROVE  Seen' = Seen
  BY ResetSeen DEF Leave, TypeOK

LEMMA ClosedSeen ==
  ASSUME "exists" \notin Faults, TypeOK, msg # NoMessage,
         NEW m \in Store, m.new = msg.new, NEW t \in Close(m)
  PROVE  ~t.threw /\ t.m \in Store /\ Shown(t.m) = Shown(msg)
  BY WorkingClose, MessageAssumption DEF Shown

LEMMA TransferErrorSeen ==
  ASSUME "exists" \notin Faults, TypeOK, NEW code, NEW next, TransferError(code, next)
  PROVE  Seen' = Seen
<1>1. CASE msg = NoMessage
  BY <1>1, ResetSeen DEF TransferError, Reset
<1>2. CASE msg # NoMessage
  BY <1>2, MessageType, ClosedSeen, ResetSeen DEF TransferError, TrashAndReset, Reset
<1> QED
  BY <1>1, <1>2

LEMMA WriteSeen ==
  ASSUME "exists" \notin Faults, TypeOK, msg # NoMessage, NEW n \in Nat, NEW o \in Write(msg, n),
         NEW code, NEW then, NEW next,
         WriteFailed(code, o.m) \/ TrashAndReset(code, then, o.m, next)
  PROVE  Seen' = Seen
  BY ThrowingWrite, ClosedSeen, ResetSeen DEF WriteFailed, TrashAndReset, Reset

LEMMA SameSeen ==
  ASSUME TypeOK, maildir' = maildir,
         msg' = msg \/ (msg # NoMessage /\ msg' # NoMessage /\ msg'.new = msg.new)
  PROVE  Seen' = Seen
  BY DEF Seen, Shown

LEMMA MsgNewSeen ==
  ASSUME TypeOK, NEW said, NEW onSuccess, NEW onFailure, MsgNew(said, onSuccess, onFailure)
  PROVE  Seen' = Seen /\ (Immortal => alarm' = alarm)
<1>1. PICK o \in NewMessageOutcomes :
       \/ ~o.threw /\ msg' = o.m /\ maildir' = Filed(maildir, msg)
       \/ /\ o.threw
          /\ \E t \in Close(o.m) :
               msg' = NoMessage /\ maildir' = Filed(Filed(maildir, msg), t.m)
  BY DEF MsgNew
<1>2. o.m \in Store /\ o.m.new = "none"
  BY NewMessageType, MessageLimitType DEF Outcome
<1>3. /\ maildir \in Maildir /\ msg \in Store \cup {NoMessage}
      /\ Filed(maildir, msg) \in Maildir
      /\ Filed(maildir, msg).whole + Filed(maildir, msg).short = Seen
  BY FiledSeen DEF TypeOK, Seen
<1>4. CASE ~o.threw
  BY <1>1, <1>2, <1>3, <1>4 DEF Seen, Shown, Maildir, MsgNew
<1>5. CASE o.threw
  <2>1. PICK t \in Close(o.m) :
          msg' = NoMessage /\ maildir' = Filed(Filed(maildir, msg), t.m)
    BY <1>1, <1>5
  <2>2. t.m \in Store /\ Shown(t.m) = 0
    BY <1>2, <2>1, CloseOutcome DEF Outcome, Shown
  <2>3. maildir'.whole + maildir'.short = Seen + 0 /\ maildir' \in Maildir
    BY <1>3, <2>1, <2>2, FiledSeen
  <2>4. Shown(msg') = 0
    BY <2>1 DEF Shown
  <2> QED
    BY <1>3, <2>3, <2>4 DEF Seen, Maildir, MsgNew
<1> QED
  BY <1>4, <1>5

LEMMA DeliverSeen ==
  ASSUME "exists" \notin Faults, IInv, msg # NoMessage, Sound(msg), msg.new = "none", DoDeliver
  PROVE  pc' = "ack" /\ Seen' \in Nat /\ Seen' <= Seen + Shown(msg')
  BY WorkingDeliver DEF Seen, Shown, IInv, TypeOK, Maildir

\* A step that shows no more than before and acknowledges nothing.
LEMMA SteadySeen ==
  ASSUME IInv, AckBound, pc # "ack", Seen' = Seen, UNCHANGED acked, Immortal => alarm' = alarm
  PROVE  AckBound'
<1>1. acked \in Nat /\ Seen \in Nat
  BY DEF IInv, TypeOK, Maildir, Seen, Shown
<1>2. ~Immortal => AckBound'
  BY FlagAssumption DEF AckBound
<1>3. Immortal => Seen' <= acked' /\ alarm' = 0
  BY <1>1 DEF AckBound
<1>4. Shown(msg') \in Nat
  BY DEF Shown
<1>5. Immortal => Seen' <= acked' + Shown(msg')
  BY <1>1, <1>3, <1>4
<1> QED
  BY <1>1, <1>2, <1>3, <1>5 DEF AckBound

\* A step that delivers the message in hand.
LEMMA DeliveredSeen ==
  ASSUME IInv, AckBound, pc # "ack", pc' = "ack", Seen' \in Nat, Seen' <= Seen + Shown(msg'),
         UNCHANGED <<acked, alarm>>
  PROVE  AckBound'
<1>1. acked \in Nat /\ Seen \in Nat /\ Shown(msg') \in Nat
  BY DEF IInv, TypeOK, Maildir, Seen, Shown
<1>2. Immortal => alarm' = 0 /\ Seen' <= acked' + Shown(msg')
  BY <1>1 DEF AckBound
<1> QED
  BY <1>2 DEF AckBound

LEMMA DataSeen == "exists" \notin Faults /\ IInv /\ AckBound /\ Data => AckBound'
<1> SUFFICES ASSUME "exists" \notin Faults, IInv, AckBound, Data PROVE AckBound'
  OBVIOUS
<1>0. TypeOK /\ msg \in Store \cup {NoMessage}
  BY DEF IInv, TypeOK
<1>1. CASE DataOutOfSequence \/ DataBinaryMime \/ DataReadFails
  BY <1>0, <1>1, SameSeen, SteadySeen
    DEF DataOutOfSequence, Reply, DataBinaryMime, DataReadFails, Ready, process
<1>2. CASE DataStart
  BY <1>0, <1>2, MsgNewSeen, SteadySeen DEF DataStart, Ready
<1>3. CASE DataLine
  <2>1. PICK n \in LineSizes : WriteReturns(n)
    BY <1>3 DEF DataLine
  <2>2. /\ maildir' = maildir /\ msg # NoMessage /\ msg' # NoMessage /\ msg'.new = msg.new
        /\ pc # "ack" /\ UNCHANGED <<acked, alarm>>
    BY <1>0, <1>3, <2>1, WriteReturnsEffect, LimitAssumption, MessageAssumption
      DEF DataLine, process
  <2> QED
    BY <1>0, <2>2, SameSeen, SteadySeen
<1>4. CASE DataLineFails
  <2>1. PICK n \in LineSizes, code \in StorageErrors : \E o \in Write(msg, n) :
          WriteFailed(code, o.m)
    BY <1>4 DEF DataLineFails
  <2>2. Seen' = Seen
    BY <1>0, <1>4, <2>1, WriteSeen, LimitAssumption DEF DataLineFails
  <2>3. pc # "ack" /\ UNCHANGED <<acked, alarm>>
    BY <1>4 DEF DataLineFails, process
  <2> QED
    BY <2>2, <2>3, SteadySeen
<1>5. CASE DataBareLf \/ DataDoneChecks
  BY <1>0, <1>5, LeaveSeen, SteadySeen DEF DataBareLf, DataDoneChecks, process
<1>6. CASE DataTooLarge
  BY <1>0, <1>6, TransferErrorSeen, SteadySeen DEF DataTooLarge, process
<1>7. CASE DataDone
  <2>1. msg # NoMessage /\ Sound(msg) /\ msg.new = "none" /\ DoDeliver
    BY <1>7 DEF DataDone, IInv, Kernel, SpoolIsSound
  <2>2. pc' = "ack" /\ Seen' \in Nat /\ Seen' <= Seen + Shown(msg')
        /\ pc # "ack" /\ UNCHANGED <<acked, alarm>>
    BY <1>7, <2>1, DeliverSeen DEF DataDone, process
  <2> QED
    BY <2>2, DeliveredSeen
<1> QED
  BY <1>1, <1>2, <1>3, <1>4, <1>5, <1>6, <1>7 DEF Data

LEMMA BdatSeen == "exists" \notin Faults /\ IInv /\ AckBound /\ Bdat => AckBound'
<1> SUFFICES ASSUME "exists" \notin Faults, IInv, AckBound, Bdat PROVE AckBound'
  OBVIOUS
<1>0. TypeOK /\ msg \in Store \cup {NoMessage}
  BY DEF IInv, TypeOK
<1>1. CASE BdatOutOfSequence \/ BdatNext \/ BdatAnswered \/ BdatNoMessage \/ BdatChunkDone
  BY <1>0, <1>1, SameSeen, SteadySeen
    DEF BdatOutOfSequence, BdatNext, BdatAnswered, BdatNoMessage, BdatChunkDone, BdatDone,
        TransferDone, Ready
<1>2. CASE BdatFirst
  BY <1>0, <1>2, MsgNewSeen, SteadySeen DEF BdatFirst, Ready
<1>3. CASE BdatTransfer
  <2>1. xfer_sz \in Nat /\ msg # NoMessage
    BY <1>0, <1>3, ChunkType DEF BdatTransfer, Spooling
  <2>2. /\ maildir' = maildir /\ msg' # NoMessage /\ msg'.new = msg.new
        /\ pc # "ack" /\ UNCHANGED <<acked, alarm>>
    BY <1>0, <1>3, <2>1, WriteReturnsEffect, MessageAssumption DEF BdatTransfer, TransferLeft
  <2> QED
    BY <1>0, <2>1, <2>2, SameSeen, SteadySeen
<1>4. CASE BdatWriteFails
  <2>1. PICK code \in StorageErrors, o \in Write(msg, xfer_sz) :
          WriteFailed(code, o.m) \/ TrashAndReset(code, <<"552">>, o.m, "bdat")
    BY <1>4 DEF BdatWriteFails
  <2>2. xfer_sz \in Nat /\ msg # NoMessage
    BY <1>0, <1>4, ChunkType DEF BdatWriteFails, Spooling
  <2>3. Seen' = Seen
    BY <1>0, <2>1, <2>2, WriteSeen
  <2>4. pc # "ack" /\ UNCHANGED <<acked, alarm>>
    BY <1>4 DEF BdatWriteFails, TransferLeft
  <2> QED
    BY <2>3, <2>4, SteadySeen
<1>5. CASE BdatDiscard
  <2>1. Seen' = Seen
    BY <1>0, <1>5, SameSeen, TransferErrorSeen DEF BdatDiscard
  <2> QED
    BY <1>5, <2>1, SteadySeen DEF BdatDiscard, TransferLeft
<1>6. CASE BdatReadFails
  <2>1. Seen' = Seen
    BY <1>0, <1>6, SameSeen, TransferErrorSeen DEF BdatReadFails
  <2> QED
    BY <1>6, <2>1, SteadySeen DEF BdatReadFails, TransferLeft
<1>7. CASE BdatRejected
  <2>1. Seen' = Seen
    BY <1>0, <1>7, TransferErrorSeen DEF BdatRejected
  <2> QED
    BY <1>7, <2>1, SteadySeen DEF BdatRejected, BdatDone, TransferDone
<1>8. CASE BdatLastDone
  <2>1. msg # NoMessage /\ Sound(msg) /\ msg.new = "none" /\ DoDeliver /\ pc = "bdat"
    BY <1>8 DEF BdatLastDone, BdatDone, TransferDone, IInv, Kernel, SpoolIsSound
  <2>2. pc' = "ack" /\ Seen' \in Nat /\ Seen' <= Seen + Shown(msg') /\ UNCHANGED <<acked, alarm>>
    BY <1>8, <2>1, DeliverSeen DEF BdatLastDone
  <2> QED
    BY <2>1, <2>2, DeliveredSeen
<1> QED
  BY <1>1, <1>2, <1>3, <1>4, <1>5, <1>6, <1>7, <1>8 DEF Bdat

LEMMA NextSeen == "exists" \notin Faults /\ IInv /\ AckBound /\ [Next]_vars => AckBound'
<1> SUFFICES ASSUME "exists" \notin Faults, IInv, AckBound, [Next]_vars PROVE AckBound'
  OBVIOUS
<1>0. TypeOK /\ msg \in Store \cup {NoMessage}
  BY DEF IInv, TypeOK
<1>1. CASE UNCHANGED vars
  BY <1>1 DEF AckBound, Seen, vars, process
<1>2. CASE Start
  <2>1. Seen' = Seen
    BY <1>0, <1>2, SameSeen, LeaveSeen DEF Start, GreetingRefused, Greeting, ReplyAndExit
  <2>2. pc # "ack" /\ acked' = acked /\ (Immortal => alarm' = alarm)
    BY <1>2 DEF Start, GreetingRefused, Greeting, ReplyAndExit, process, AckBound
  <2> QED
    BY <2>1, <2>2, SteadySeen
<1>3. CASE Transaction
  <2>1. Seen' = Seen
    BY <1>0, <1>3, SameSeen, LeaveSeen, ResetSeen
      DEF Transaction, LoRefused, Lo, Reset, MailOutOfSequence, MailParamsRefused,
          MailSenderRefused, MailAccepted, RcptOutOfSequence, RcptRefused, RcptCheckThrows,
          RcptTooMany, RcptAccepted, Reply, ReplyAndExit
  <2>2. pc # "ack" /\ UNCHANGED <<acked, alarm>>
    BY <1>3
      DEF Transaction, LoRefused, Lo, MailOutOfSequence, MailParamsRefused,
          MailSenderRefused, MailAccepted, RcptOutOfSequence, RcptRefused, RcptCheckThrows,
          RcptTooMany, RcptAccepted, Reply, ReplyAndExit, Ready, process
  <2> QED
    BY <2>1, <2>2, SteadySeen
<1>4. CASE Acknowledge
  <2>1. Seen' = Seen
    BY <1>0, <1>4, SameSeen, ResetSeen DEF Acknowledge, Reset
  <2>2. pc' # "ack" /\ acked' = acked + 1 /\ alarm' = alarm /\ pc = "ack"
    BY <1>4 DEF Acknowledge, process
  <2>3. acked \in Nat /\ Seen \in Nat /\ Shown(msg) \in {0, 1}
    BY <1>0 DEF TypeOK, Maildir, Seen, Shown
  <2> QED
    BY <2>1, <2>2, <2>3 DEF AckBound
<1>5. CASE Other
  <2>1. Seen' = Seen
    BY <1>0, <1>5, SameSeen, LeaveSeen, ResetSeen
      DEF Other, Rset, Reset, Answer, Quit, Unrecognized, StarttlsRefused, Starttls,
          StarttlsFails, Reply, ReplyAndExit
  <2>2. pc # "ack" /\ UNCHANGED <<acked, alarm>>
    BY <1>5
      DEF Other, Rset, Answer, Quit, Unrecognized, StarttlsRefused, Starttls,
          StarttlsFails, Reply, ReplyAndExit, Ready, process
  <2> QED
    BY <2>1, <2>2, SteadySeen
<1>6. CASE EndOfInput
  BY <1>0, <1>6, LeaveSeen, SteadySeen DEF EndOfInput, process
<1>7. CASE Tick \/ AlarmRings
  <2>1. ~Immortal
    BY <1>7 DEF Tick, AlarmRings, AckBound
  <2> QED
    BY <2>1 DEF AckBound
<1> QED
  BY <1>1, <1>2, <1>3, <1>4, <1>5, <1>6, <1>7, DataSeen, BdatSeen DEF Next

\* Where fs::exists works and no alarm can ring, what is in new/ has been
\* acknowledged, however many writes, closes and renames fail on the way: a client
\* that was told no and tries again leaves no second copy.
THEOREM SessionStoredIsAcked ==
  ASSUME "exists" \notin Faults
  PROVE  Spec => []StoredIsAcked
<1>1. Init => IInv /\ AckBound
  <2>1. Init => AckBound
    BY DEF Init, AckBound, Seen, Shown
  <2> QED
    BY <2>1, InitIInv
<1>2. IInv /\ AckBound /\ [Next]_vars => (IInv /\ AckBound)'
  BY NextIInv, NextSeen
<1>3. IInv /\ AckBound => StoredIsAcked
  <2> SUFFICES ASSUME IInv, AckBound, Immortal PROVE maildir.whole + maildir.short <= acked
    BY DEF StoredIsAcked
  <2>1. acked \in Nat /\ maildir.whole \in Nat /\ maildir.short \in Nat
    BY DEF IInv, TypeOK, Maildir
  <2>2. Seen = maildir.whole + maildir.short + Shown(msg) /\ Shown(msg) \in {0, 1}
    BY DEF Seen, Shown
  <2> QED
    BY <2>1, <2>2 DEF AckBound
<1> QED
  BY <1>1, <1>2, <1>3, PTL DEF Spec
-----------------------------------------------------------------------------
(***************************************************************************)
(* The refinement: step by step, a session implements MailTransaction.     *)
(***************************************************************************)
\* Nothing a message's way into the Maildir depends on fails.
Delivers == Spools /\ Faults \cap {"close", "rename"} = {}

\* Where a transaction is that nobody has dropped, delivered or ended.
Gathered ==
  IF msg # NoMessage THEN "content"
  ELSE IF forward_path > 0 THEN "recipients"
  ELSE IF reverse_path # NoSender THEN "sender" ELSE "idle"

LEMMA PhaseIs ==
  /\ ~Ended /\ pc # "ack" => TransactionPhase = Gathered
  /\ pc = "ack" => TransactionPhase = "stored"
  /\ Gathered \in {"idle", "sender", "recipients", "content"}
  /\ pc' \in {"exit", "abort"} => TransactionPhase' = "over"
  /\ pc' = "ack" => TransactionPhase' = "stored"
  /\ pc' \notin {"exit", "abort", "ack"} => TransactionPhase' = Gathered'
  BY DEF TransactionPhase, Gathered, Ended

\* The count of the stored, by what a step does to the files and the message.
LEMMA SameStored ==
  ASSUME TypeOK,
         \/ maildir' = maildir /\ msg' = msg
         \/ maildir' = maildir /\ InNew(msg') = InNew(msg)
         \/ msg' = NoMessage /\ maildir' \in Maildir
              /\ maildir'.whole = maildir.whole + InNew(msg)
  PROVE  StoredMessages' = StoredMessages
<1>1. maildir.whole \in Nat /\ InNew(msg) \in {0, 1}
  BY DEF TypeOK, Maildir, InNew
<1>2. StoredMessages = maildir.whole + InNew(msg) /\ StoredMessages' = maildir'.whole + InNew(msg')
  BY DEF StoredMessages, InNew
<1>3. CASE msg' = NoMessage /\ maildir'.whole = maildir.whole + InNew(msg)
  <2>1. InNew(msg') = 0
    BY <1>3 DEF InNew
  <2> QED
    BY <1>1, <1>2, <1>3, <2>1
<1> QED
  BY <1>1, <1>2, <1>3

\* A step within a phase.
LEMMA StillMaps ==
  ASSUME UNCHANGED <<TransactionPhase, StoredMessages, acked>>
  PROVE  [Mail!Next]_(Mail!vars)
  BY DEF Mail!vars

\* A step that keeps the envelope and the message.
LEMMA KeptMaps ==
  ASSUME TypeOK, ~Ended, pc # "ack", pc' \notin {"exit", "abort", "ack"},
         UNCHANGED <<reverse_path, forward_path, msg, maildir, acked>>
  PROVE  [Mail!Next]_(Mail!vars)
<1>1. Gathered' = Gathered
  BY DEF Gathered
<1> QED
  BY <1>1, PhaseIs, SameStored, StillMaps

\* A step that gives the transaction up.
LEMMA DropMaps ==
  ASSUME TypeOK, ~Ended, pc # "ack", pc' \notin {"exit", "abort", "ack"},
         Dropped, StoredMessages' = StoredMessages, UNCHANGED acked
  PROVE  [Mail!Next]_(Mail!vars)
<1>1. TransactionPhase' = "idle"
  BY PhaseIs DEF Dropped, Gathered
<1> QED
  BY <1>1, PhaseIs DEF Mail!Next, Mail!Forget, Mail!vars

\* A step that ends the process.
LEMMA LeaveMaps ==
  ASSUME TypeOK, NEW how \in {"exit", "abort"}, Leave(msg, how), UNCHANGED acked
  PROVE  [Mail!Next]_(Mail!vars)
<1>1. msg \in Store \cup {NoMessage}
  BY DEF TypeOK
<1>2. pc' = how /\ StoredMessages' = StoredMessages
  BY <1>1, LeaveEffect, SameStored
<1> QED
  BY <1>2, PhaseIs DEF Mail!Next, Mail!End

LEMMA ReplyMaps ==
  ASSUME TypeOK, Ready, NEW code, Reply(code)
  PROVE  [Mail!Next]_(Mail!vars)
  BY KeptMaps DEF Reply, Ready, Ended, envelope

LEMMA ReplyAndExitMaps ==
  ASSUME TypeOK, NEW code, ReplyAndExit(code)
  PROVE  [Mail!Next]_(Mail!vars)
  BY LeaveMaps DEF ReplyAndExit

LEMMA ResetMaps ==
  ASSUME TypeOK, Ready, Reset(msg), pc' = "cmd", UNCHANGED acked
  PROVE  [Mail!Next]_(Mail!vars)
<1>1. msg \in Store \cup {NoMessage}
  BY DEF TypeOK
<1>2. Dropped /\ StoredMessages' = StoredMessages
  BY <1>1, ResetEffect, SameStored DEF Dropped
<1> QED
  BY <1>2, DropMaps DEF Ready, Ended

LEMMA TransferErrorMaps ==
  ASSUME Delivers, TypeOK, ~Ended, pc # "ack", NEW code, NEW next \in {"cmd", "bdat"},
         TransferError(code, next), UNCHANGED acked
  PROVE  [Mail!Next]_(Mail!vars)
<1>1. "exists" \notin Faults
  BY DEF Delivers, Spools
<1>2. /\ Dropped /\ pc' = next
      /\ maildir' \in Maildir /\ maildir'.whole = maildir.whole + InNew(msg)
  BY <1>1, WorkingTransferError
<1>3. StoredMessages' = StoredMessages
  BY <1>2, SameStored DEF Dropped
<1> QED
  BY <1>2, <1>3, DropMaps

\* A message is begun: the transaction's content.
LEMMA MsgNewMaps ==
  ASSUME Delivers, WInv, Ready, state = "data", NEW said, NEW onSuccess, NEW onFailure,
         MsgNew(said, onSuccess, onFailure), onSuccess.pc \in {"data", "bdat"},
         UNCHANGED <<reverse_path, forward_path, acked>>
  PROVE  [Mail!Next]_(Mail!vars)
<1>1. Spools /\ TypeOK /\ msg = NoMessage /\ forward_path > 0
  BY WorkingSpool DEF Delivers, WInv, IInv, Kernel, Positions
<1>2. /\ msg' # NoMessage /\ msg'.new = "none" /\ maildir' = maildir
      /\ pc' = onSuccess.pc
  BY <1>1, WorkingMsgNew
<1>3. TransactionPhase = "recipients" /\ TransactionPhase' = "content"
  BY <1>1, <1>2, PhaseIs DEF Ready, Ended, Gathered
<1>4. StoredMessages' = StoredMessages
  BY <1>1, <1>2, SameStored DEF InNew
<1> QED
  BY <1>3, <1>4 DEF Mail!Next, Mail!Content, Mail!Advance

\* A sound message is delivered: it is stored.
LEMMA DoDeliverMaps ==
  ASSUME Delivers, WInv, ~Ended, pc # "ack", msg # NoMessage, Sound(msg), msg.new = "none",
         DoDeliver, UNCHANGED acked
  PROVE  [Mail!Next]_(Mail!vars)
<1>1. IInv /\ TypeOK /\ "exists" \notin Faults /\ Faults \cap {"close", "rename"} = {}
  BY DEF Delivers, Spools, WInv, IInv
<1>2. pc' = "ack" /\ maildir'.whole + InNew(msg') = maildir.whole + 1
  BY <1>1, WorkingDeliver, DoDeliverEffect
<1>3. TransactionPhase = "content" /\ TransactionPhase' = "stored"
  BY <1>2, PhaseIs DEF Gathered
<1>4. StoredMessages' = StoredMessages + 1
  <2>1. StoredMessages = maildir.whole /\ maildir.whole \in Nat
    BY <1>1 DEF StoredMessages, TypeOK, Maildir
  <2>2. StoredMessages' = maildir'.whole + InNew(msg')
    BY DEF StoredMessages, InNew
  <2> QED
    BY <1>2, <2>1, <2>2
<1> QED
  BY <1>3, <1>4 DEF Mail!Next, Mail!Store

\* Octets for the message.
LEMMA WriteReturnsMaps ==
  ASSUME TypeOK, ~Ended, pc # "ack", msg # NoMessage, NEW n \in Nat, WriteReturns(n),
         UNCHANGED <<pc, acked>>
  PROVE  [Mail!Next]_(Mail!vars)
<1>1. /\ maildir' = maildir /\ msg' # NoMessage /\ InNew(msg') = InNew(msg)
  BY WriteReturnsEffect, MessageAssumption DEF InNew
<1>2. TransactionPhase' = TransactionPhase
  BY <1>1, PhaseIs DEF Gathered, Ended
<1> QED
  BY <1>1, <1>2, SameStored, StillMaps

LEMMA TransactionMaps ==
  ASSUME WInv, Transaction
  PROVE  [Mail!Next]_(Mail!vars)
<1>0. TypeOK
  BY DEF WInv, IInv
<1>1. CASE LoRefused \/ MailSenderRefused
  BY <1>0, <1>1, ReplyAndExitMaps DEF LoRefused, MailSenderRefused
<1>2. CASE RcptCheckThrows
  BY <1>0, <1>2, LeaveMaps DEF RcptCheckThrows
<1>3. CASE \E verb \in {"HELO", "EHLO"} : Lo(verb)
  BY <1>0, <1>3, ResetMaps DEF Lo, Ready
<1>4. CASE MailOutOfSequence \/ RcptOutOfSequence \/ RcptTooMany \/ RcptRefused
  BY <1>0, <1>4, ReplyMaps DEF MailOutOfSequence, RcptOutOfSequence, RcptTooMany, RcptRefused
<1>5. CASE MailParamsRefused
  <2>1. ~Ended /\ pc = "cmd" /\ UNCHANGED <<reverse_path, forward_path, msg, maildir, acked, pc>>
    BY <1>5 DEF MailParamsRefused, Ready, Ended
  <2> QED
    BY <1>0, <2>1, KeptMaps
<1>6. CASE MailAccepted
  <2>1. /\ Ready /\ state = "mail" /\ reverse_path' \in Senders /\ forward_path' = 0
        /\ UNCHANGED <<msg, maildir, acked, pc>>
    BY <1>6 DEF MailAccepted
  <2>2. reverse_path = NoSender /\ forward_path = 0 /\ msg = NoMessage
    BY <2>1 DEF WInv, Aligned, IInv, Kernel, Positions, Ready, Ended
  <2>3. TransactionPhase = "idle" /\ TransactionPhase' = "sender"
    BY <2>1, <2>2, SenderAssumption, PhaseIs DEF Gathered, Ready, Ended
  <2>4. StoredMessages' = StoredMessages
    BY <1>0, <2>1, SameStored
  <2> QED
    BY <2>1, <2>3, <2>4 DEF Mail!Next, Mail!Sender, Mail!Advance
<1>7. CASE RcptAccepted
  <2>1. /\ Ready /\ state \in {"rcpt", "data"} /\ forward_path' = forward_path + 1
        /\ UNCHANGED <<reverse_path, msg, maildir, acked, pc>>
    BY <1>7 DEF RcptAccepted
  <2>2. reverse_path # NoSender /\ forward_path \in Nat
    BY <2>1 DEF WInv, IInv, Kernel, Positions, TypeOK
  <2>3. StoredMessages' = StoredMessages
    BY <1>0, <2>1, SameStored
  <2>4. TransactionPhase = Gathered /\ TransactionPhase' = Gathered'
    BY <2>1, PhaseIs DEF Ready, Ended
  <2>5. \/ TransactionPhase' = TransactionPhase
        \/ TransactionPhase = "sender" /\ TransactionPhase' = "recipients"
    BY <2>1, <2>2, <2>4 DEF Gathered
  <2> QED
    BY <2>1, <2>3, <2>5, StillMaps DEF Mail!Next, Mail!Recipient, Mail!Advance
<1> QED
  BY <1>1, <1>2, <1>3, <1>4, <1>5, <1>6, <1>7 DEF Transaction

LEMMA DataMaps ==
  ASSUME Delivers, WInv, Data
  PROVE  [Mail!Next]_(Mail!vars)
<1>0. Spools /\ TypeOK
  BY DEF Delivers, WInv, IInv
<1>1. CASE DataOutOfSequence
  BY <1>0, <1>1, ReplyMaps DEF DataOutOfSequence
<1>2. CASE DataBinaryMime
  <2>1. pc = "cmd" /\ UNCHANGED <<reverse_path, forward_path, msg, maildir, acked, pc>>
    BY <1>2 DEF DataBinaryMime, Ready, envelope
  <2> QED
    BY <1>0, <2>1, KeptMaps DEF Ended
<1>3. CASE DataStart
  <2> DEFINE onSuccess == [pc |-> "data", chunk |-> NoChunk]
             onFailure == [pc |-> "cmd", chunk |-> NoChunk]
  <2>1. /\ MsgNew(<<"354">>, onSuccess, onFailure) /\ onSuccess.pc = "data"
    BY <1>3 DEF DataStart
  <2> HIDE DEF onSuccess, onFailure
  <2>2. Ready /\ state = "data" /\ UNCHANGED <<reverse_path, forward_path, acked>>
    BY <1>3 DEF DataStart, envelope
  <2> QED
    BY <2>1, <2>2, MsgNewMaps
<1>4. CASE DataLine
  BY <1>0, <1>4, WriteReturnsMaps, LimitAssumption DEF DataLine, Ended, process
<1>5. CASE DataLineFails
  BY <1>0, <1>5, WorkingSpool, WorkingWrite, LimitAssumption DEF DataLineFails
<1>6. CASE DataReadFails
  <2>1. /\ pc = "data" /\ pc' = "cmd"
        /\ UNCHANGED <<reverse_path, forward_path, msg, maildir, acked>>
    BY <1>6 DEF DataReadFails, envelope
  <2> QED
    BY <1>0, <2>1, KeptMaps DEF Ended
<1>7. CASE DataBareLf \/ DataDoneChecks
  BY <1>0, <1>7, LeaveMaps DEF DataBareLf, DataDoneChecks
<1>8. CASE DataTooLarge
  BY <1>0, <1>8, TransferErrorMaps DEF DataTooLarge, Ended
<1>9. CASE DataDone
  BY <1>0, <1>9, WorkingSpool, DoDeliverMaps DEF DataDone, Ended
<1> QED
  BY <1>1, <1>2, <1>3, <1>4, <1>5, <1>6, <1>7, <1>8, <1>9 DEF Data

LEMMA BdatMaps ==
  ASSUME Delivers, WInv, Bdat
  PROVE  [Mail!Next]_(Mail!vars)
<1>0. Spools /\ TypeOK
  BY DEF Delivers, WInv, IInv
<1>1. CASE BdatOutOfSequence \/ BdatNext \/ BdatAnswered \/ BdatNoMessage \/ BdatChunkDone
  <2>1. /\ pc \in {"cmd", "bdat"} /\ pc' \in {"cmd", "bdat"}
        /\ UNCHANGED <<reverse_path, forward_path, msg, maildir, acked>>
    BY <1>1 DEF BdatOutOfSequence, BdatNext, BdatAnswered, BdatNoMessage, BdatChunkDone, BdatDone,
                TransferDone, Ready, envelope
  <2> QED
    BY <1>0, <2>1, KeptMaps DEF Ended
<1>2. CASE BdatFirst
  <2>1. PICK n \in ChunkSizes, last \in BOOLEAN :
          MsgNew(<<>>, Transferring(n, last, FALSE), Transferring(n, last, TRUE))
    BY <1>2 DEF BdatFirst
  <2> DEFINE onSuccess == Transferring(n, last, FALSE)
             onFailure == Transferring(n, last, TRUE)
  <2>2. MsgNew(<<>>, onSuccess, onFailure) /\ onSuccess.pc = "bdat"
    BY <2>1 DEF Transferring
  <2> HIDE DEF onSuccess, onFailure
  <2>3. Ready /\ state = "data" /\ UNCHANGED <<reverse_path, forward_path, acked>>
    BY <1>2 DEF BdatFirst, envelope
  <2> QED
    BY <2>2, <2>3, MsgNewMaps
<1>3. CASE BdatTransfer
  BY <1>0, <1>3, WriteReturnsMaps, ChunkType DEF BdatTransfer, TransferLeft, Spooling, Ended
<1>4. CASE BdatWriteFails
  <2>1. PICK o \in Write(msg, xfer_sz) : o.threw
    BY <1>4 DEF BdatWriteFails
  <2>2. xfer_sz \in Nat /\ state = "bdat" /\ msg # NoMessage /\ pc = "bdat"
    BY <1>0, <1>4, ChunkType
      DEF BdatWriteFails, TransferLeft, Spooling, WInv, IInv, Kernel, Positions
  <2> QED
    BY <1>0, <2>1, <2>2, WorkingSpool, WorkingWrite
<1>5. CASE BdatDiscard
  <2>1. chunk.status_returned
    BY <1>5 DEF BdatDiscard, TransferLeft, Spooling, WInv, Aligned, Ended
  <2>2. pc = "bdat" /\ UNCHANGED <<reverse_path, forward_path, msg, maildir, acked, pc>>
    BY <1>5, <2>1 DEF BdatDiscard, TransferLeft, envelope
  <2> QED
    BY <1>0, <2>2, KeptMaps DEF Ended
<1>6. CASE BdatReadFails
  <2>1. CASE chunk.status_returned
    <3>1. /\ pc = "bdat" /\ pc' = "cmd"
          /\ UNCHANGED <<reverse_path, forward_path, msg, maildir, acked>>
      BY <1>6, <2>1 DEF BdatReadFails, TransferLeft, envelope
    <3> QED
      BY <1>0, <3>1, KeptMaps DEF Ended
  <2>2. CASE ~chunk.status_returned
    BY <1>0, <1>6, <2>2, TransferErrorMaps DEF BdatReadFails, TransferLeft, Ended
  <2> QED
    BY <2>1, <2>2
<1>7. CASE BdatRejected
  BY <1>0, <1>7, TransferErrorMaps DEF BdatRejected, BdatDone, TransferDone, Ended
<1>8. CASE BdatLastDone
  BY <1>0, <1>8, WorkingSpool, DoDeliverMaps DEF BdatLastDone, BdatDone, TransferDone, Ended
<1> QED
  BY <1>1, <1>2, <1>3, <1>4, <1>5, <1>6, <1>7, <1>8 DEF Bdat

LEMMA AcknowledgeMaps ==
  ASSUME WInv, Acknowledge
  PROVE  [Mail!Next]_(Mail!vars)
<1>1. TypeOK /\ msg \in Store \cup {NoMessage} /\ msg # NoMessage /\ pc = "ack"
  BY DEF Acknowledge, WInv, IInv, TypeOK, Aligned
<1>2. pc' = "cmd" /\ Reset(msg) /\ acked' = acked + 1
  BY <1>1 DEF Acknowledge
<1>3. Dropped /\ StoredMessages' = StoredMessages
  BY <1>1, <1>2, ResetEffect, SameStored DEF Dropped
<1>4. TransactionPhase = "stored" /\ TransactionPhase' = "idle"
  BY <1>1, <1>2, <1>3, PhaseIs DEF Dropped, Gathered
<1> QED
  BY <1>2, <1>3, <1>4 DEF Mail!Next, Mail!Acknowledge

LEMMA OtherMaps ==
  ASSUME WInv, Start \/ Other \/ EndOfInput \/ Tick \/ AlarmRings
  PROVE  [Mail!Next]_(Mail!vars)
<1>0. TypeOK
  BY DEF WInv, IInv
<1>1. CASE GreetingRefused \/ Quit
  BY <1>0, <1>1, ReplyAndExitMaps DEF GreetingRefused, Quit
<1>2. CASE Greeting
  <2>1. /\ pc = "greet" /\ pc' = "cmd"
        /\ UNCHANGED <<reverse_path, forward_path, msg, maildir, acked>>
    BY <1>2 DEF Greeting, envelope
  <2> QED
    BY <1>0, <2>1, KeptMaps DEF Ended
<1>3. CASE Rset \/ Starttls
  BY <1>0, <1>3, ResetMaps DEF Rset, Starttls, Ready
<1>4. CASE Answer \/ StarttlsRefused
  BY <1>0, <1>4, ReplyMaps DEF Answer, StarttlsRefused
<1>5. CASE Unrecognized \/ StarttlsFails
  <2>1. CASE \E how \in {"exit", "abort"} : Leave(msg, how)
    BY <1>0, <1>5, <2>1, LeaveMaps DEF Unrecognized, StarttlsFails
  <2>2. CASE UNCHANGED <<pc, msg, maildir>>
    <3>1. pc = "cmd" /\ UNCHANGED <<pc, reverse_path, forward_path, msg, maildir, acked>>
      BY <1>5, <2>2 DEF Unrecognized, StarttlsFails, Ready, envelope
    <3> QED
      BY <1>0, <3>1, KeptMaps DEF Ended
  <2> QED
    BY <1>5, <2>1, <2>2 DEF Unrecognized, StarttlsFails
<1>6. CASE EndOfInput \/ AlarmRings
  BY <1>0, <1>6, LeaveMaps DEF EndOfInput, AlarmRings
<1>7. CASE Tick
  <2>1. UNCHANGED <<pc, reverse_path, forward_path, msg, maildir, acked>>
    BY <1>7 DEF Tick, envelope
  <2>2. UNCHANGED <<TransactionPhase, StoredMessages>>
    BY <2>1 DEF TransactionPhase, Ended, StoredMessages
  <2> QED
    BY <2>1, <2>2, StillMaps
<1> QED
  BY <1>1, <1>2, <1>3, <1>4, <1>5, <1>6, <1>7 DEF Start, Other

LEMMA NextMaps == Delivers /\ WInv /\ [Next]_vars => [Mail!Next]_(Mail!vars)
<1> SUFFICES ASSUME Delivers, WInv, [Next]_vars PROVE [Mail!Next]_(Mail!vars)
  OBVIOUS
<1>1. CASE UNCHANGED vars
  <2>1. UNCHANGED <<pc, reverse_path, forward_path, msg, maildir, acked>>
    BY <1>1 DEF vars, envelope
  <2>2. UNCHANGED <<TransactionPhase, StoredMessages>>
    BY <2>1 DEF TransactionPhase, Ended, StoredMessages
  <2> QED
    BY <2>1, <2>2, StillMaps
<1>2. CASE Next
  BY <1>2, TransactionMaps, DataMaps, BdatMaps, AcknowledgeMaps, OtherMaps DEF Next
<1> QED
  BY <1>1, <1>2

\* Where a message's files can be opened, written, closed, renamed and looked for, a
\* session is a MailTransaction: state_, msg_ and the envelope pass through the phases
\* in order, a message enters the Maildir from its content only and is followed by the
\* one 250 for it, or by the end.
THEOREM SessionKeepsMailPromise ==
  ASSUME Delivers
  PROVE  Spec => KeepsMailPromise
<1>1. Init => Mail!Init
  BY DEF Init, Mail!Init, TransactionPhase, StoredMessages, Ended
<1>2. WInv /\ [Next]_vars => [Mail!Next]_(Mail!vars)
  BY NextMaps
<1>3. Spools
  BY DEF Delivers
<1>4. Spec => []WInv
  BY <1>3, AlwaysWInv
<1> QED
  BY <1>1, <1>2, <1>4, PTL DEF Spec, KeepsMailPromise, Mail!Spec

-----------------------------------------------------------------------------
(***************************************************************************)
(* Between the octets of a command and the session: module CommandContext, *)
(* whose calls are the commands the session handles.                       *)
(***************************************************************************)


-----------------------------------------------------------------------------
(***************************************************************************)
(* Numbers, and functions defined by recursion over them.                  *)
(***************************************************************************)
\* A set of numbers that is not empty has a least one.
LEMMA Least ==
  ASSUME NEW S \in SUBSET Nat, NEW s \in S
  PROVE  \E m \in S : \A n \in S : m <= n
<1> DEFINE before == {p \in Nat \X Nat : p[1] < p[2]}
<1>1. IsWellFoundedOn(before, Nat)
  BY NatLessThanWellFounded DEF OpToRel
<1>2. PICK m \in S : \A n \in S : <<n, m>> \notin before
  <2> HIDE DEF before
  <2> QED
    BY <1>1, WFMin
<1>3. ASSUME NEW n \in S PROVE m <= n
  <2>1. <<n, m>> \in Nat \X Nat /\ ~(n < m)
    BY <1>2
  <2> QED
    BY <2>1
<1> QED
  BY <1>3

\* A set that 0 is in, and n + 1 with each n, has all numbers.
LEMMA Induction ==
  ASSUME NEW P, 0 \in P, \A n \in Nat : n \in P => n + 1 \in P
  PROVE  \A n \in Nat : n \in P
<1> DEFINE S == {n \in Nat : n \notin P}
<1> SUFFICES ASSUME NEW s \in S PROVE FALSE
  OBVIOUS
<1>1. S \in SUBSET Nat
  OBVIOUS
<1> HIDE DEF S
<1>2. PICK m \in S : \A n \in S : m <= n
  BY <1>1, Least
<1>3. m \in Nat /\ m \notin P /\ m # 0
  BY <1>2 DEF S
<1>4. m - 1 \in Nat /\ m - 1 \notin S
  BY <1>2, <1>3
<1> QED
  BY <1>3, <1>4 DEF S

\* Functions F[1] to F[n] map S into S; g goes from a through them, one after the other.
Maps(F, n, S) == \A i \in 1 .. n, s \in S : F[i][s] \in S

Follows(g, a, F, n) == g[0] = a /\ \A i \in 1 .. n : g[i] = F[i][g[i - 1]]

\* There is such a g: what a recursive function over 0 .. n needs in order to be one.
LEMMA Recursion ==
  ASSUME NEW S, NEW a \in S, NEW n \in Nat, NEW F, Maps(F, n, S)
  PROVE  \E g \in [0 .. n -> S] : Follows(g, a, F, n)
<1> DEFINE Upto(m, g) == g[0] = a /\ \A i \in 1 .. m : g[i] = F[i][g[i - 1]]
           P == {m \in Nat : m <= n => \E g \in [0 .. m -> S] : Upto(m, g)}
<1>1. 0 \in P
  <2>1. [i \in 0 .. 0 |-> a] \in [0 .. 0 -> S] /\ Upto(0, [i \in 0 .. 0 |-> a])
    OBVIOUS
  <2> QED
    BY <2>1
<1>2. ASSUME NEW m \in Nat, m \in P PROVE m + 1 \in P
  <2> SUFFICES ASSUME m + 1 <= n PROVE \E g \in [0 .. m + 1 -> S] : Upto(m + 1, g)
    OBVIOUS
  <2>1. PICK g \in [0 .. m -> S] : Upto(m, g)
    BY <1>2
  <2> DEFINE h == [i \in 0 .. m + 1 |-> IF i <= m THEN g[i] ELSE F[m + 1][g[m]]]
  <2>2. h \in [0 .. m + 1 -> S]
    BY DEF Maps
  <2>3. Upto(m + 1, h)
    BY <2>1 DEF Maps
  <2> QED
    BY <2>2, <2>3
<1>3. n \in P
  <2> HIDE DEF P
  <2> QED
    BY <1>1, <1>2, Induction
<1> QED
  BY <1>3 DEF Follows

-----------------------------------------------------------------------------
(***************************************************************************)
(* The parameters of one command.                                          *)
(***************************************************************************)
\* What the parameters that were read have made of the context.
Reading ==
  [param : (Keywords \cup {Empty}) \X (Values \cup {Empty}),
   parameters : UNION {[K -> Values \cup {Empty}] : K \in SUBSET Keywords}]

\* One parameter: the actions leave no half of it behind, a keyword keeps the value it has, and a
\* new one gets the value that was written.
LEMMA EsmtpParamIs ==
  ASSUME NEW st \in Reading, NEW p \in Parameter
  PROVE  /\ EsmtpParam(st, p) \in Reading
         /\ EsmtpParam(st, p).param = <<Empty, Empty>>
         /\ DOMAIN EsmtpParam(st, p).parameters = DOMAIN st.parameters \cup {p[1]}
         /\ \A k \in DOMAIN st.parameters : EsmtpParam(st, p).parameters[k] = st.parameters[k]
         /\ p[1] \notin DOMAIN st.parameters =>
              EsmtpParam(st, p).parameters[p[1]] =
                IF p[2] = Empty THEN st.param[2] ELSE p[2]
<1>1. PICK K \in SUBSET Keywords : st.parameters \in [K -> Values \cup {Empty}]
  BY DEF Reading
<1>2. p[1] \in Keywords /\ p[2] \in Values \cup {Empty} /\ st.param[2] \in Values \cup {Empty}
  BY DEF Reading, Parameter
<1> DEFINE value == IF p[2] = Empty THEN st.param[2] ELSE p[2]
           grown == [k \in K \cup {p[1]} |-> IF k = p[1] THEN value ELSE st.parameters[k]]
<1>3. K \cup {p[1]} \in SUBSET Keywords /\ grown \in [K \cup {p[1]} -> Values \cup {Empty}]
  BY <1>1, <1>2
<1>4. EsmtpParam(st, p) =
        [param |-> <<Empty, Empty>>,
         parameters |-> IF p[1] \in K THEN st.parameters ELSE grown]
  BY <1>1 DEF EsmtpParam
<1>5. (IF p[1] \in K THEN st.parameters ELSE grown)
         \in UNION {[L -> Values \cup {Empty}] : L \in SUBSET Keywords}
  BY <1>1, <1>3
<1> QED
  BY <1>1, <1>4, <1>5 DEF Reading

\* The parameters of a command are taken one after the other.
LEMMA EsmtpParamsAre ==
  ASSUME NEW st \in Reading, NEW params \in Seq(Parameter)
  PROVE  \E g \in [0 .. Len(params) -> Reading] :
           /\ g[0] = st
           /\ \A i \in 1 .. Len(params) : g[i] = EsmtpParam(g[i - 1], params[i])
           /\ EsmtpParams(st, params) = g[Len(params)]
<1> DEFINE n == Len(params)
           F == [i \in 1 .. n |-> [s \in Reading |-> EsmtpParam(s, params[i])]]
           Is(g) == g = [i \in 0 .. n |-> IF i = 0 THEN st ELSE EsmtpParam(g[i - 1], params[i])]
<1>1. n \in Nat /\ \A i \in 1 .. n : params[i] \in Parameter
  OBVIOUS
<1>2. \A i \in 1 .. n, s \in Reading : F[i][s] = EsmtpParam(s, params[i]) /\ F[i][s] \in Reading
  BY <1>1, EsmtpParamIs
<1> HIDE DEF F, n
<1>3. PICK g \in [0 .. n -> Reading] : Follows(g, st, F, n)
  <2>1. Maps(F, n, Reading)
    BY <1>2 DEF Maps
  <2>2. n \in Nat
    BY <1>1
  <2> QED
    BY <2>1, <2>2, Recursion
<1>4. g[0] = st /\ \A i \in 1 .. n : g[i] = EsmtpParam(g[i - 1], params[i])
  BY <1>1, <1>2, <1>3 DEF Follows
<1>5. Is(g)
  BY <1>1, <1>3, <1>4
<1> DEFINE after == CHOOSE h : Is(h)
<1>6. Is(after)
  BY <1>5
<1>7. EsmtpParams(st, params) = after[n]
  BY DEF EsmtpParams, n
<1> HIDE DEF Is, after
<1>8. after = g
  <2> DEFINE P == {i \in Nat : i <= n => after[i] = g[i]}
  <2>1. 0 \in P
    BY <1>1, <1>5, <1>6 DEF Is
  <2>2. ASSUME NEW i \in Nat, i \in P PROVE i + 1 \in P
    BY <1>1, <1>5, <1>6, <2>2 DEF Is
  <2>3. \A i \in Nat : i \in P
    <3> HIDE DEF P
    <3> QED
      BY <2>1, <2>2, Induction
  <2>4. \A i \in 0 .. n : after[i] = g[i]
    BY <1>1, <2>3
  <2> QED
    BY <1>5, <1>6, <2>4 DEF Is
<1> QED
  BY <1>7, <1>8, <1>4 DEF n

\* The keywords of the first n parameters.
KeywordsOf(params, n) == {params[j][1] : j \in 1 .. n}

\* No parameter before it has its keyword.
First(params, j) == \A l \in 1 .. j - 1 : params[l][1] # params[j][1]

\* Read into an empty context, the parameters have each keyword once, with its first value.
LEMMA ParametersAreFirst ==
  ASSUME NEW params \in Seq(Parameter), NEW st,
         st = [param |-> <<Empty, Empty>>, parameters |-> NoParameters]
  PROVE  /\ DOMAIN EsmtpParams(st, params).parameters = KeywordsOf(params, Len(params))
         /\ \A j \in 1 .. Len(params) :
              First(params, j) => EsmtpParams(st, params).parameters[params[j][1]] = params[j][2]
<1> DEFINE n == Len(params)
<1>1. st \in Reading /\ DOMAIN st.parameters = {} /\ st.param = <<Empty, Empty>>
  <2>1. NoParameters \in [{} -> Values \cup {Empty}]
    BY DEF NoParameters
  <2>2. NoParameters \in UNION {[K -> Values \cup {Empty}] : K \in SUBSET Keywords}
    BY <2>1
  <2> QED
    BY <2>1, <2>2 DEF Reading
<1>2. PICK g \in [0 .. n -> Reading] :
        /\ g[0] = st
        /\ \A i \in 1 .. n : g[i] = EsmtpParam(g[i - 1], params[i])
        /\ EsmtpParams(st, params) = g[n]
  BY <1>1, EsmtpParamsAre
<1>3. n \in Nat /\ \A i \in 1 .. n : params[i] \in Parameter
  OBVIOUS
<1> HIDE DEF n
<1> DEFINE Clean(i) == g[i].param = <<Empty, Empty>>
           Known(i) == DOMAIN g[i].parameters = KeywordsOf(params, i)
           Firsts(i) == \A j \in 1 .. i : First(params, j) => g[i].parameters[params[j][1]] = params[j][2]
           P == {i \in Nat : i <= n => Clean(i) /\ Known(i) /\ Firsts(i)}
<1>4. 0 \in P
  BY <1>1, <1>2 DEF KeywordsOf
<1>5. ASSUME NEW i \in Nat, i \in P PROVE i + 1 \in P
  <2> SUFFICES ASSUME i + 1 <= n PROVE Clean(i + 1) /\ Known(i + 1) /\ Firsts(i + 1)
    OBVIOUS
  <2> DEFINE p == params[i + 1]
             before == g[i]
             after == g[i + 1]
  <2>1. before \in Reading /\ p \in Parameter /\ after = EsmtpParam(before, p)
    BY <1>2, <1>3
  <2>2. Clean(i) /\ Known(i) /\ Firsts(i)
    BY <1>3, <1>5
  <2> HIDE DEF before, after, p
  <2>3. /\ after.param = <<Empty, Empty>>
        /\ DOMAIN after.parameters = DOMAIN before.parameters \cup {p[1]}
        /\ \A k \in DOMAIN before.parameters : after.parameters[k] = before.parameters[k]
        /\ p[1] \notin DOMAIN before.parameters =>
             after.parameters[p[1]] = IF p[2] = Empty THEN before.param[2] ELSE p[2]
    BY <2>1, EsmtpParamIs
  <2>4. before.param[2] = Empty
    BY <2>2 DEF before
  <2>5. p[1] \notin DOMAIN before.parameters => after.parameters[p[1]] = p[2]
    BY <2>3, <2>4
  <2>6. KeywordsOf(params, i + 1) = KeywordsOf(params, i) \cup {p[1]}
    BY DEF KeywordsOf, p
  <2>7. \A j \in 1 .. i : params[j][1] \in KeywordsOf(params, i)
    BY DEF KeywordsOf
  <2>8. DOMAIN after.parameters = KeywordsOf(params, i + 1)
    BY <2>2, <2>3, <2>6 DEF before
  <2>9. ASSUME NEW j \in 1 .. i + 1, First(params, j)
        PROVE  after.parameters[params[j][1]] = params[j][2]
    <3>1. CASE j \in 1 .. i
      BY <2>2, <2>3, <2>7, <2>9, <3>1 DEF before
    <3>2. CASE j = i + 1
      <4>1. \A l \in 1 .. i : params[l][1] # p[1]
        <5>1. 1 .. j - 1 = 1 .. i
          BY <3>2
        <5>2. params[j][1] = p[1]
          BY <3>2 DEF p
        <5> QED
          BY <2>9, <5>1, <5>2 DEF First
      <4>2. p[1] \notin KeywordsOf(params, i)
        BY <4>1 DEF KeywordsOf
      <4> QED
        BY <2>2, <2>5, <3>2, <4>2 DEF before, p
    <3> QED
      BY <3>1, <3>2
  <2> QED
    BY <2>3, <2>8, <2>9 DEF after
<1>6. n \in P
  <2> HIDE DEF P
  <2> QED
    BY <1>3, <1>4, <1>5, Induction
<1>7. Known(n) /\ Firsts(n)
  BY <1>3, <1>6
<1> QED
  BY <1>2, <1>7 DEF n

\* Each keyword has a first parameter, whose value is what ParametersAsWritten asks for.
LEMMA FirstExists ==
  ASSUME NEW params \in Seq(Parameter), NEW k \in KeywordsOf(params, Len(params))
  PROVE  \E j \in 1 .. Len(params) :
           params[j][1] = k /\ First(params, j) /\ FirstValue(params, k) = params[j][2]
<1> DEFINE S == {j \in 1 .. Len(params) : params[j][1] = k}
<1>1. PICK s \in S : TRUE
  BY DEF KeywordsOf
<1>2. PICK m \in S : \A j \in S : m <= j
  <2>1. S \in SUBSET Nat
    OBVIOUS
  <2> HIDE DEF S
  <2> QED
    BY <1>1, <2>1, Least
<1>3. m \in 1 .. Len(params) /\ params[m][1] = k /\ \A j \in 1 .. m - 1 : params[j][1] # k
  BY <1>2
<1>4. DOMAIN params = 1 .. Len(params)
  OBVIOUS
<1> DEFINE Here(i) == i \in 1 .. Len(params) /\ params[i][1] = k /\ \A j \in 1 .. i - 1 : params[j][1] # k
<1>5. \A i : Here(i) => i = m
  BY <1>3
<1>6. (CHOOSE i \in DOMAIN params : params[i][1] = k /\ \A j \in 1 .. i - 1 : params[j][1] # k) = m
  BY <1>3, <1>4, <1>5
<1>7. FirstValue(params, k) = params[m][2]
  BY <1>6 DEF FirstValue
<1> QED
  BY <1>3, <1>7 DEF First

-----------------------------------------------------------------------------
(***************************************************************************)
(* The commands, one after the other.                                      *)
(***************************************************************************)
\* The context is empty, if no MAIL or RCPT was refused since the last one that was not.
EmptyContext ==
  ~leftover => mb_loc = Empty /\ mb_dom = Empty /\ parameters = NoParameters

\* Ctx::parameters is a map (of TypeOK it follows only what it maps).
Mapped == parameters \in UNION {[K -> Values \cup {Empty}] : K \in SUBSET Keywords}

\* The inductive invariant.
CInv == AsWritten /\ EmptyContext /\ Mapped

\* What a MAIL or RCPT is made of.
LEMMA EnvelopeIs ==
  ASSUME ContextAssumption, NEW c \in Envelopes
  PROVE  /\ c.verb \in {"MAIL", "RCPT"} /\ c.ends \in BOOLEAN
         /\ c.path.kind \in {"mailbox", "half", "null", "postmaster"}
         /\ c.path.loc \in Locals \cup {Empty} /\ c.path.dom \in Domains \cup {Empty}
         /\ c.params \in Seq(Parameter)
<1>1. \A n \in Nat : [1 .. n -> Parameter] \subseteq Seq(Parameter)
  OBVIOUS
<1>2. c.params \in Seq(Parameter)
  BY <1>1 DEF Envelopes, ParameterLists, ContextAssumption
<1> QED
  BY <1>2 DEF Envelopes, Paths

\* The parameters gathered are a map, none is half read, and in an empty context they are those
\* written, each with its first value.
LEMMA ParametersReadAre ==
  ASSUME ContextAssumption, CInv, NEW c \in Envelopes
  PROVE  /\ ParametersRead(c) \in Reading
         /\ ParametersRead(c).param = <<Empty, Empty>>
         /\ IsPath(c) /\ ~leftover =>
              ParametersRead(c).parameters =
                [k \in {c.params[i][1] : i \in DOMAIN c.params} |-> FirstValue(c.params, k)]
<1> DEFINE st == [param |-> param, parameters |-> parameters]
           params == IF IsPath(c) THEN c.params ELSE <<>>
<1>1. st \in Reading /\ st.param = <<Empty, Empty>>
  BY DEF CInv, Mapped, AsWritten, ContextTypeOK, NoHalfParameter, Reading
<1>2. params \in Seq(Parameter)
  BY EnvelopeIs
<1>3. ParametersRead(c) = EsmtpParams(st, params)
  BY DEF ParametersRead
<1> HIDE DEF st, params
<1>4. PICK g \in [0 .. Len(params) -> Reading] :
        /\ g[0] = st
        /\ \A i \in 1 .. Len(params) : g[i] = EsmtpParam(g[i - 1], params[i])
        /\ EsmtpParams(st, params) = g[Len(params)]
  BY <1>1, <1>2, EsmtpParamsAre
<1>5. Len(params) \in Nat /\ \A i \in 1 .. Len(params) : params[i] \in Parameter
  BY <1>2
<1>6. ParametersRead(c) \in Reading
  BY <1>3, <1>4, <1>5
<1>7. ParametersRead(c).param = <<Empty, Empty>>
  <2>1. CASE Len(params) = 0
    BY <1>1, <1>3, <1>4, <2>1
  <2>2. CASE Len(params) # 0
    <3>1. Len(params) - 1 \in 0 .. Len(params) /\ Len(params) \in 1 .. Len(params)
      BY <1>5, <2>2
    <3>2. g[Len(params) - 1] \in Reading /\ params[Len(params)] \in Parameter
      BY <1>5, <3>1
    <3> QED
      BY <1>3, <1>4, <3>1, <3>2, EsmtpParamIs
  <2> QED
    BY <2>1, <2>2
<1>8. ASSUME IsPath(c), ~leftover
      PROVE  ParametersRead(c).parameters =
               [k \in {c.params[i][1] : i \in DOMAIN c.params} |-> FirstValue(c.params, k)]
  <2>1. params = c.params /\ c.params \in Seq(Parameter)
    BY <1>8, EnvelopeIs DEF params
  <2>2. st = [param |-> <<Empty, Empty>>, parameters |-> NoParameters]
    BY <1>8 DEF st, CInv, EmptyContext, AsWritten, NoHalfParameter
  <2> DEFINE read == EsmtpParams(st, c.params).parameters
  <2>3. /\ DOMAIN read = KeywordsOf(c.params, Len(c.params))
        /\ \A j \in 1 .. Len(c.params) : First(c.params, j) => read[c.params[j][1]] = c.params[j][2]
    BY <2>1, <2>2, ParametersAreFirst
  <2>4. PICK K \in SUBSET Keywords : read \in [K -> Values \cup {Empty}]
    BY <1>3, <1>6, <2>1 DEF Reading
  <2>5. KeywordsOf(c.params, Len(c.params)) = {c.params[i][1] : i \in DOMAIN c.params}
    BY <2>1 DEF KeywordsOf
  <2>6. ParametersRead(c).parameters = read
    BY <1>3, <2>1
  <2> HIDE DEF read
  <2>7. \A k \in DOMAIN read : read[k] = FirstValue(c.params, k)
    BY <2>1, <2>3, FirstExists
  <2> QED
    BY <2>3, <2>4, <2>5, <2>6, <2>7
<1> QED
  BY <1>6, <1>7, <1>8

\* A new Ctx satisfies it.
LEMMA ContextStarts ==
  ASSUME ContextAssumption, ContextInit
  PROVE  CInv
<1>1. NoParameters \in [{} -> Values \cup {Empty}]
  BY DEF NoParameters
<1>2. Mapped
  BY <1>1 DEF Mapped, ContextInit
<1>3. ContextTypeOK
  <2>1. 0 \in -(MaxSize + 1) .. MaxSize
    BY DEF ContextAssumption
  <2>2. DOMAIN parameters = {}
    BY <1>1 DEF ContextInit
  <2> QED
    BY <2>1, <2>2 DEF ContextInit, ContextTypeOK
<1>4. written.verb = "none" /\ call.verb = "none"
  BY DEF ContextInit, Nothing
<1> QED
  BY <1>2, <1>3, <1>4 DEF CInv, EmptyContext, AsWritten, MailboxAsWritten, NullPathIsNull,
     NoHalfParameter, ParametersAsWritten, TransfersWhatWasWritten, Passed, ContextInit

\* A MAIL or RCPT that its rule takes preserves it: action<mail_from> and action<rcpt_to> clear the
\* context.
LEMMA AcceptStep ==
  ASSUME ContextAssumption, CInv, NEW c \in Envelopes, Accept(c), written' = c,
         fresh' = ~leftover, UNCHANGED <<chunk_size, ended>>
  PROVE  CInv'
<1>1. /\ c.verb \in {"MAIL", "RCPT"}
      /\ c.path.kind \in {"mailbox", "null", "postmaster"}
      /\ c.path.kind = "null" => c.verb = "MAIL"
      /\ c.path.kind = "postmaster" => c.verb = "RCPT"
  BY EnvelopeIs DEF Accept, IsPath
<1>2. /\ call'.verb = c.verb
      /\ call'.mailbox = <<LocalPart(c), NonLocalPart(c)>>
      /\ call'.parameters = ParametersRead(c).parameters
  BY DEF Accept
<1>3. MailboxAsWritten'
  BY <1>1, <1>2 DEF MailboxAsWritten, LocalPart, NonLocalPart
<1>4. NullPathIsNull'
  BY <1>1, <1>2 DEF NullPathIsNull, LocalPart, NonLocalPart, CInv, EmptyContext
<1>5. NoHalfParameter'
  BY ParametersReadAre DEF NoHalfParameter, Accept
<1>6. ParametersAsWritten'
  <2> DEFINE first == [k \in {c.params[i][1] : i \in DOMAIN c.params} |-> FirstValue(c.params, k)]
  <2>1. ~leftover => ParametersRead(c).parameters = first
    BY ParametersReadAre DEF Accept
  <2>2. ParametersAsWritten' <=> (Passed' /\ fresh' => call'.parameters = first)
    BY DEF ParametersAsWritten, FirstValue
  <2> HIDE DEF first
  <2> QED
    BY <1>2, <2>1, <2>2
<1>7. TransfersWhatWasWritten'
  BY <1>1, <1>2 DEF TransfersWhatWasWritten
<1>8. NoParameters \in [{} -> Values \cup {Empty}]
  BY DEF NoParameters
<1>9. Mapped'
  BY <1>8 DEF Mapped, Accept
<1>10. ContextTypeOK'
  BY <1>8, ParametersReadAre DEF ContextTypeOK, Accept, CInv, AsWritten, Reading
<1> QED
  BY <1>3, <1>4, <1>5, <1>6, <1>7, <1>9, <1>10
     DEF CInv, EmptyContext, AsWritten, Accept

\* One that is refused preserves it: what it leaves in the context is noted by leftover.
LEMMA RefuseStep ==
  ASSUME ContextAssumption, CInv, NEW c \in Envelopes, Refuse(c),
         written' = Nothing, fresh' = ~leftover, UNCHANGED <<chunk_size, ended>>
  PROVE  CInv'
<1>1. written'.verb = "none" /\ call'.verb = "unrecognized"
  BY DEF Refuse, Nothing
<1>2. NoHalfParameter'
  BY ParametersReadAre DEF NoHalfParameter, Refuse
<1>3. PICK K \in SUBSET Keywords : ParametersRead(c).parameters \in [K -> Values \cup {Empty}]
  BY ParametersReadAre DEF Reading
<1>4. Mapped'
  BY <1>3 DEF Mapped, Refuse
<1>5. mb_loc' \in Locals \cup {Empty, "Postmaster"} /\ mb_dom' \in Domains \cup {Empty}
  BY EnvelopeIs DEF Refuse, LocalPart, NonLocalPart, CInv, AsWritten, ContextTypeOK
<1>6. ContextTypeOK'
  BY <1>3, <1>5, ParametersReadAre DEF ContextTypeOK, Refuse, CInv, AsWritten, Reading
<1> QED
  BY <1>1, <1>2, <1>4, <1>6 DEF CInv, EmptyContext, AsWritten, Refuse, Passed,
     MailboxAsWritten, NullPathIsNull, ParametersAsWritten, TransfersWhatWasWritten

\* strtoull and the conversion to a streamsize change a number only into a negative one.
LEMMA SizeIs ==
  ASSUME ContextAssumption, NEW n \in Numbers
  PROVE  /\ ToStreamsize(n) \in -(MaxSize + 1) .. MaxSize
         /\ ToStreamsize(n) >= 0 => ToStreamsize(n) = n
BY DEF ToStreamsize, ContextAssumption

\* bdat and bdat_last preserve it.
LEMMA ChunkStep ==
  ASSUME ContextAssumption, CInv, BdatOrLast
  PROVE  CInv'
<1>1. PICK c \in Chunks :
        /\ chunk_size' = ToStreamsize(c.number)
        /\ IF c.ends
           THEN /\ call' = [verb |-> "BDAT", to_xfer |-> chunk_size', last |-> c.last]
                /\ ended' = (chunk_size' < 0)
                /\ written' = c
           ELSE /\ call' = [verb |-> "unrecognized"]
                /\ written' = Nothing
                /\ UNCHANGED ended
  BY DEF BdatOrLast
<1>2. c.number \in Numbers /\ c.verb = "BDAT" /\ c.ends \in BOOLEAN
  BY DEF Chunks
<1>3. chunk_size' \in -(MaxSize + 1) .. MaxSize /\ (chunk_size' >= 0 => chunk_size' = c.number)
  BY <1>1, <1>2, SizeIs
<1>4. written'.verb \notin {"MAIL", "RCPT"}
  BY <1>1, <1>2 DEF Nothing
<1>5. TransfersWhatWasWritten'
  BY <1>1, <1>2, <1>3 DEF TransfersWhatWasWritten, ContextAssumption
<1>6. ended' \in BOOLEAN
  <2>1. (chunk_size' < 0) \in BOOLEAN /\ ended \in BOOLEAN
    BY DEF CInv, AsWritten, ContextTypeOK
  <2> QED
    BY <1>1, <2>1
<1>7. ContextTypeOK'
  BY <1>3, <1>6 DEF BdatOrLast, CInv, AsWritten, ContextTypeOK
<1> QED
  BY <1>4, <1>5, <1>7 DEF CInv, EmptyContext, Mapped, AsWritten, BdatOrLast, Passed,
     MailboxAsWritten, NullPathIsNull, ParametersAsWritten, NoHalfParameter

\* The other commands leave the context alone.
LEMMA OtherCommandStep ==
  ASSUME CInv, OtherCommand
  PROVE  CInv'
<1>1. written'.verb = "none" /\ call'.verb = "other"
  BY DEF OtherCommand, Nothing
<1> QED
  BY <1>1 DEF CInv, EmptyContext, Mapped, AsWritten, OtherCommand, context, Passed,
     ContextTypeOK, MailboxAsWritten, NullPathIsNull, ParametersAsWritten,
     NoHalfParameter, TransfersWhatWasWritten

\* Whatever commands came before, and whatever they left in Ctx when their rule failed half way: a
\* mailbox, the parameters and the size of a chunk reach the session as they were written, and "<>"
\* and the parameters too unless a MAIL or RCPT was refused before.
THEOREM CommandReachesAsWritten == ContextSpec => []AsWritten
<1>1. ContextInit => CInv
  BY ContextAssumption, ContextStarts
<1>2. CInv /\ [ContextNext]_contextVars => CInv'
  <2> SUFFICES ASSUME CInv, [ContextNext]_contextVars PROVE CInv'
    OBVIOUS
  <2>1. CASE MailOrRcpt
    BY <2>1, ContextAssumption, AcceptStep, RefuseStep DEF MailOrRcpt
  <2>2. CASE BdatOrLast
    BY <2>2, ContextAssumption, ChunkStep
  <2>3. CASE OtherCommand
    BY <2>3, OtherCommandStep
  <2>4. CASE UNCHANGED contextVars
    BY <2>4 DEF contextVars, context, CInv, EmptyContext, Mapped, AsWritten, Passed,
       ContextTypeOK, MailboxAsWritten, NullPathIsNull, ParametersAsWritten,
       NoHalfParameter, TransfersWhatWasWritten
  <2> QED
    BY <2>1, <2>2, <2>3, <2>4 DEF ContextNext
<1>3. CInv => AsWritten
  BY DEF CInv
<1> QED
  BY <1>1, <1>2, <1>3, PTL DEF ContextSpec
=============================================================================
