---------------------------- MODULE CommandContext ----------------------------
(***************************************************************************)
(* What smtp.cpp keeps between the octets of a command and the call to the *)
(* session: struct Ctx, filled in by the actions of the command grammar.   *)
(* The grammar tries its rules one after the other, and an action runs as  *)
(* soon as its part has matched: when the rule fails further on, what the  *)
(* action has left in Ctx stays, and the line is then taken by the rule    *)
(* for bogus commands.                                                     *)
(* SessionProofs extends this module beside Session, so what a module      *)
(* calls Init, Next and so on bears the context's name here.               *)
(***************************************************************************)
EXTENDS Integers, Sequences

CONSTANTS
  Locals,     \* local parts
  Domains,    \* domains
  Keywords,   \* keywords of parameters
  Values,     \* their values
  Numbers,    \* what may be written as the size of a chunk
  MaxSize,    \* the greatest streamsize (2^63 - 1)
  MaxParams   \* bound: parameters of a command

ASSUME ContextAssumption ==
  /\ Numbers \subseteq Nat
  /\ MaxSize \in Nat
  /\ MaxParams \in Nat

Empty == ""

ASSUME EmptyAssumption == Empty \notin Locals \cup Domains \cup Keywords \cup Values

VARIABLES
  mb_loc,      \* Ctx::mb_loc
  mb_dom,      \* Ctx::mb_dom
  param,       \* Ctx::param
  parameters,  \* Ctx::parameters: the keywords that have a value
  chunk_size,  \* Ctx::chunk_size
  call,        \* the call made to the session by the last command
  ended,       \* bdat_act has thrown, and main has left the grammar
  written,     \* history: the last command, if it was not refused
  leftover,    \* history: a MAIL or RCPT was refused since the last one that was not
  fresh        \* history: there was no such when the last command came

context == <<mb_loc, mb_dom, param, parameters, chunk_size>>
contextVars == <<context, call, ended, written, leftover, fresh>>

NoParameters == [k \in {} |-> Empty]

\* What is written between the angle brackets: a mailbox, a mailbox that breaks off after
\* its local part, nothing, "<Postmaster>".
Paths ==
  [kind : {"mailbox"}, loc : Locals, dom : Domains]
    \cup [kind : {"half"}, loc : Locals, dom : {Empty}]
    \cup [kind : {"null", "postmaster"}, loc : {Empty}, dom : {Empty}]

\* A parameter: its keyword, and its value or Empty.
Parameter == Keywords \X (Values \cup {Empty})

ParameterLists == UNION {[1 .. n -> Parameter] : n \in 0 .. MaxParams}

\* A command, and whether its line ends where the rule wants its CRLF.
Envelopes == [verb : {"MAIL", "RCPT"}, path : Paths, params : ParameterLists, ends : BOOLEAN]

Chunks == [verb : {"BDAT"}, number : Numbers, last : BOOLEAN, ends : BOOLEAN]

Nothing == [verb |-> "none"]

ContextInit ==
  /\ mb_loc = Empty /\ mb_dom = Empty
  /\ param = <<Empty, Empty>>
  /\ parameters = NoParameters
  /\ chunk_size = 0     \* not initialised; a BDAT sets it before it is read
  /\ call = Nothing /\ ended = FALSE
  /\ written = Nothing /\ leftover = FALSE /\ fresh = TRUE
-------------------------------------------------------------------------------
(* The rules mail_from and rcpt_to, part by part. *)

\* reverse_path and forward_path.
IsPath(c) ==
  c.path.kind \in (IF c.verb = "MAIL" THEN {"mailbox", "null"} ELSE {"mailbox", "postmaster"})

\* action<local_part>, action<magic_postmaster>; for MAIL, "Postmaster" is the local part of
\* a mailbox that breaks off.
LocalPart(c) ==
  CASE c.path.kind = "null" -> mb_loc
    [] c.path.kind = "postmaster" -> "Postmaster"
    [] OTHER -> c.path.loc

\* action<non_local_part>, action<magic_postmaster>.
NonLocalPart(c) ==
  CASE c.path.kind = "mailbox" -> c.path.dom
    [] c.path.kind = "postmaster" /\ c.verb = "RCPT" -> Empty
    [] OTHER -> mb_dom

\* One parameter: action<esmtp_keyword>, action<esmtp_value>, action<esmtp_param>; the
\* first value of a keyword is kept.  The state is param and parameters.
EsmtpParam(st, p) ==
  LET pair == <<p[1], IF p[2] = Empty THEN st.param[2] ELSE p[2]>>
  IN [param |-> <<Empty, Empty>>,
      parameters |-> IF pair[1] \in DOMAIN st.parameters THEN st.parameters
                     ELSE [k \in DOMAIN st.parameters \cup {pair[1]} |->
                            IF k = pair[1] THEN pair[2] ELSE st.parameters[k]]]

\* One after the other.
EsmtpParams(st, params) ==
  LET after[n \in 0 .. Len(params)] ==
        IF n = 0 THEN st ELSE EsmtpParam(after[n - 1], params[n])
  IN after[Len(params)]

\* The parameters are read if the path before them is one.
ParametersRead(c) ==
  EsmtpParams([param |-> param, parameters |-> parameters], IF IsPath(c) THEN c.params ELSE <<>>)

\* Wrong: the parameters are not cleared.
Accept_KeepsParameters(c) ==
  /\ c.ends /\ IsPath(c)
  /\ call' = [verb |-> c.verb, mailbox |-> <<LocalPart(c), NonLocalPart(c)>>,
              parameters |-> ParametersRead(c).parameters]
  /\ mb_loc' = Empty
  /\ mb_dom' = Empty
  /\ param' = ParametersRead(c).param
  /\ parameters' = ParametersRead(c).parameters
  /\ leftover' = FALSE

\* action<mail_from>, action<rcpt_to>: the call, and a clean context.
Accept(c) ==
  /\ c.ends /\ IsPath(c)
  /\ call' = [verb |-> c.verb, mailbox |-> <<LocalPart(c), NonLocalPart(c)>>,
              parameters |-> ParametersRead(c).parameters]
  /\ mb_loc' = Empty
  /\ mb_dom' = Empty
  /\ param' = ParametersRead(c).param
  /\ parameters' = NoParameters
  /\ leftover' = FALSE

\* The rule fails, and bogus_cmd_long takes the line.
Refuse(c) ==
  /\ ~(c.ends /\ IsPath(c))
  /\ call' = [verb |-> "unrecognized"]
  /\ mb_loc' = LocalPart(c)
  /\ mb_dom' = NonLocalPart(c)
  /\ param' = ParametersRead(c).param
  /\ parameters' = ParametersRead(c).parameters
  /\ leftover' = TRUE

MailOrRcpt ==
  /\ ~ended
  /\ \E c \in Envelopes : \/ Accept(c) /\ written' = c
                          \/ Refuse(c) /\ written' = Nothing
  /\ fresh' = ~leftover
  /\ UNCHANGED <<chunk_size, ended>>
-------------------------------------------------------------------------------
(* The rules bdat and bdat_last. *)

\* strtoull, which stops at the greatest number there is, and the conversion to a streamsize.
ToStreamsize(n) ==
  LET max == (2 * MaxSize) + 1
      u == IF n > max THEN max ELSE n
  IN IF u > MaxSize THEN u - (max + 1) ELSE u

\* The buffer of bdat_act is as long as the chunk at most; a negative length throws.
BdatOrLast ==
  /\ ~ended
  /\ \E c \in Chunks :
       /\ chunk_size' = ToStreamsize(c.number)
       /\ IF c.ends
          THEN /\ call' = [verb |-> "BDAT", to_xfer |-> chunk_size', last |-> c.last]
               /\ ended' = (chunk_size' < 0)
               /\ written' = c
          ELSE /\ call' = [verb |-> "unrecognized"]
               /\ written' = Nothing
               /\ UNCHANGED ended
  /\ UNCHANGED <<mb_loc, mb_dom, param, parameters, leftover, fresh>>

\* The other commands leave the context alone, RSET too.
OtherCommand ==
  /\ ~ended
  /\ call' = [verb |-> "other"]
  /\ written' = Nothing
  /\ UNCHANGED <<context, ended, leftover, fresh>>

ContextNext == MailOrRcpt \/ BdatOrLast \/ OtherCommand

ContextSpec == ContextInit /\ [][ContextNext]_contextVars
-------------------------------------------------------------------------------
(* Properties *)

Passed == written.verb \in {"MAIL", "RCPT"} /\ call.verb = written.verb

\* Type correctness of Ctx.
ContextTypeOK ==
  /\ mb_loc \in Locals \cup {Empty, "Postmaster"}
  /\ mb_dom \in Domains \cup {Empty}
  /\ param \in (Keywords \cup {Empty}) \X (Values \cup {Empty})
  /\ DOMAIN parameters \subseteq Keywords
  /\ \A k \in DOMAIN parameters : parameters[k] \in Values \cup {Empty}
  /\ chunk_size \in -(MaxSize + 1) .. MaxSize
  /\ {ended, leftover, fresh} \subseteq BOOLEAN

\* A mailbox reaches the session as it was written, whatever the commands before it left
\* behind: a mailbox that breaks off, parameters, the mailbox of a line refused.
MailboxAsWritten ==
  Passed =>
    /\ written.path.kind = "mailbox" => call.mailbox = <<written.path.loc, written.path.dom>>
    /\ written.path.kind = "postmaster" => call.mailbox = <<"Postmaster", Empty>>

\* "<>" reaches the session as no mailbox, if no MAIL or RCPT was refused since the last one
\* that was not.  (After one that was, "<>" stands for what that one left in Ctx.)
NullPathIsNull ==
  (Passed /\ written.path.kind = "null" /\ fresh) => call.mailbox = <<Empty, Empty>>

\* Between two commands there is no parameter half read: one without a value never takes
\* the value of another.
NoHalfParameter == param = <<Empty, Empty>>

\* The value of the first parameter of that keyword.
FirstValue(params, k) ==
  params[CHOOSE i \in DOMAIN params : params[i][1] = k /\ \A j \in 1 .. i - 1 : params[j][1] # k][2]

\* The parameters that reach the session are those written, each with its first value; again
\* if no MAIL or RCPT was refused before.
ParametersAsWritten ==
  (Passed /\ fresh) =>
    call.parameters = [k \in {written.params[i][1] : i \in DOMAIN written.params} |->
                         FirstValue(written.params, k)]

\* What the transfer of a chunk sets out to read is the number that was written: a greater
\* one than a streamsize holds ends the connection before an octet is read.
TransfersWhatWasWritten ==
  call.verb = "BDAT" /\ ~ended => call.to_xfer = written.number

\* In a state of the right types, each command reaches the session as it was written.
AsWritten ==
  /\ ContextTypeOK
  /\ MailboxAsWritten /\ NullPathIsNull
  /\ NoHalfParameter /\ ParametersAsWritten
  /\ TransfersWhatWasWritten
===============================================================================
