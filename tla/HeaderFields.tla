----------------------------- MODULE HeaderFields -----------------------------
(***************************************************************************)
(* msg.cpp: how the fields of a message are read.  What the rules of the   *)
(* grammar have gathered in Ctx is not undone when the rule around them    *)
(* fails; the field is then read again, as an optional field.              *)
(*                                                                         *)
(* A field is a record: its name; good, whether the rule for the name      *)
(* matches; items, what the parts of that rule that did match gather       *)
(* (addresses, each named by its domain; message IDs; pairs of a key and a *)
(* value); result, the word that a Received-SPF begins with, or "refused"  *)
(* for a DKIM-Signature libopendkim does not take and for a Received-SPF   *)
(* that libspf2 refuses a part of or makes no result of; legible, whether  *)
(* it has no octet that the rule for optional fields refuses.              *)
(***************************************************************************)
EXTENDS Naturals, Sequences, SequencesExt

Absent == "absent"
Keys == {"client-ip", "helo", "envelope-from"}

\* fed: what DKIM was given; policy: what DMARC was told by a Received-SPF; asked: what
\* DMARC was asked about.
NoPolicy == [ip |-> Absent, domain |-> Absent, outcome |-> Absent]

Ctx ==
  [fed |-> <<>>, mbList |-> <<>>, fromList |-> <<>>, sender |-> Absent, kvList |-> <<>>,
   spfInfo |-> [key \in Keys |-> Absent], spfResult |-> "", id |-> "", messageId |-> "",
   errors |-> 0, policy |-> NoPolicy, asked |-> Absent, state |-> "reading"]

Header(ctx, field) == [ctx EXCEPT !.fed = Append(@, field)]
Abort(ctx) == [ctx EXCEPT !.state = "aborted"]

\* The map after each pair has been assigned.
Overlay(info, pairs) == FoldLeft(LAMBDA i, pair : [i EXCEPT ![pair[1]] = pair[2]], info, pairs)

\* What the parts of the rule that match do, whether the whole matches or not.
GatherMailboxes(ctx, field) == [ctx EXCEPT !.mbList = @ \o field.items]

GatherIds(ctx, field) == [ctx EXCEPT !.id = IF field.items = <<>> THEN @ ELSE Last(field.items)]

\* The pairs are never cleared: those of the fields before are assigned again.
GatherSpf(ctx, field) ==
  LET pairs == ctx.kvList \o field.items
  IN [ctx EXCEPT !.spfResult = field.result,
                 !.kvList = pairs,
                 !.spfInfo = IF field.items = <<>> THEN @ ELSE Overlay(@, pairs)]

Gather(ctx, field) ==
  CASE field.name \in {"From", "Sender", "To", "Resent-From"} -> GatherMailboxes(ctx, field)
    [] field.name \in {"Message-ID", "References"} -> GatherIds(ctx, field)
    [] field.name = "Received-SPF" -> GatherSpf(ctx, field)
    [] OTHER -> ctx

\* Wrong: addresses of a field that is no good are left for the next.
Optional_KeepsAddresses(ctx, field) ==
  [Header(ctx, field) EXCEPT !.errors = IF field.name \in {"Received", "X-Other"} THEN @ ELSE @ + 1]

\* Any other field, or one of these that is no good: an error, unless it is a Received
\* spelled so.
Optional(ctx, field) ==
  [Header(ctx, field) EXCEPT !.errors = IF field.name \in {"Received", "X-Other"} THEN @ ELSE @ + 1,
                             !.mbList = <<>>]

From(ctx, field) ==
  [Header(ctx, field) EXCEPT !.errors = IF ctx.fromList = <<>> THEN @ ELSE @ + 1,
                             !.fromList = ctx.mbList,
                             !.mbList = <<>>]

Sender(ctx, field) ==
  IF Len(ctx.mbList) # 1
    THEN Abort(ctx)
    ELSE [Header(ctx, field) EXCEPT !.errors = IF ctx.sender = Absent THEN @ ELSE @ + 1,
                                    !.sender = ctx.mbList[1],
                                    !.mbList = <<>>]

\* The fields of addresses that nothing is done with: Reply-To and the destinations,
Destination(ctx, field) == [Header(ctx, field) EXCEPT !.mbList = <<>>]

\* the same when resent,
Resent(ctx, field) == [Header(ctx, field) EXCEPT !.mbList = <<>>]

\* and Return-Path and Received.
Trace(ctx, field) == [Header(ctx, field) EXCEPT !.mbList = <<>>]

\* The fields that DKIM is given and nothing more: what they hold is read by nothing.
Informational(ctx, field) == Header(ctx, field)

\* The type, the parameters and the encoding of the content are kept, and read by nothing.
Content(ctx, field) == Header(ctx, field)

MessageId(ctx, field) == [Header(ctx, field) EXCEPT !.messageId = ctx.id]

DkimSignature(ctx, field) == IF field.result = "refused" THEN Abort(ctx) ELSE Header(ctx, field)

Outcome(result) ==
  CASE result = "none" -> "NONE"
    [] result = "temperror" -> "TMPFAIL"
    [] result \in {"fail", "permerror"} -> "FAIL"
    [] OTHER -> "PASS"

\* What operator[] does to a key that is not there.
Touch(info, key) == [info EXCEPT ![key] = IF @ = Absent THEN "" ELSE @]

\* What set_ip_str of the check made afresh takes for an address.
IsAddress(text) == text \notin {"", "no address"}

\* The check made afresh ends the program without a client-ip that is an address, and when
\* libspf2 fails; so does an envelope-from that is no address.  What is left begins a new
\* policy.
ReceivedSpf(ctx, field) ==
  LET info == Touch(Touch(ctx.spfInfo, "client-ip"), "helo")
      from == info["envelope-from"]
      dom == IF from = "<>" THEN info["helo"] ELSE from
      policy == [ip |-> info["client-ip"], domain |-> dom,
                 outcome |-> IF from = Absent THEN Absent ELSE Outcome(ctx.spfResult)]
  IN IF ~IsAddress(info["client-ip"]) \/ field.result = "refused" \/ from = "no address"
       THEN Abort(ctx)
       ELSE [ctx EXCEPT !.spfInfo = info, !.policy = policy, !.mbList = <<>>]

\* The rule for the name matches.
Act(ctx, field) ==
  CASE field.name = "From" -> From(ctx, field)
    [] field.name = "Sender" -> Sender(ctx, field)
    [] field.name = "To" -> Destination(ctx, field)
    [] field.name = "Resent-From" -> Resent(ctx, field)
    [] field.name \in {"Received", "received"} -> Trace(ctx, field)
    [] field.name = "Message-ID" -> MessageId(ctx, field)
    [] field.name = "Received-SPF" -> ReceivedSpf(ctx, field)
    [] field.name = "DKIM-Signature" -> DkimSignature(ctx, field)
    [] field.name \in {"Date", "Subject", "References"} -> Informational(ctx, field)
    [] field.name = "Content-Type" -> Content(ctx, field)

\* The next field is read; one that no rule takes ends the parse.
ReadField(ctx, field) ==
  LET gathered == Gather(ctx, field) IN
  CASE ctx.state # "reading" -> ctx
    [] ctx.state = "reading" /\ field.good -> Act(gathered, field)
    [] ctx.state = "reading" /\ ~field.good /\ field.legible -> Optional(gathered, field)
    [] OTHER -> [gathered EXCEPT !.state = "refused"]

\* The domain DMARC is asked about: with several authors and a sender, none is chosen.
Author(ctx) ==
  CASE ctx.fromList = <<>> -> Absent
    [] Len(ctx.fromList) = 1 -> ctx.fromList[1]
    [] OTHER -> IF ctx.sender = Absent THEN Absent ELSE ""

\* The whole header has been read.
Message(ctx) == IF ctx.state = "reading" THEN [ctx EXCEPT !.asked = Author(ctx), !.state = "read"] ELSE ctx

Parse(fields) == Message(FoldLeft(ReadField, Ctx, fields))
===============================================================================
