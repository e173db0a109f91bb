---------------------------- MODULE MailTransaction ----------------------------
(***************************************************************************)
(* What a client may rely on, of everything an SMTP server does: mail is   *)
(* taken one transaction at a time, a transaction has a sender before it   *)
(* has a recipient and a recipient before it has content, and a message    *)
(* counts as taken only once all of it is stored.  Between storing it and  *)
(* saying so the server may end: then the client tries again and the       *)
(* message is stored twice, but none is ever lost.                         *)
(***************************************************************************)
EXTENDS Naturals

VARIABLES
  phase,     \* "idle", "sender", "recipients", "content", "stored" or "over"
  stored,    \* messages stored so far
  acked      \* messages the client has been told are stored

vars == <<phase, stored, acked>>

Init == phase = "idle" /\ stored = 0 /\ acked = 0

Advance(from, to) == phase' = to /\ phase = from /\ UNCHANGED <<stored, acked>>

Sender == Advance("idle", "sender")

Recipient == Advance("sender", "recipients")

Content == Advance("recipients", "content")

Store ==
  /\ phase' = "stored" /\ phase = "content"
  /\ stored' = stored + 1 /\ UNCHANGED acked

Acknowledge ==
  /\ phase' = "idle" /\ phase = "stored"
  /\ acked' = acked + 1 /\ UNCHANGED stored

\* Whatever was gathered is given up: a refusal, RSET, HELO, STARTTLS, an error.
Forget ==
  /\ phase' = "idle"
  /\ phase \in {"sender", "recipients", "content"}
  /\ UNCHANGED <<stored, acked>>

End ==
  /\ phase' = "over"
  /\ UNCHANGED <<stored, acked>>

Next == Sender \/ Recipient \/ Content \/ Store \/ Acknowledge \/ Forget \/ End

Spec == Init /\ [][Next]_vars
=============================================================================
