---------------------------- MODULE MaildirDelivery ----------------------------
(***************************************************************************)
(* What the reader of a Maildir may rely on, of everything that happens to *)
(* one message: it is out of sight while it grows, it grows by what its    *)
(* writer offers and never past its limit, it comes into sight in one step *)
(* and with all of its octets, and then it stays as it is.                 *)
(***************************************************************************)
EXTENDS Naturals

CONSTANT Limits    \* the limits a message may be begun with

VARIABLES
  where,     \* "nowhere", "spool" (out of sight), "new" (in sight)
  size,      \* octets taken
  limit      \* octets that may be taken

vars == <<where, size, limit>>

Init == where = "nowhere" /\ size = 0 /\ limit = 0

Begin ==
  /\ where = "nowhere" /\ where' = "spool"
  /\ limit' \in Limits
  /\ UNCHANGED size

Grow ==
  /\ where = "spool"
  /\ size' > size /\ size' <= limit
  /\ UNCHANGED <<where, limit>>

\* What there is becomes the first part of another file, not of this one.
SetAside ==
  /\ where = "spool"
  /\ size' = 0
  /\ where' \in {"spool", "nowhere"}
  /\ UNCHANGED limit

Publish == where = "spool" /\ where' = "new" /\ UNCHANGED <<size, limit>>

Discard == where = "spool" /\ where' = "nowhere" /\ UNCHANGED <<size, limit>>

Next == Begin \/ Grow \/ SetAside \/ Publish \/ Discard

Spec == Init /\ [][Next]_vars
=============================================================================
