--------------------------- MODULE MessageStoreOps ---------------------------
(***************************************************************************)
(* The methods of class MessageStore (src/MessageStore.cpp) as functions   *)
(* of the object they are called on.  A method returns the set of its      *)
(* possible outcomes: the object afterwards and whether it threw.  Callers *)
(* sequence methods with nested \E, so that "deliver(); close();" is one   *)
(* atomic handler in the module that calls it.                             *)
(*                                                                         *)
(* An octet count is a number of units; the unit is chosen by the model.   *)
(* Of a file only what a reader of the Maildir can tell is kept: it does   *)
(* not exist, it holds every octet accepted since it was opened, or it     *)
(* lost some.                                                              *)
(***************************************************************************)
EXTENDS Integers

CONSTANT
  Faults    \* the system calls that may fail, a subset of FaultKinds

FaultKinds == {"open", "write", "close", "rename", "exists", "remove", "map"}

ASSUME FaultsAssumption == Faults \subseteq FaultKinds

\* tmpfn_, tmp2fn_ and newfn_ as found on disk.
FileContent == {"none", "whole", "short"}

Store == [open      : BOOLEAN,       \* ofs_.is_open()
          size      : Nat,           \* size_
          max       : Nat,           \* max_size_
          sizeError : BOOLEAN,       \* size_error_
          mapped    : BOOLEAN,       \* mapping_.is_open()
          tmp       : FileContent,   \* tmpfn_
          tmp2      : FileContent,   \* tmp2fn_
          new       : FileContent]   \* newfn_

\* A default-constructed MessageStore, its (unique) file names unused.
Fresh == [open |-> FALSE, size |-> 0, max |-> 0, sizeError |-> FALSE,
          mapped |-> FALSE, tmp |-> "none", tmp2 |-> "none", new |-> "none"]

Outcome == [m : Store, threw : BOOLEAN]

Returns(m) == [m |-> m, threw |-> FALSE]
Throws(m)  == [m |-> m, threw |-> TRUE]

\* Outcomes that are possible only under a condition.
When(condition, outcomes) == IF condition THEN outcomes ELSE {}
-----------------------------------------------------------------------------
\* Wrong: the size starts at -1, for "not known".
Open_SizeUnknown(m, limit) ==
  {Returns([m EXCEPT !.open = TRUE, !.tmp = "whole", !.max = limit, !.size = 0 - 1])}

\* Called once per object; max_size_ and size_ are set only if the open succeeds.
Open(m, limit) ==
  {Returns([m EXCEPT !.open = TRUE, !.tmp = "whole", !.max = limit, !.size = 0])}
    \cup When("open" \in Faults, {Throws(m)})

\* The stream takes octets: it is open and no earlier write to it failed.
Sound(m) == m.open /\ m.tmp = "whole"

\* Wrong: a write that fits is taken even if an earlier one was refused.
Write_NotSticky(m, n) ==
  IF m.size + n <= m.max THEN {Returns([m EXCEPT !.size = m.size + n])}
  ELSE {Returns([m EXCEPT !.sizeError = TRUE])}

\* Wrong: the octets are written but not counted.
Write_NotCounted(m, n) ==
  IF ~m.sizeError /\ m.size + n <= m.max THEN {Returns(m)}
  ELSE {Returns([m EXCEPT !.sizeError = TRUE])}

\* size_ is advanced before the octets are handed to the stream.
Write(m, n) ==
  LET grown == [m EXCEPT !.size = m.size + n]
  IN  IF ~m.sizeError /\ m.size + n <= m.max
      THEN When(Sound(m), {Returns(grown)})
             \cup When("write" \in Faults /\ Sound(m), {Throws([grown EXCEPT !.tmp = "short"])})
             \cup When(~Sound(m), {Throws(grown)})
      ELSE {Returns([m EXCEPT !.sizeError = TRUE])}

\* Flushing what is buffered may fail; the exception is logged and swallowed.
TryClose(m) ==
  {[m EXCEPT !.open = FALSE]}
    \cup When(m.open /\ "close" \in Faults, {[m EXCEPT !.open = FALSE, !.tmp = "short"]})

\* Wrong: a hard link is made and tmpfn_ stays.
Rename_Links(m, field) == {[m EXCEPT ![field] = m.tmp]}

\* rename(tmpfn_, field, ec): an error is only logged.
Rename(m, field) ==
  When(m.tmp # "none", {[m EXCEPT ![field] = m.tmp, !.tmp = "none"]})
    \cup When(m.tmp = "none" \/ "rename" \in Faults, {m})

\* fs::exists(p) with no error_code: any stat(2) error but "not found" throws.
Exists(m) == {Returns(m)} \cup When("exists" \in Faults, {Throws(m)})

\* Wrong: the stream is closed only after the file is in new/, and what close()
\* still had to write may be missing.
Deliver_ThenClose(m) ==
  UNION {Exists([r EXCEPT !.open = FALSE, !.new = IF @ = "whole" THEN "short" ELSE @]) :
           r \in Rename(m, "new")}

Deliver(m) == UNION {Exists(r) : r \in UNION {Rename(c, "new") : c \in TryClose(m)}}

\* fs::remove(p, ec): an error is only logged.
Remove(m, field) ==
  {[m EXCEPT ![field] = "none"]} \cup When("remove" \in Faults, {m})

\* Wrong: tmp2fn_ is forgotten.
Close_ForgetsTmp2(m) ==
  {Returns([c EXCEPT !.mapped = FALSE, !.tmp = "none"]) : c \in TryClose(m)}

\* close(), which is also trash().
Close(m) ==
  LET Tmp2AndMapping(r) == {Returns([s EXCEPT !.mapped = FALSE]) : s \in Remove(r, "tmp2")}
  IN  UNION {When("exists" \in Faults, {Throws(r)}) \cup Tmp2AndMapping(r) :
               r \in UNION {Remove(c, "tmp") : c \in TryClose(m)}}

\* freeze(): keep what was written as tmp2, map it, and start a new tmp.  The
\* program as built never calls it: the call in do_deliver_ is commented out.
Reopen(m) ==
  {Returns([m EXCEPT !.open = TRUE, !.tmp = "whole"])}
    \cup When("open" \in Faults, {Throws(m)})

MapTmp2(m) ==
  When(m.tmp2 # "none" /\ ~m.mapped, {Returns([m EXCEPT !.mapped = TRUE, !.size = 0])})
    \cup When(m.tmp2 = "none" \/ m.mapped \/ "map" \in Faults, {Throws(m)})

Freeze(m) ==
  LET reopened == UNION {Reopen(r) : r \in UNION {Rename(c, "tmp2") : c \in TryClose(m)}}
  IN  When("exists" \in Faults, {Throws(c) : c \in TryClose(m)})
        \cup UNION {IF o.threw THEN {o} ELSE MapTmp2(o.m) : o \in reopened}
=============================================================================
