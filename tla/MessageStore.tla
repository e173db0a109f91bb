----------------------------- MODULE MessageStore -----------------------------
(***************************************************************************)
(* The life of one MessageStore object: opened, written to, then delivered *)
(* and closed or trashed, in any order of calls its interface allows, with *)
(* system calls failing and the process dying at any moment.               *)
(***************************************************************************)
EXTENDS MessageStoreOps

CONSTANTS
  Limits,        \* values of open()'s max_size
  Counts,        \* values of write()'s count
  MaxOffered     \* bound on the octets offered to write(), not in the code

ASSUME LimitsAssumption  == Limits \subseteq Nat
ASSUME CountsAssumption  == Counts \subseteq Nat
ASSUME OfferedAssumption == MaxOffered \in Nat

VARIABLES
  store,     \* the object and its files
  phase,     \* what the owner may call next
  offered    \* the octets offered to write() so far

vars == <<store, phase, offered>>

Phases == {"constructed",   \* open() not called yet
           "spooling",      \* open, every write so far returned
           "failed",        \* a call threw: the owner may only trash it
           "delivered",     \* deliver() returned
           "closed",        \* close() or trash() returned
           "dead"}          \* the process died

TypeOK ==
  /\ store \in Store
  /\ phase \in Phases
  /\ offered \in Nat

Init ==
  /\ store = Fresh
  /\ phase = "constructed"
  /\ offered = 0

\* The object takes one of a call's outcomes and, unless it threw, its owner
\* moves to the phase named.
Call(outcomes, next) ==
  \E o \in outcomes :
    /\ store' = o.m
    /\ phase' = IF o.threw THEN "failed" ELSE next

OpenStore ==
  /\ phase = "constructed"
  /\ \E limit \in Limits : Call(Open(store, limit), "spooling")
  /\ UNCHANGED offered

WriteStore ==
  /\ phase = "spooling"
  /\ \E n \in Counts :
       /\ offered + n <= MaxOffered
       /\ offered' = offered + n
       /\ Call(Write(store, n), "spooling")

FreezeStore ==
  /\ phase = "spooling"
  /\ store.tmp2 = "none"
  /\ Call(Freeze(store), "spooling")
  /\ UNCHANGED offered

\* The callers test size_error() first (Session.cpp:1207, 1319).
DeliverStore ==
  /\ phase = "spooling"
  /\ ~store.sizeError
  /\ Call(Deliver(store), "delivered")
  /\ UNCHANGED offered

CloseStore ==
  /\ phase \in {"spooling", "failed", "delivered"}
  /\ Call(Close(store), "closed")
  /\ UNCHANGED offered

\* The process exits without close(): what was buffered may be lost, and the
\* destructors remove no file.
Die ==
  /\ phase \notin {"closed", "dead"}
  /\ phase' = "dead"
  /\ store' \in {[store EXCEPT !.open = FALSE, !.mapped = FALSE],
                 [store EXCEPT !.open = FALSE, !.mapped = FALSE,
                               !.tmp = IF store.open THEN "short" ELSE @]}
  /\ UNCHANGED offered

Next ==
  \/ OpenStore
  \/ WriteStore
  \/ FreezeStore
  \/ DeliverStore
  \/ CloseStore
  \/ Die

Spec == Init /\ [][Next]_vars
-----------------------------------------------------------------------------
\* MessageStore::write counts before it writes: whatever was offered and in
\* whatever pieces, the octets accepted never exceed the limit given to open().
SizeWithinLimit == store.size <= store.max

\* What is spooled is a prefix of what was offered: while no write has been
\* refused every octet offered since open() (or freeze()) is counted, ...
NothingSkipped ==
  (phase = "spooling" /\ ~store.sizeError /\ store.tmp2 = "none") => store.size = offered

\* ... and once one has been refused no later, smaller one is accepted, so the
\* file never has a hole in it (size_error_ is never cleared).
NoHole == [][store.sizeError => store'.sizeError /\ store'.size <= store.size]_vars

\* A file that has reached new/ stays there as it is: neither close(), a
\* failed call nor the death of the process takes back a delivery.
DeliveryIsFinal == [][store.new # "none" => store'.new = store.new]_vars

\* A message is spooled in tmp/ or visible in new/, never in both, so a reader
\* of the Maildir sees it at most once.
OneVisibleCopy == ~(store.tmp # "none" /\ store.new # "none")

\* Unless closing the stream can fail, a file in new/ holds every octet.
DeliveredIsWhole == "close" \notin Faults => store.new # "short"

\* The object keeps the promises of MaildirDelivery: what is written stays out of
\* sight until deliver() renames it, then all of it is seen at once and for good;
\* a "torn" file in new/ is not a state that specification knows.
Where ==
  CASE store.new = "whole" -> "new"
    [] store.new = "short" -> "torn"
    [] store.new = "none"  -> IF store.tmp = "none" THEN "nowhere" ELSE "spool"

Delivery == INSTANCE MaildirDelivery
  WITH where <- Where, size <- store.size, limit <- store.max

KeepsMaildirPromise == Delivery!Spec

\* close() leaves nothing in tmp/ unless removing a file can fail.
NothingLeftInTmp ==
  (phase = "closed" /\ "remove" \notin Faults) => store.tmp = "none" /\ store.tmp2 = "none"
=============================================================================
