-------------------------- MODULE MessageStoreProofs --------------------------
(***************************************************************************)
(* What holds in the life of every MessageStore, for all limits, writes    *)
(* and failing system calls, and wherever the process dies.                *)
(***************************************************************************)
EXTENDS MessageStore, MessageStoreOpsProofs

(***************************************************************************)
(* The inductive invariant.  The properties about new/ need to know that   *)
(* nothing is there before deliver(), and that a file about to be renamed  *)
(* is there and whole; the limit needs nothing but the types.              *)
(***************************************************************************)
NotYetDelivered == phase \in {"constructed", "spooling"} => store.new = "none"

SpoolIsSound == phase = "spooling" => Sound(store)

IInv == TypeOK /\ SizeWithinLimit /\ NotYetDelivered /\ SpoolIsSound /\ DeliveredIsWhole

\* A new object satisfies it.
LEMMA InitIInv == Init => IInv
  BY FreshType DEF Init, IInv, TypeOK, SizeWithinLimit, NotYetDelivered, SpoolIsSound,
                   DeliveredIsWhole, Phases, Fresh

\* Every call, whatever fails in it, and the death of the process keep it.
LEMMA NextIInv == IInv /\ [Next]_vars => IInv'
<1> USE DEF IInv, TypeOK, SizeWithinLimit, NotYetDelivered, SpoolIsSound, DeliveredIsWhole
<1> SUFFICES ASSUME IInv, [Next]_vars PROVE IInv'
  OBVIOUS
<1>1. CASE OpenStore
  <2>1. PICK limit \in Limits : Call(Open(store, limit), "spooling")
    BY <1>1 DEF OpenStore
  <2>2. PICK o \in Open(store, limit) :
          store' = o.m /\ phase' = IF o.threw THEN "failed" ELSE "spooling"
    BY <2>1 DEF Call
  <2>3. phase = "constructed" /\ offered' = offered /\ limit \in Nat
    BY <1>1, LimitsAssumption DEF OpenStore
  <2> QED
    BY <2>2, <2>3, OpenOutcome DEF Outcome, Store, Phases, FileContent
<1>2. CASE WriteStore
  <2>1. PICK n \in Counts : offered' = offered + n /\ Call(Write(store, n), "spooling")
    BY <1>2 DEF WriteStore
  <2>2. PICK o \in Write(store, n) :
          store' = o.m /\ phase' = IF o.threw THEN "failed" ELSE "spooling"
    BY <2>1 DEF Call
  <2>3. phase = "spooling" /\ n \in Nat
    BY <1>2, CountsAssumption DEF WriteStore
  <2>4. offered' \in Nat
    BY <2>1, <2>3
  <2> QED
    BY <2>2, <2>3, <2>4, WriteOutcome DEF Outcome, Store, Phases, Sound
<1>3. CASE FreezeStore
  <2>1. PICK o \in Freeze(store) :
          store' = o.m /\ phase' = IF o.threw THEN "failed" ELSE "spooling"
    BY <1>3 DEF FreezeStore, Call
  <2>2. phase = "spooling" /\ offered' = offered
    BY <1>3 DEF FreezeStore
  <2> QED
    BY <2>1, <2>2, FreezeOutcome DEF Outcome, Store, Phases, Sound
<1>4. CASE DeliverStore
  <2>1. PICK o \in Deliver(store) :
          store' = o.m /\ phase' = IF o.threw THEN "failed" ELSE "delivered"
    BY <1>4 DEF DeliverStore, Call
  <2>2. phase = "spooling" /\ offered' = offered
    BY <1>4 DEF DeliverStore
  <2>3. store.new = "none" /\ store.tmp = "whole"
    BY <2>2 DEF Sound
  <2> QED
    BY <2>1, <2>2, <2>3, DeliverOutcome DEF Outcome, Store, Phases
<1>5. CASE CloseStore
  <2>1. PICK o \in Close(store) :
          store' = o.m /\ phase' = IF o.threw THEN "failed" ELSE "closed"
    BY <1>5 DEF CloseStore, Call
  <2>2. offered' = offered
    BY <1>5 DEF CloseStore
  <2> QED
    BY <2>1, <2>2, CloseOutcome DEF Outcome, Store, Phases
<1>6. CASE Die
  <2>1. /\ store' \in Store
        /\ store'.new = store.new /\ store'.size = store.size /\ store'.max = store.max
    <3>1. store' \in {[store EXCEPT !.open = FALSE, !.mapped = FALSE],
                      [store EXCEPT !.open = FALSE, !.mapped = FALSE,
                                    !.tmp = IF store.open THEN "short" ELSE @]}
      BY <1>6 DEF Die
    <3>2. CASE store' = [store EXCEPT !.open = FALSE, !.mapped = FALSE]
      BY <3>2 DEF Store
    <3>3. CASE store' = [store EXCEPT !.open = FALSE, !.mapped = FALSE,
                                      !.tmp = IF store.open THEN "short" ELSE @]
      BY <3>3 DEF Store, FileContent
    <3> QED
      BY <3>1, <3>2, <3>3
  <2>2. phase' = "dead" /\ offered' = offered
    BY <1>6 DEF Die
  <2> QED
    BY <2>1, <2>2 DEF Phases
<1>7. CASE UNCHANGED vars
  BY <1>7 DEF vars
<1> QED
  BY <1>1, <1>2, <1>3, <1>4, <1>5, <1>6, <1>7 DEF Next

\* The invariant holds throughout.
LEMMA AlwaysIInv == Spec => []IInv
  BY InitIInv, NextIInv, PTL DEF Spec

\* A store is always what its class says.
THEOREM StoreTypeCorrect == Spec => []TypeOK
<1>1. IInv => TypeOK
  BY DEF IInv
<1> QED
  BY <1>1, AlwaysIInv, PTL

\* Whatever is written in whatever pieces, no more is accepted than the limit
\* given to open().
THEOREM StoreWithinLimit == Spec => []SizeWithinLimit
<1>1. IInv => SizeWithinLimit
  BY DEF IInv
<1> QED
  BY <1>1, AlwaysIInv, PTL

\* If closing the stream cannot fail, every file that appears in new/ is whole,
\* also when another call fails or the process dies on the way.
THEOREM StoreDeliversWhole == Spec => []DeliveredIsWhole
<1>1. IInv => DeliveredIsWhole
  BY DEF IInv
<1> QED
  BY <1>1, AlwaysIInv, PTL

\* Once a write has been refused none is accepted any more.
THEOREM StoreHasNoHole == Spec => NoHole
<1>1. IInv /\ [Next]_vars => [store.sizeError => store'.sizeError /\ store'.size <= store.size]_vars
  <2> SUFFICES ASSUME IInv, Next, store.sizeError
               PROVE  store'.sizeError /\ store'.size <= store.size
    BY DEF vars
  <2>0. store \in Store /\ store.size \in Nat
    BY DEF IInv, TypeOK, Store
  <2>1. CASE OpenStore
    BY <2>0, <2>1, OpenOutcome, LimitsAssumption DEF OpenStore, Call
  <2>2. CASE WriteStore
    BY <2>0, <2>2, WriteOutcome, CountsAssumption DEF WriteStore, Call
  <2>3. CASE FreezeStore
    BY <2>0, <2>3, FreezeOutcome DEF FreezeStore, Call
  <2>4. CASE DeliverStore
    BY <2>0, <2>4, DeliverOutcome DEF DeliverStore, Call
  <2>5. CASE CloseStore
    BY <2>0, <2>5, CloseOutcome DEF CloseStore, Call
  <2>6. CASE Die
    <3>1. store'.sizeError = store.sizeError /\ store'.size = store.size
      BY <2>0, <2>6 DEF Die, Store, FileContent
    <3> QED
      BY <2>0, <3>1
  <2> QED
    BY <2>1, <2>2, <2>3, <2>4, <2>5, <2>6 DEF Next
<1> QED
  BY <1>1, AlwaysIInv, PTL DEF Spec, NoHole

\* No call takes back or changes what has reached new/.
THEOREM StoreDeliveryIsFinal == Spec => DeliveryIsFinal
<1>1. IInv /\ [Next]_vars => [store.new # "none" => store'.new = store.new]_vars
  <2> SUFFICES ASSUME IInv, Next, store.new # "none"
               PROVE  store'.new = store.new
    BY DEF vars
  <2>0. store \in Store
    BY DEF IInv, TypeOK
  <2>1. phase \notin {"constructed", "spooling"}
    BY DEF IInv, NotYetDelivered
  <2>2. CASE CloseStore
    BY <2>0, <2>2, CloseOutcome DEF CloseStore, Call
  <2>3. CASE Die
    BY <2>0, <2>3 DEF Die, Store
  <2> QED
    BY <2>1, <2>2, <2>3 DEF Next, OpenStore, WriteStore, FreezeStore, DeliverStore
<1> QED
  BY <1>1, AlwaysIInv, PTL DEF Spec, DeliveryIsFinal
-----------------------------------------------------------------------------
(***************************************************************************)
(* A second invariant, for the properties about the other files: until it  *)
(* is opened an object is as constructed, an open stream has a file, what  *)
(* is in new/ is there alone and no stream can reach it, and what is       *)
(* counted and left behind is as NothingSkipped and NothingLeftInTmp say.  *)
(***************************************************************************)
NotYetOpened == phase = "constructed" => store = Fresh /\ offered = 0

OpenHasFile == store.open => store.tmp # "none"

NewIsAlone == store.new # "none" => store.tmp = "none" /\ ~store.open

Files == NotYetOpened /\ OpenHasFile /\ NewIsAlone /\ NothingSkipped /\ NothingLeftInTmp

\* A new object has no files.
LEMMA InitFiles == Init => Files
  BY DEF Init, Files, NotYetOpened, OpenHasFile, NewIsAlone, NothingSkipped, NothingLeftInTmp, Fresh

\* Every call, whatever fails in it, and the death of the process keep it.
LEMMA NextFiles == IInv /\ Files /\ [Next]_vars => Files'
<1> USE DEF Files, NotYetOpened, OpenHasFile, NewIsAlone, NothingSkipped, NothingLeftInTmp
<1> SUFFICES ASSUME IInv, Files, [Next]_vars PROVE Files'
  OBVIOUS
<1>0. store \in Store /\ store.size \in Nat /\ offered \in Nat
  BY DEF IInv, TypeOK, Store
<1>1. CASE OpenStore
  <2>1. PICK limit \in Limits : Call(Open(store, limit), "spooling")
    BY <1>1 DEF OpenStore
  <2>2. PICK o \in Open(store, limit) :
          store' = o.m /\ phase' = IF o.threw THEN "failed" ELSE "spooling"
    BY <2>1 DEF Call
  <2>3. store = Fresh /\ offered' = 0 /\ limit \in Nat
    BY <1>1, LimitsAssumption DEF OpenStore
  <2>4. o.m.new = "none" /\ IF o.threw THEN o.m = Fresh ELSE Sound(o.m) /\ o.m.size = 0
    BY <1>0, <2>2, <2>3, OpenOutcome DEF Fresh
  <2> QED
    BY <2>2, <2>3, <2>4 DEF Sound, Fresh
<1>2. CASE WriteStore
  <2>1. PICK n \in Counts : offered' = offered + n /\ Call(Write(store, n), "spooling")
    BY <1>2 DEF WriteStore
  <2>2. PICK o \in Write(store, n) :
          store' = o.m /\ phase' = IF o.threw THEN "failed" ELSE "spooling"
    BY <2>1 DEF Call
  <2>3. phase = "spooling" /\ n \in Nat /\ store.new = "none"
    BY <1>2, CountsAssumption DEF WriteStore, IInv, NotYetDelivered
  <2>4. /\ o.m.new = "none" /\ o.m.tmp2 = store.tmp2
        /\ o.m.open = store.open
        /\ o.m.tmp = store.tmp \/ o.m.tmp = "short"
        /\ ~o.threw /\ ~o.m.sizeError => ~store.sizeError /\ o.m.size = store.size + n
    BY <1>0, <2>2, <2>3, WriteOutcome
  <2> QED
    BY <2>1, <2>2, <2>3, <2>4
<1>3. CASE FreezeStore
  <2>1. PICK o \in Freeze(store) :
          store' = o.m /\ phase' = IF o.threw THEN "failed" ELSE "spooling"
    BY <1>3 DEF FreezeStore, Call
  <2>2. store.new = "none"
    BY <1>3 DEF FreezeStore, IInv, NotYetDelivered
  <2> QED
    BY <1>0, <2>1, <2>2, FreezeOutcome
<1>4. CASE DeliverStore
  <2>1. PICK o \in Deliver(store) :
          store' = o.m /\ phase' = IF o.threw THEN "failed" ELSE "delivered"
    BY <1>4 DEF DeliverStore, Call
  <2>2. store.new = "none"
    BY <1>4 DEF DeliverStore, IInv, NotYetDelivered
  <2> QED
    BY <1>0, <2>1, <2>2, DeliverOutcome
<1>5. CASE CloseStore
  <2>1. PICK o \in Close(store) :
          store' = o.m /\ phase' = IF o.threw THEN "failed" ELSE "closed"
    BY <1>5 DEF CloseStore, Call
  <2> QED
    BY <1>0, <2>1, CloseOutcome
<1>6. CASE Die
  <2>1. /\ store'.new = store.new
        /\ ~store'.open
        /\ store'.tmp = store.tmp \/ store.open
    BY <1>0, <1>6 DEF Die, Store
  <2>2. phase' = "dead"
    BY <1>6 DEF Die
  <2> QED
    BY <2>1, <2>2
<1>7. CASE UNCHANGED vars
  BY <1>7 DEF vars
<1> QED
  BY <1>1, <1>2, <1>3, <1>4, <1>5, <1>6, <1>7 DEF Next

\* Both invariants hold throughout.
LEMMA AlwaysFiles == Spec => [](IInv /\ Files)
  BY InitIInv, NextIInv, InitFiles, NextFiles, PTL DEF Spec

\* Every octet offered is counted until a write is refused, or freeze() begins a new file.
THEOREM StoreSkipsNothing == Spec => []NothingSkipped
<1>1. IInv /\ Files => NothingSkipped
  BY DEF Files
<1> QED
  BY <1>1, AlwaysFiles, PTL

\* A reader of the Maildir sees a message at most once, wherever its owner is interrupted.
THEOREM StoreHasOneVisibleCopy == Spec => []OneVisibleCopy
<1>1. IInv /\ Files => OneVisibleCopy
  BY DEF Files, NewIsAlone, OneVisibleCopy
<1> QED
  BY <1>1, AlwaysFiles, PTL

\* A store that was closed has left nothing in tmp/, unless removing a file can fail.
THEOREM StoreLeavesNothing == Spec => []NothingLeftInTmp
<1>1. IInv /\ Files => NothingLeftInTmp
  BY DEF Files
<1> QED
  BY <1>1, AlwaysFiles, PTL
-----------------------------------------------------------------------------
(***************************************************************************)
(* The refinement.  Each call is at most one step of MaildirDelivery,      *)
(* given that a stream that is closed loses nothing.                       *)
(***************************************************************************)
\* The file in sight is whole, so that Where has only the values MaildirDelivery knows.
LEMMA WhereIs ==
  ASSUME NEW m \in Store, m.new # "short"
  PROVE  /\ m.new # "none" => m.new = "whole"
         /\ m.new = "none" \/ m.new = "whole"
  BY DEF Store, FileContent

LEMMA InitRefines == Init => Delivery!Init
  BY DEF Init, Delivery!Init, Where, Fresh

LEMMA NextRefines ==
  ASSUME "close" \notin Faults, IInv, IInv', Files, [Next]_vars
  PROVE  [Delivery!Next]_(Delivery!vars)
<1> USE DEF Where, Delivery!vars
<1>0. /\ store \in Store /\ store.size \in Nat /\ store' \in Store
      /\ store.new \in {"none", "whole"} /\ store'.new \in {"none", "whole"}
  BY DEF IInv, TypeOK, DeliveredIsWhole, Store, FileContent
<1>1. CASE OpenStore
  <2>1. PICK limit \in Limits : Call(Open(store, limit), "spooling")
    BY <1>1 DEF OpenStore
  <2>2. PICK o \in Open(store, limit) : store' = o.m
    BY <2>1 DEF Call
  <2>3. store = Fresh /\ limit \in Nat
    BY <1>1, LimitsAssumption DEF OpenStore, Files, NotYetOpened
  <2>4. CASE o.threw
    BY <1>0, <2>2, <2>3, <2>4, OpenOutcome
  <2>5. CASE ~o.threw
    <3>1. store'.new = "none" /\ store'.tmp # "none" /\ store'.size = 0 /\ store'.max = limit
      BY <1>0, <2>2, <2>3, <2>5, OpenOutcome DEF Sound, Fresh
    <3> QED
      BY <2>3, <3>1 DEF Delivery!Next, Delivery!Begin, Fresh
  <2> QED
    BY <2>4, <2>5
<1>2. CASE WriteStore
  <2>1. PICK n \in Counts : Call(Write(store, n), "spooling")
    BY <1>2 DEF WriteStore
  <2>2. PICK o \in Write(store, n) : store' = o.m
    BY <2>1 DEF Call
  <2>3. n \in Nat /\ store.new = "none" /\ store.tmp # "none"
    BY <1>2, CountsAssumption DEF WriteStore, IInv, NotYetDelivered, SpoolIsSound, Sound
  <2>4. /\ store'.new = "none" /\ store'.tmp # "none" /\ store'.max = store.max
        /\ store'.size = store.size \/ (store'.size > store.size /\ store'.size <= store.max)
    BY <1>0, <2>2, <2>3, WriteOutcome
  <2> QED
    BY <2>3, <2>4 DEF Delivery!Next, Delivery!Grow
<1>3. CASE FreezeStore
  <2>1. PICK o \in Freeze(store) : store' = o.m
    BY <1>3 DEF FreezeStore, Call
  <2>2. store.new = "none" /\ store.tmp # "none"
    BY <1>3 DEF FreezeStore, IInv, NotYetDelivered, SpoolIsSound, Sound
  <2>3. /\ store'.new = "none" /\ store'.max = store.max
        /\ store'.size = store.size \/ store'.size = 0
    BY <1>0, <2>1, <2>2, FreezeOutcome
  <2> QED
    BY <2>2, <2>3 DEF Delivery!Next, Delivery!SetAside, Delivery!Discard
<1>4. CASE DeliverStore
  <2>1. PICK o \in Deliver(store) : store' = o.m
    BY <1>4 DEF DeliverStore, Call
  <2>2. store.new = "none" /\ store.tmp # "none"
    BY <1>4 DEF DeliverStore, IInv, NotYetDelivered, SpoolIsSound, Sound
  <2>3. /\ store'.size = store.size /\ store'.max = store.max
        /\ store'.new = "none" => store'.tmp # "none"
    BY <1>0, <2>1, <2>2, DeliverOutcome
  <2> QED
    BY <1>0, <2>2, <2>3 DEF Delivery!Next, Delivery!Publish
<1>5. CASE CloseStore
  <2>1. PICK o \in Close(store) : store' = o.m
    BY <1>5 DEF CloseStore, Call
  <2>2. /\ store'.size = store.size /\ store'.max = store.max /\ store'.new = store.new
        /\ store.tmp = "none" => store'.tmp = "none"
    BY <1>0, <2>1, CloseOutcome
  <2> QED
    BY <1>0, <2>2 DEF Delivery!Next, Delivery!Discard
<1>6. CASE Die
  <2>1. /\ store'.size = store.size /\ store'.max = store.max /\ store'.new = store.new
        /\ store'.tmp = store.tmp \/ (store.open /\ store'.tmp = "short")
    BY <1>0, <1>6 DEF Die, Store
  <2>2. store.tmp = "none" <=> store'.tmp = "none"
    BY <2>1 DEF Files, OpenHasFile
  <2> QED
    BY <1>0, <2>1, <2>2
<1>7. CASE UNCHANGED vars
  BY <1>7 DEF vars
<1> QED
  BY <1>1, <1>2, <1>3, <1>4, <1>5, <1>6, <1>7 DEF Next

\* A MessageStore is a MaildirDelivery: the reader of the Maildir sees nothing of a message,
\* and then all of it, for good.
THEOREM StoreKeepsMaildirPromise ==
  ASSUME "close" \notin Faults
  PROVE  Spec => KeepsMaildirPromise
<1>1. IInv /\ IInv' /\ Files /\ [Next]_vars => [Delivery!Next]_(Delivery!vars)
  BY NextRefines
<1> QED
  BY <1>1, InitRefines, AlwaysFiles, PTL DEF Spec, KeepsMaildirPromise, Delivery!Spec
=============================================================================
