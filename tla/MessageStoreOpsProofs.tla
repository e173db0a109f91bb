------------------------- MODULE MessageStoreOpsProofs -------------------------
(***************************************************************************)
(* What each method of MessageStore returns, whatever may fail: lemmas     *)
(* cited by the proofs about a store's life and about a session.           *)
(***************************************************************************)
EXTENDS MessageStoreOps, TLAPS

\* Both kinds of outcome are outcomes.
LEMMA OutcomeType ==
  ASSUME NEW m \in Store
  PROVE  /\ Returns(m) \in Outcome /\ Returns(m).m = m /\ ~Returns(m).threw
         /\ Throws(m) \in Outcome /\ Throws(m).m = m /\ Throws(m).threw
  BY DEF Returns, Throws, Outcome

\* A default-constructed object is one.
LEMMA FreshType == Fresh \in Store
  BY DEF Fresh, Store, FileContent

\* MessageStore::open: an object it returns is empty, sound and has the limit; one
\* it throws for is untouched.
LEMMA OpenOutcome ==
  ASSUME NEW m \in Store, NEW limit \in Nat, NEW o \in Open(m, limit)
  PROVE  /\ o \in Outcome
         /\ o.m.new = m.new /\ o.m.sizeError = m.sizeError
         /\ IF o.threw THEN o.m = m
            ELSE Sound(o.m) /\ o.m.size = 0 /\ o.m.max = limit
<1> DEFINE opened == [m EXCEPT !.open = TRUE, !.tmp = "whole", !.max = limit, !.size = 0]
<1>1. /\ opened \in Store
      /\ opened.new = m.new /\ opened.sizeError = m.sizeError
      /\ Sound(opened) /\ opened.size = 0 /\ opened.max = limit
  BY DEF Store, FileContent, Sound
<1>2. o = Returns(opened) \/ o = Throws(m)
  BY DEF Open, When
<1> QED
  BY <1>1, <1>2, OutcomeType

\* MessageStore::write touches neither the limit nor a delivered file, and either
\* counts the octets or remembers that it refused them.
LEMMA WriteOutcome ==
  ASSUME NEW m \in Store, NEW n \in Nat, NEW o \in Write(m, n)
  PROVE  /\ o \in Outcome
         /\ o.m.new = m.new /\ o.m.max = m.max
         /\ m.sizeError => o.m.sizeError /\ o.m.size = m.size
         /\ o.m.size = m.size \/ (o.m.size > m.size /\ o.m.size <= m.max)
         /\ o.m.open = m.open /\ o.m.tmp2 = m.tmp2
         /\ o.m.tmp = m.tmp \/ (m.open /\ o.m.tmp = "short")
         /\ ~o.threw => o.m.tmp = m.tmp
         /\ ~o.threw /\ ~o.m.sizeError => ~m.sizeError /\ o.m.size = m.size + n
<1> DEFINE grown   == [m EXCEPT !.size = m.size + n]
           cut     == [grown EXCEPT !.tmp = "short"]
           refused == [m EXCEPT !.sizeError = TRUE]
<1>1. /\ grown \in Store
      /\ grown.new = m.new /\ grown.max = m.max /\ grown.size = m.size + n
      /\ grown.tmp = m.tmp /\ grown.open = m.open /\ grown.sizeError = m.sizeError
      /\ grown.tmp2 = m.tmp2 /\ (grown.size = m.size \/ grown.size > m.size)
  <2>1. m.size + n \in Nat
    BY DEF Store
  <2> QED
    BY <2>1 DEF Store
<1>2. /\ cut \in Store
      /\ cut.new = m.new /\ cut.max = m.max /\ cut.size = m.size + n
      /\ cut.open = m.open /\ cut.tmp = "short" /\ cut.tmp2 = m.tmp2
  <2>1. "short" \in FileContent
    BY DEF FileContent
  <2> QED
    BY <1>1, <2>1 DEF Store
<1>3. /\ refused \in Store
      /\ refused.new = m.new /\ refused.max = m.max /\ refused.size = m.size
      /\ refused.tmp = m.tmp /\ refused.open = m.open /\ refused.sizeError
      /\ refused.tmp2 = m.tmp2
  BY DEF Store
<1>4. CASE ~m.sizeError /\ m.size + n <= m.max
  <2>1. o = Returns(grown) \/ (o = Throws(cut) /\ m.open) \/ o = Throws(grown)
    BY <1>4 DEF Write, When, Sound
  <2> QED
    BY <1>1, <1>2, <1>4, <2>1, OutcomeType
<1>5. CASE ~(~m.sizeError /\ m.size + n <= m.max)
  <2>1. o = Returns(refused)
    BY <1>5 DEF Write
  <2> QED
    BY <1>3, <2>1, OutcomeType
<1> QED
  BY <1>4, <1>5

\* try_close_: the stream is closed and no file but tmpfn_ is touched.
LEMMA TryCloseOutcome ==
  ASSUME NEW m \in Store, NEW c \in TryClose(m)
  PROVE  /\ c \in Store
         /\ ~c.open
         /\ c.size = m.size /\ c.max = m.max /\ c.sizeError = m.sizeError
         /\ c.new = m.new /\ c.tmp2 = m.tmp2
         /\ c.tmp = m.tmp \/ (c.tmp = "short" /\ m.open /\ "close" \in Faults)
  BY DEF TryClose, Store, FileContent, When

\* MessageStore::deliver: unless closing or renaming can fail, what was spooled is
\* what appears in new/, whether or not fs::exists throws afterwards.
LEMMA DeliverOutcome ==
  ASSUME NEW m \in Store, NEW o \in Deliver(m)
  PROVE  /\ o \in Outcome
         /\ o.m.size = m.size /\ o.m.max = m.max /\ o.m.sizeError = m.sizeError
         /\ ~o.m.open
         /\ (o.m.new = m.new \/ o.m.tmp = "none")
         /\ m.tmp # "none" => o.m.tmp # "none" \/ o.m.new # "none"
         /\ (m.tmp # "none" /\ "close" \notin Faults /\ "rename" \notin Faults)
              => o.m.new = m.tmp /\ o.m.tmp = "none"
         /\ (m.new # "short" /\ m.tmp # "short" /\ "close" \notin Faults) => o.m.new # "short"
         /\ o.threw => "exists" \in Faults
<1>1. PICK c \in TryClose(m) : \E r \in Rename(c, "new") : o \in Exists(r)
  BY DEF Deliver
<1>2. PICK r \in Rename(c, "new") : o \in Exists(r)
  BY <1>1
<1>3. /\ c \in Store
      /\ ~c.open
      /\ c.size = m.size /\ c.max = m.max /\ c.sizeError = m.sizeError
      /\ c.new = m.new
      /\ c.tmp = m.tmp \/ (c.tmp = "short" /\ "close" \in Faults)
  BY TryCloseOutcome
<1>4. /\ r \in Store
      /\ ~r.open
      /\ r.size = c.size /\ r.max = c.max /\ r.sizeError = c.sizeError
      /\ \/ r.new = c.tmp /\ r.tmp = "none" /\ c.tmp # "none"
         \/ r = c /\ (c.tmp = "none" \/ "rename" \in Faults)
  <2>1. \/ r = [c EXCEPT !["new"] = c.tmp, !.tmp = "none"] /\ c.tmp # "none"
        \/ r = c /\ (c.tmp = "none" \/ "rename" \in Faults)
    BY <1>2 DEF Rename, When
  <2> QED
    BY <1>3, <2>1 DEF Store, FileContent
<1>5. o \in Outcome /\ o.m = r /\ (o.threw => "exists" \in Faults)
  <2>1. o = Returns(r) \/ (o = Throws(r) /\ "exists" \in Faults)
    BY <1>2 DEF Exists, When
  <2> QED
    BY <1>4, <2>1, OutcomeType
<1> QED
  BY <1>3, <1>4, <1>5

\* MessageStore::close and trash: nothing in new/ changes.
LEMMA CloseOutcome ==
  ASSUME NEW m \in Store, NEW o \in Close(m)
  PROVE  /\ o \in Outcome
         /\ o.m.new = m.new /\ o.m.size = m.size /\ o.m.max = m.max
         /\ o.m.sizeError = m.sizeError
         /\ ~o.m.open
         /\ o.m.tmp = m.tmp \/ o.m.tmp \in {"none", "short"}
         /\ m.tmp = "none" /\ (~m.open \/ "close" \notin Faults) => o.m.tmp = "none"
         /\ ~o.threw /\ "remove" \notin Faults => o.m.tmp = "none" /\ o.m.tmp2 = "none"
         /\ o.threw => "exists" \in Faults
<1>1. PICK c \in TryClose(m) : \E r \in Remove(c, "tmp") :
        \/ "exists" \in Faults /\ o = Throws(r)
        \/ \E s \in Remove(r, "tmp2") : o = Returns([s EXCEPT !.mapped = FALSE])
  BY DEF Close, When
<1>2. PICK r \in Remove(c, "tmp") :
        \/ "exists" \in Faults /\ o = Throws(r)
        \/ \E s \in Remove(r, "tmp2") : o = Returns([s EXCEPT !.mapped = FALSE])
  BY <1>1
<1>3. /\ c \in Store
      /\ ~c.open
      /\ c.size = m.size /\ c.max = m.max /\ c.sizeError = m.sizeError
      /\ c.new = m.new
      /\ c.tmp = m.tmp \/ (c.tmp = "short" /\ m.open /\ "close" \in Faults)
  BY TryCloseOutcome
<1>4. /\ r \in Store
      /\ ~r.open
      /\ r.size = c.size /\ r.max = c.max /\ r.sizeError = c.sizeError
      /\ r.new = c.new
      /\ r.tmp = c.tmp \/ r.tmp = "none"
      /\ "remove" \notin Faults => r.tmp = "none"
  BY <1>2, <1>3 DEF Remove, When, Store, FileContent
<1>5. CASE "exists" \in Faults /\ o = Throws(r)
  BY <1>3, <1>4, <1>5 DEF Throws, Outcome
<1>6. CASE \E s \in Remove(r, "tmp2") : o = Returns([s EXCEPT !.mapped = FALSE])
  <2>1. PICK s \in Remove(r, "tmp2") : o = Returns([s EXCEPT !.mapped = FALSE])
    BY <1>6
  <2>2. /\ s \in Store
        /\ ~s.open
        /\ s.size = r.size /\ s.max = r.max /\ s.sizeError = r.sizeError
        /\ s.new = r.new /\ s.tmp = r.tmp
        /\ "remove" \notin Faults => s.tmp2 = "none"
    BY <1>4, <2>1 DEF Remove, When, Store, FileContent
  <2>3. [s EXCEPT !.mapped = FALSE] \in Store
    BY <2>2 DEF Store, FileContent
  <2> QED
    BY <1>3, <1>4, <2>1, <2>2, <2>3 DEF Returns, Outcome, Store
<1> QED
  BY <1>2, <1>5, <1>6

\* The two calls freeze() makes after the rename.
LEMMA ReopenOutcome ==
  ASSUME NEW m \in Store, NEW o \in Reopen(m)
  PROVE  /\ o \in Outcome
         /\ o.m.new = m.new /\ o.m.max = m.max /\ o.m.sizeError = m.sizeError
         /\ o.m.size = m.size
         /\ IF o.threw THEN o.m = m ELSE Sound(o.m)
<1> DEFINE n == [m EXCEPT !.open = TRUE, !.tmp = "whole"]
<1>1. /\ n \in Store
      /\ n.size = m.size /\ n.max = m.max /\ n.sizeError = m.sizeError /\ n.new = m.new
      /\ Sound(n)
  BY DEF Store, FileContent, Sound
<1>2. o = Returns(n) \/ o = Throws(m)
  BY DEF Reopen, When
<1> QED
  BY <1>1, <1>2, OutcomeType

LEMMA MapTmp2Outcome ==
  ASSUME NEW m \in Store, NEW o \in MapTmp2(m)
  PROVE  /\ o \in Outcome
         /\ o.m.new = m.new /\ o.m.max = m.max /\ o.m.sizeError = m.sizeError
         /\ o.m.size = m.size \/ o.m.size = 0
         /\ o.m.open = m.open /\ o.m.tmp = m.tmp
         /\ ~o.threw => o.m.tmp2 # "none"
<1> DEFINE n == [m EXCEPT !.mapped = TRUE, !.size = 0]
<1>1. /\ n \in Store
      /\ n.size = 0 /\ n.max = m.max /\ n.sizeError = m.sizeError /\ n.new = m.new
      /\ n.open = m.open /\ n.tmp = m.tmp /\ n.tmp2 = m.tmp2
  BY DEF Store
<1>2. (o = Returns(n) /\ m.tmp2 # "none") \/ o = Throws(m)
  BY DEF MapTmp2, When
<1> QED
  BY <1>1, <1>2, OutcomeType

\* MessageStore::freeze: what it returns with is a sound spool.
LEMMA FreezeOutcome ==
  ASSUME NEW m \in Store, NEW o \in Freeze(m)
  PROVE  /\ o \in Outcome
         /\ o.m.new = m.new /\ o.m.max = m.max /\ o.m.sizeError = m.sizeError
         /\ o.m.size = m.size \/ o.m.size = 0
         /\ o.m.open => o.m.tmp # "none"
         /\ ~o.threw => Sound(o.m) /\ o.m.tmp2 # "none"
<1>1. CASE \E c \in TryClose(m) : o = Throws(c)
  BY <1>1, TryCloseOutcome, OutcomeType
<1>2. CASE \E c \in TryClose(m) : \E r \in Rename(c, "tmp2") : \E q \in Reopen(r) :
             o \in IF q.threw THEN {q} ELSE MapTmp2(q.m)
  <2>1. PICK c \in TryClose(m) : \E r \in Rename(c, "tmp2") : \E q \in Reopen(r) :
             o \in IF q.threw THEN {q} ELSE MapTmp2(q.m)
    BY <1>2
  <2>2. PICK r \in Rename(c, "tmp2") : \E q \in Reopen(r) :
             o \in IF q.threw THEN {q} ELSE MapTmp2(q.m)
    BY <2>1
  <2>3. PICK q \in Reopen(r) : o \in IF q.threw THEN {q} ELSE MapTmp2(q.m)
    BY <2>2
  <2>4. /\ c \in Store /\ ~c.open
        /\ c.size = m.size /\ c.max = m.max /\ c.sizeError = m.sizeError /\ c.new = m.new
    BY TryCloseOutcome
  <2>5. /\ r \in Store /\ ~r.open
        /\ r.size = c.size /\ r.max = c.max /\ r.sizeError = c.sizeError /\ r.new = c.new
    BY <2>4 DEF Rename, When, Store, FileContent
  <2>6. /\ q \in Outcome
        /\ q.m.new = r.new /\ q.m.max = r.max /\ q.m.sizeError = r.sizeError
        /\ q.m.size = r.size
        /\ IF q.threw THEN q.m = r ELSE Sound(q.m)
    BY <2>5, ReopenOutcome
  <2>7. CASE q.threw
    BY <2>3, <2>4, <2>5, <2>6, <2>7
  <2>8. CASE ~q.threw
    <3>1. q.m \in Store /\ o \in MapTmp2(q.m)
      BY <2>3, <2>6, <2>8 DEF Outcome
    <3>2. /\ o \in Outcome
          /\ o.m.new = q.m.new /\ o.m.max = q.m.max /\ o.m.sizeError = q.m.sizeError
          /\ o.m.size = q.m.size \/ o.m.size = 0
          /\ o.m.open = q.m.open /\ o.m.tmp = q.m.tmp
          /\ ~o.threw => o.m.tmp2 # "none"
      BY <3>1, MapTmp2Outcome
    <3> QED
      BY <2>4, <2>5, <2>6, <2>8, <3>2 DEF Sound
  <2> QED
    BY <2>7, <2>8
<1> QED
  BY <1>1, <1>2 DEF Freeze, When
=============================================================================
