---------------------------- MODULE DnsQueryProofs ----------------------------
(***************************************************************************)
(* What holds of every resolver, for any table of name servers, any        *)
(* identifiers and questions, and any number of answers late, lost and     *)
(* doubled: all name servers are tried before it gives up, an answer kept  *)
(* is about the question asked, and the lag of the answers behind the      *)
(* questions is what went wrong before, no more and no less.               *)
(***************************************************************************)
EXTENDS DnsQuery, FiniteSetTheorems, SequenceTheorems, TLAPS

-----------------------------------------------------------------------------
(***************************************************************************)
(* The inductive invariant.                                                *)
(***************************************************************************)
\* How many entries before ns in the table, around its end, e is.
Behind(e) == IF e <= ns THEN ns - e ELSE ns - e + NameServers

\* The entries tried so far are the last ones up to ns.
TriedInTurn == \A e \in Entries : Behind(e) < NameServers - left => e \in tried

\* Nothing is on its way to a resolver that has not been asked anything.
Unasked ==
  pc = "connecting" => net = <<>> /\ slips.late = 0 /\ slips.lost = 0 /\ slips.doubled = 0

\* The one answer on its way over a stream is that to the question at hand.
OneAnswer == Stream /\ live /\ pc = "waiting" => net = <<query>>

\* The answers on their way with another identifier than id, by position.
Foreign(waiting, id) == {i \in 1 .. Len(waiting) : waiting[i].id # id}

\* Each try spent was spent on one of those that were there when the question was asked,
\* or on a duplicate.
TriesSpent ==
  pc = "waiting" =>
    tries >= 1 /\ Cardinality(Foreign(net, query.id)) + 3 - tries <= overdue + slips.doubled

IInv == TypeOK /\ FatalOnlyIfAllFail /\ RightSocket /\ AnswerMatches /\ BalanceIsKept
          /\ TriedInTurn /\ Unasked /\ OneAnswer /\ TriesSpent
-----------------------------------------------------------------------------
(***************************************************************************)
(* Sequences, and how many of their elements are foreign.                  *)
(***************************************************************************)
\* A sequence with the element at i taken out.
LEMMA RemoveAtType ==
  ASSUME NEW S, NEW s \in Seq(S), NEW i \in 1 .. Len(s)
  PROVE  /\ RemoveAt(s, i) \in Seq(S)
         /\ Len(RemoveAt(s, i)) = Len(s) - 1
         /\ \A j \in 1 .. Len(s) - 1 : RemoveAt(s, i)[j] = IF j < i THEN s[j] ELSE s[j + 1]
<1> DEFINE before == SubSeq(s, 1, i - 1)
           after == SubSeq(s, i + 1, Len(s))
<1>0. Len(s) \in Nat /\ i \in Nat /\ i >= 1 /\ i <= Len(s)
  OBVIOUS
<1>1. /\ before \in Seq(S) /\ Len(before) = i - 1
      /\ \A j \in 1 .. i - 1 : before[j] = s[j]
  BY <1>0, SubSeqProperties
<1>2. /\ after \in Seq(S) /\ Len(after) = Len(s) - i
      /\ \A j \in 1 .. Len(s) - i : after[j] = s[i + j]
  BY <1>0, SubSeqProperties
<1>3. RemoveAt(s, i) = before \o after
  BY DEF RemoveAt
<1> HIDE DEF before, after
<1>4. /\ before \o after \in Seq(S)
      /\ Len(before \o after) = Len(before) + Len(after)
      /\ \A j \in 1 .. Len(before) + Len(after) :
           (before \o after)[j] = IF j <= Len(before) THEN before[j] ELSE after[j - Len(before)]
  BY <1>1, <1>2, ConcatProperties
<1>5. ASSUME NEW j \in 1 .. Len(s) - 1
      PROVE  (before \o after)[j] = IF j < i THEN s[j] ELSE s[j + 1]
  <2>1. CASE j < i
    BY <1>0, <1>1, <1>2, <1>4, <2>1
  <2>2. CASE ~(j < i)
    <3>1. (before \o after)[j] = after[j - (i - 1)]
      BY <1>0, <1>1, <1>2, <1>4, <2>2
    <3>2. j - (i - 1) \in 1 .. Len(s) - i
      BY <1>0, <2>2
    <3>3. after[j - (i - 1)] = s[i + (j - (i - 1))] /\ i + (j - (i - 1)) = j + 1
      BY <1>0, <1>2, <3>2
    <3> QED
      BY <2>2, <3>1, <3>3
  <2> QED
    BY <2>1, <2>2
<1> QED
  BY <1>0, <1>1, <1>2, <1>3, <1>4, <1>5

\* There are never more foreign answers than answers.
LEMMA ForeignType ==
  ASSUME NEW id, NEW s \in Seq(Query)
  PROVE  /\ IsFiniteSet(Foreign(s, id)) /\ Cardinality(Foreign(s, id)) \in Nat
         /\ Cardinality(Foreign(s, id)) <= Len(s)
<1>1. Len(s) \in Nat /\ Foreign(s, id) \subseteq 1 .. Len(s)
  BY DEF Foreign
<1>2. IsFiniteSet(1 .. Len(s)) /\ Cardinality(1 .. Len(s)) = Len(s)
  <2>1. /\ IsFiniteSet(1 .. Len(s))
        /\ Cardinality(1 .. Len(s)) = IF 1 > Len(s) THEN 0 ELSE Len(s) - 1 + 1
    <3>1. 1 \in Int /\ Len(s) \in Int
      BY <1>1
    <3> QED
      BY <3>1, FS_Interval
  <2> QED
    BY <1>1, <2>1
<1>3. IsFiniteSet(Foreign(s, id)) /\ Cardinality(Foreign(s, id)) <= Cardinality(1 .. Len(s))
  BY <1>1, <1>2, FS_Subset
<1> QED
  BY <1>2, <1>3, FS_CardinalityType

\* One more answer, foreign or not.
LEMMA ForeignAppend ==
  ASSUME NEW id, NEW s \in Seq(Query), NEW q \in Query
  PROVE  /\ Append(s, q) \in Seq(Query) /\ Len(Append(s, q)) = Len(s) + 1
         /\ Cardinality(Foreign(Append(s, q), id)) <= Cardinality(Foreign(s, id)) + 1
         /\ q.id = id => Cardinality(Foreign(Append(s, q), id)) = Cardinality(Foreign(s, id))
<1> DEFINE t == Append(s, q)
<1>1. /\ t \in Seq(Query) /\ Len(t) = Len(s) + 1 /\ Len(s) \in Nat
      /\ t[Len(s) + 1] = q
      /\ \A i \in 1 .. Len(s) : t[i] = s[i]
  BY AppendProperties
<1> HIDE DEF t
<1>2. 1 .. Len(t) = (1 .. Len(s)) \cup {Len(s) + 1}
  BY <1>1
<1>3. CASE q.id = id
  <2>1. Foreign(t, id) = Foreign(s, id)
    BY <1>1, <1>2, <1>3 DEF Foreign
  <2> QED
    BY <1>1, <2>1, ForeignType DEF t
<1>4. CASE q.id # id
  <2>1. Foreign(t, id) = Foreign(s, id) \cup {Len(s) + 1} /\ Len(s) + 1 \notin Foreign(s, id)
    BY <1>1, <1>2, <1>4 DEF Foreign
  <2>2. Cardinality(Foreign(t, id)) = Cardinality(Foreign(s, id)) + 1
    BY <2>1, ForeignType, FS_AddElement
  <2> QED
    BY <1>1, <1>4, <2>2, ForeignType DEF t
<1> QED
  BY <1>3, <1>4

\* An answer read: one less, and if it was foreign one foreign answer less.
LEMMA ForeignRemove ==
  ASSUME NEW id, NEW s \in Seq(Query), NEW k \in 1 .. Len(s)
  PROVE  /\ RemoveAt(s, k) \in Seq(Query) /\ Len(RemoveAt(s, k)) = Len(s) - 1
         /\ Cardinality(Foreign(RemoveAt(s, k), id)) <= Cardinality(Foreign(s, id))
         /\ s[k].id # id =>
              Cardinality(Foreign(RemoveAt(s, k), id)) = Cardinality(Foreign(s, id)) - 1
<1> DEFINE t == RemoveAt(s, k)
           rest == Foreign(s, id) \ {k}
           f == [i \in Foreign(t, id) |-> IF i < k THEN i ELSE i + 1]
<1>1. /\ t \in Seq(Query) /\ Len(t) = Len(s) - 1
      /\ \A j \in 1 .. Len(s) - 1 : t[j] = IF j < k THEN s[j] ELSE s[j + 1]
      /\ Len(s) \in Nat /\ k \in Nat /\ k >= 1 /\ k <= Len(s)
  BY RemoveAtType
<1> HIDE DEF t
<1>2. /\ IsFiniteSet(rest)
      /\ Cardinality(rest) <= Cardinality(Foreign(s, id))
      /\ s[k].id # id => Cardinality(rest) = Cardinality(Foreign(s, id)) - 1
  <2>1. s[k].id # id => k \in Foreign(s, id)
    BY DEF Foreign
  <2>2. IsFiniteSet(Foreign(s, id)) /\ Cardinality(Foreign(s, id)) \in Nat
    BY ForeignType
  <2>3. IsFiniteSet(rest)
        /\ Cardinality(rest) =
             IF k \in Foreign(s, id) THEN Cardinality(Foreign(s, id)) - 1
             ELSE Cardinality(Foreign(s, id))
    BY <2>2, FS_RemoveElement
  <2> HIDE DEF rest
  <2> QED
    BY <2>1, <2>2, <2>3
<1>3. f \in Bijection(Foreign(t, id), rest)
  <2>1. f \in [Foreign(t, id) -> rest]
    BY <1>1 DEF Foreign
  <2>2. \A i, j \in Foreign(t, id) : f[i] = f[j] => i = j
    BY <1>1 DEF Foreign
  <2>3. ASSUME NEW x \in rest PROVE \E i \in Foreign(t, id) : f[i] = x
    <3>1. x \in 1 .. Len(s) /\ x # k /\ s[x].id # id
      BY DEF Foreign
    <3>2. CASE x < k
      <4>1. x \in Foreign(t, id) /\ f[x] = x
        BY <1>1, <3>1, <3>2 DEF Foreign
      <4> QED
        BY <4>1
    <3>3. CASE x > k
      <4>1. x - 1 \in 1 .. Len(t) /\ ~(x - 1 < k) /\ t[x - 1] = s[x]
        BY <1>1, <3>1, <3>3
      <4>2. x - 1 \in Foreign(t, id) /\ f[x - 1] = x
        BY <1>1, <3>1, <3>3, <4>1 DEF Foreign
      <4> QED
        BY <4>2
    <3> QED
      BY <1>1, <3>1, <3>2, <3>3
  <2> QED
    BY <2>1, <2>2, <2>3 DEF Bijection, Injection, Surjection, IsInjective
<1>4. Cardinality(rest) = Cardinality(Foreign(t, id))
  <2>1. ExistsBijection(Foreign(t, id), rest)
    BY <1>3 DEF ExistsBijection
  <2> QED
    BY <1>1, <2>1, ForeignType, FS_Bijection
<1> QED
  BY <1>1, <1>2, <1>4 DEF t
-----------------------------------------------------------------------------
(***************************************************************************)
(* The invariant is inductive.                                             *)
(***************************************************************************)
\* What a result may be.
LEMMA ResultsType ==
  /\ Pending \in Results /\ Pending.about = {} /\ Pending.how # "no tries"
  /\ \A why \in {"no tries", "no reply", "another", "small", "cut"} :
       Bogus(why) \in Results /\ Bogus(why).about = {} /\ Bogus(why).how = why
  BY DEF Pending, Bogus, Results, Forms

\* An answer is kept only if it is about the question at hand.
LEMMA CheckedAnswer ==
  ASSUME NEW p \in Query, NEW form \in Forms
  PROVE  /\ CheckAnswer(p, form) \in Results
         /\ CheckAnswer(p, form).about \subseteq {query.about}
         /\ CheckAnswer(p, form).how # "no tries"
<1>1. CASE form # "whole"
  BY <1>1, ResultsType DEF CheckAnswer, Forms
<1>2. CASE form = "whole" /\ p.about # query.about
  BY <1>2, ResultsType DEF CheckAnswer
<1>3. CASE form = "whole" /\ p.about = query.about
  <2>1. CheckAnswer(p, form) = [how |-> "whole", about |-> {p.about}]
    BY <1>3 DEF CheckAnswer, Answered
  <2>2. {p.about} \in {{}} \cup {{x} : x \in Questions}
    BY DEF Query
  <2>3. CheckAnswer(p, form) \in Results
    BY <2>1, <2>2 DEF Results, Forms
  <2>4. CheckAnswer(p, form).about = {query.about}
    BY <1>3, <2>1
  <2>5. CheckAnswer(p, form).how = "whole"
    BY <2>1
  <2> QED
    BY <2>3, <2>4, <2>5
<1> QED
  BY <1>1, <1>2, <1>3

LEMMA InitIInv == Init => IInv
<1> SUFFICES ASSUME Init PROVE IInv
  OBVIOUS
<1> USE DnsAssumption DEF Init
<1>1. query \in Query
  <2>1. \E q : q \in Query
    <3>1. PICK i \in Ids, a \in Questions : TRUE
      OBVIOUS
    <3>2. [id |-> i, about |-> a] \in Query
      BY <3>1 DEF Query
    <3> QED
      BY <3>2
  <2>2. query = CHOOSE q \in Query : TRUE
    OBVIOUS
  <2> QED
    BY <2>1, <2>2
<1>2. TypeOK
  <2>1. net \in Seq(Query) /\ slips \in [late : Nat, lost : Nat, doubled : Nat]
    <3>1. net \in Seq(Query)
      BY EmptySeq
    <3>2. slips \in [late : Nat, lost : Nat, doubled : Nat]
      OBVIOUS
    <3> QED
      BY <3>1, <3>2
  <2>2. result \in Results
    BY ResultsType
  <2>3. left \in 0 .. NameServers /\ tries \in 0 .. 3 /\ asked \in 0 .. MaxAsked /\ overdue \in Nat
    OBVIOUS
  <2> QED
    BY <1>1, <2>1, <2>2, <2>3 DEF TypeOK
<1>3. FatalOnlyIfAllFail /\ RightSocket /\ AnswerMatches /\ BalanceIsKept
  BY ResultsType
    DEF FatalOnlyIfAllFail, RightSocket, AnswerMatches, BalanceIsKept, InStep, LagIsKept,
        GivesUpOnThree
<1>4. TriedInTurn
  BY DEF TriedInTurn, Behind, Entries
<1>5. Unasked /\ OneAnswer /\ TriesSpent
  BY DEF Unasked, OneAnswer, TriesSpent
<1> QED
  BY <1>2, <1>3, <1>4, <1>5 DEF IInv

\* The constructor goes around the table.
LEMMA NextEntryTurn ==
  ASSUME TypeOK, TriedInTurn, NextEntry
  PROVE  /\ ns' \in Entries /\ left' \in 0 .. NameServers /\ tried' \subseteq Entries
         /\ TriedInTurn'
<1>1. /\ NameServers \in Nat /\ NameServers > 0 /\ ns \in 0 .. NameServers - 1
      /\ left \in 1 .. NameServers /\ left' = left - 1
      /\ ns' = IF ns + 1 = NameServers THEN 0 ELSE ns + 1
      /\ tried' = tried \cup {ns'} /\ tried \subseteq Entries
  BY DnsAssumption DEF NextEntry, Following, TypeOK, Entries
<1>2. ns' \in Entries /\ left' \in 0 .. NameServers
  BY <1>1 DEF Entries
<1>3. ASSUME NEW e \in Entries, Behind(e)' < NameServers - left'
      PROVE  e \in tried'
  <2>1. CASE e = ns'
    BY <1>1, <2>1
  <2>2. CASE e # ns'
    <3>1. Behind(e)' = Behind(e) + 1
      BY <1>1, <2>2 DEF Behind, Entries
    <3>2. Behind(e) \in Int
      BY <1>1 DEF Behind, Entries
    <3>3. Behind(e) < NameServers - left
      BY <1>1, <1>3, <3>1, <3>2
    <3> QED
      BY <1>1, <3>3 DEF TriedInTurn
  <2> QED
    BY <2>1, <2>2
<1> QED
  BY <1>1, <1>2, <1>3 DEF TriedInTurn

LEMMA ConstructStep == IInv /\ Construct => IInv'
<1> SUFFICES ASSUME IInv, Construct PROVE IInv'
  OBVIOUS
<1> USE DEF choice, exchange
<1>1. CASE TryFails \/ TryConnects
  <2>1. /\ TypeOK /\ NextEntry /\ pc = "connecting" /\ net = <<>>
        /\ slips.late = 0 /\ slips.lost = 0 /\ slips.doubled = 0
    BY <1>1 DEF IInv, TryFails, TryConnects, NextEntry, Unasked
  <2>2. /\ ns' \in Entries /\ left' \in 0 .. NameServers /\ tried' \subseteq Entries
        /\ TriedInTurn' /\ UNCHANGED <<table, query, tries, result, net, asked, overdue, slips>>
    BY <2>1, NextEntryTurn DEF IInv, NextEntry
  <2>3. /\ pc' \in {"connecting", "idle"} /\ fd' \in BOOLEAN /\ live' \in BOOLEAN
        /\ pc' = "idle" => fd' = ~Stream'
    BY <1>1, <2>1, <2>2 DEF TryFails, TryConnects, Stream, TypeOK
  <2>4. TypeOK'
    BY <2>1, <2>2, <2>3 DEF TypeOK
  <2>5. FatalOnlyIfAllFail' /\ RightSocket' /\ Unasked' /\ OneAnswer' /\ TriesSpent'
    BY <2>1, <2>2, <2>3 DEF FatalOnlyIfAllFail, RightSocket, Unasked, OneAnswer, TriesSpent
  <2>6. AnswerMatches' /\ BalanceIsKept'
    <3>1. AnswerMatches' /\ InStep' /\ GivesUpOnThree'
      BY <2>1, <2>2 DEF IInv, AnswerMatches, BalanceIsKept, InStep, GivesUpOnThree
    <3>2. Len(net') = 0 /\ pc' # "waiting" /\ slips' = slips
      BY <2>1, <2>2, <2>3
    <3>3. LagIsKept'
      BY <2>1, <3>2 DEF LagIsKept
    <3> QED
      BY <3>1, <3>3 DEF BalanceIsKept
  <2> QED
    BY <2>2, <2>4, <2>5, <2>6 DEF IInv
<1>2. CASE NoneLeft
  <2>1. /\ pc' = "fatal" /\ left = 0 /\ TypeOK
        /\ UNCHANGED <<table, ns, left, tried, fd, live, query, tries, result, net, asked,
                       overdue, slips>>
    BY <1>2 DEF NoneLeft, IInv
  <2>2. tried = Entries
    <3>1. ASSUME NEW e \in Entries PROVE e \in tried
      BY <2>1, DnsAssumption DEF IInv, TriedInTurn, Behind, Entries, TypeOK
    <3> QED
      BY <2>1, <3>1 DEF TypeOK
  <2>3. TypeOK'
    BY <2>1 DEF TypeOK
  <2> QED
    BY <2>1, <2>2, <2>3
      DEF IInv, FatalOnlyIfAllFail, RightSocket, AnswerMatches, BalanceIsKept, InStep, LagIsKept,
          GivesUpOnThree, TriedInTurn, Behind, Unasked, OneAnswer, TriesSpent, Stream, Entries
<1> QED
  BY <1>1, <1>2 DEF Construct

\* Once the constructor is done its choice stays: what is left to show of a step is what
\* it does to the query and to the answers on their way.
LEMMA Chosen ==
  ASSUME IInv, UNCHANGED choice, pc # "connecting", pc' \in {"idle", "waiting", "aborted", pc},
         pc' \in {"idle", "waiting"} => pc \in {"idle", "waiting"}
  PROVE  FatalOnlyIfAllFail' /\ RightSocket' /\ TriedInTurn' /\ Unasked' /\ Stream' = Stream
  BY DEF IInv, choice, FatalOnlyIfAllFail, RightSocket, TriedInTurn, Behind, Unasked, Stream

LEMMA AskStep == IInv /\ Ask => IInv'
<1> SUFFICES ASSUME IInv, Ask PROVE IInv'
  OBVIOUS
<1>1. /\ TypeOK /\ pc = "idle" /\ pc' = "waiting" /\ query' \in Query /\ tries' = 3
      /\ result' = Pending /\ net' = Sent(query', net) /\ asked' = asked + 1
      /\ asked < MaxAsked /\ overdue' = Len(net)
      /\ UNCHANGED <<choice, live, slips>>
      /\ net \in Seq(Query) /\ Len(net) \in Nat
  BY DEF IInv, Ask, TypeOK
<1>2. FatalOnlyIfAllFail' /\ RightSocket' /\ TriedInTurn' /\ Unasked' /\ Stream' = Stream
  BY <1>1, Chosen
<1>3. /\ net' \in Seq(Query)
      /\ Stream /\ live => net' = <<query'>>
      /\ ~Stream => Len(net') = Len(net) + 1
      /\ Cardinality(Foreign(net', query'.id)) <= Len(net)
      /\ Cardinality(Foreign(net', query'.id)) \in Nat
  <2>1. CASE Stream /\ ~live
    BY <1>1, <2>1, ForeignType DEF Sent
  <2>2. CASE ~(Stream /\ ~live)
    <3>1. net' = Append(net, query')
      BY <1>1, <2>2 DEF Sent
    <3>2. Stream /\ live => net = <<>>
      BY <1>1 DEF IInv, BalanceIsKept, InStep
    <3>3. /\ net' \in Seq(Query) /\ Len(net') = Len(net) + 1
          /\ Cardinality(Foreign(net', query'.id)) = Cardinality(Foreign(net, query'.id))
      BY <1>1, <3>1, ForeignAppend
    <3>4. Stream /\ live => net' = <<query'>>
      BY <3>1, <3>2
    <3> QED
      BY <1>1, <2>2, <3>3, <3>4, ForeignType
  <2> QED
    BY <2>1, <2>2
<1>4. TypeOK'
  <2>1. asked' \in 0 .. MaxAsked
    BY <1>1, DnsAssumption DEF TypeOK
  <2>2. tries' \in 0 .. 3 /\ overdue' \in Nat
    BY <1>1
  <2>3. result' \in Results
    BY <1>1, ResultsType
  <2> QED
    BY <1>1, <1>3, <2>1, <2>2, <2>3 DEF TypeOK, choice
<1>5. OneAnswer' /\ InStep' /\ GivesUpOnThree' /\ AnswerMatches'
  BY <1>1, <1>2, <1>3, ResultsType DEF OneAnswer, InStep, GivesUpOnThree, AnswerMatches
<1>6. TriesSpent'
  BY <1>1, <1>3 DEF TriesSpent, TypeOK
<1>7. LagIsKept'
  <2>1. /\ slips'.late = slips.late /\ slips'.lost = slips.lost /\ slips'.doubled = slips.doubled
        /\ slips.late \in Nat /\ slips.lost \in Nat /\ slips.doubled \in Nat
    BY <1>1 DEF TypeOK
  <2>2. ~Stream => Len(net) + slips.lost = slips.late + slips.doubled + 0
    BY <1>1 DEF IInv, BalanceIsKept, LagIsKept
  <2>3. ~Stream => Len(net') + slips'.lost = slips'.late + slips'.doubled + 1
    <3> DEFINE l == Len(net)
               k == Len(net')
               old == slips
               new == slips'
    <3>1. /\ ~Stream => k = l + 1
          /\ ~Stream => l + old.lost = old.late + old.doubled + 0
          /\ new.late = old.late /\ new.lost = old.lost /\ new.doubled = old.doubled
          /\ l \in Nat /\ old.late \in Nat /\ old.lost \in Nat /\ old.doubled \in Nat
      BY <1>1, <1>3, <2>1, <2>2
    <3>2. ~Stream => k + new.lost = new.late + new.doubled + 1
      <4> HIDE DEF l, k, old, new
      <4> QED
        BY <3>1
    <3> QED
      BY <3>2
  <2> QED
    BY <1>1, <1>2, <2>3 DEF LagIsKept
<1> QED
  BY <1>2, <1>4, <1>5, <1>6, <1>7 DEF IInv, BalanceIsKept

\* A query that comes to its end with result r, the answers in waiting still to come.
LEMMA ConcludeStep ==
  ASSUME IInv, pc = "waiting", NEW r \in Results, NEW waiting \in Seq(Query),
         Conclude(r, waiting), slips' \in [late : Nat, lost : Nat, doubled : Nat],
         r.about \subseteq {query.about},
         r.how = "no tries" => overdue + slips'.doubled >= 3,
         Stream /\ live => waiting = <<>>,
         ~Stream => Len(waiting) + slips'.lost = slips'.late + slips'.doubled + 0
  PROVE  IInv'
<1>1. /\ pc' = "idle" /\ result' = r /\ net' = waiting
      /\ UNCHANGED <<choice, live, query, tries, asked, overdue>>
  BY DEF Conclude
<1>2. FatalOnlyIfAllFail' /\ RightSocket' /\ TriedInTurn' /\ Unasked' /\ Stream' = Stream
  BY <1>1, Chosen
<1>3. TypeOK'
  BY <1>1 DEF IInv, TypeOK, choice
<1>4. OneAnswer' /\ InStep' /\ GivesUpOnThree' /\ AnswerMatches' /\ TriesSpent'
  BY <1>1, <1>2 DEF OneAnswer, InStep, GivesUpOnThree, AnswerMatches, TriesSpent
<1>5. LagIsKept'
  <2>1. ~Stream => Len(net') + slips'.lost = slips'.late + slips'.doubled + 0
    BY <1>1
  <2> QED
    BY <1>1, <1>2, <2>1 DEF LagIsKept
<1> QED
  BY <1>2, <1>3, <1>4, <1>5 DEF IInv, BalanceIsKept

\* What a query that waits has in its socket, and what taking one of it leaves.
LEMMA ReceivedOne ==
  ASSUME IInv, pc = "waiting", NEW i \in Receivable
  PROVE  LET waiting == RemoveAt(net, i) IN
         /\ i \in 1 .. Len(net) /\ net[i] \in Query /\ waiting \in Seq(Query)
         /\ Stream /\ live => net[i] = query /\ waiting = <<>>
         /\ ~Stream => Len(waiting) + slips.lost = slips.late + slips.doubled + 0
         /\ net[i].id # query.id =>
              /\ ~Stream
              /\ Cardinality(Foreign(net, query.id)) \in Nat
              /\ Cardinality(Foreign(waiting, query.id)) = Cardinality(Foreign(net, query.id)) - 1
<1> DEFINE waiting == RemoveAt(net, i)
<1>1. net \in Seq(Query) /\ Len(net) \in Nat /\ slips \in [late : Nat, lost : Nat, doubled : Nat]
  BY DEF IInv, TypeOK
<1>2. i \in 1 .. Len(net) /\ (Stream => live /\ i = 1)
  BY <1>1 DEF Receivable
<1>3. net[i] \in Query
  BY <1>1, <1>2, ElementOfSeq
<1>4. /\ waiting \in Seq(Query) /\ Len(waiting) = Len(net) - 1
      /\ net[i].id # query.id =>
           Cardinality(Foreign(waiting, query.id)) = Cardinality(Foreign(net, query.id)) - 1
  BY <1>1, <1>2, ForeignRemove
<1>5. Stream /\ live => net[i] = query /\ waiting = <<>>
  <2>1. Stream /\ live => net = <<query>> /\ i = 1
    BY <1>2 DEF IInv, OneAnswer
  <2>2. Stream /\ live => Len(waiting) = 0 /\ net[i] = query
    BY <1>1, <1>4, <2>1
  <2> QED
    BY <1>4, <2>2, EmptySeq
<1>6. ~Stream => Len(net) + slips.lost = slips.late + slips.doubled + 1
  BY DEF IInv, BalanceIsKept, LagIsKept
<1>7. ~Stream => Len(waiting) + slips.lost = slips.late + slips.doubled + 0
  BY <1>1, <1>4, <1>6
<1>8. Cardinality(Foreign(net, query.id)) \in Nat
  BY <1>1, ForeignType
<1> QED
  BY <1>2, <1>3, <1>4, <1>5, <1>7, <1>8

LEMMA AcceptStep == IInv /\ Accept => IInv'
<1> SUFFICES ASSUME IInv, Accept PROVE IInv'
  OBVIOUS
<1>1. PICK i \in Receivable, form \in Forms :
        Conclude(CheckAnswer(net[i], form), RemoveAt(net, i))
  BY DEF Accept
<1>2. pc = "waiting" /\ slips' = slips /\ slips \in [late : Nat, lost : Nat, doubled : Nat]
  BY DEF Accept, IInv, TypeOK
<1>3. /\ net[i] \in Query /\ RemoveAt(net, i) \in Seq(Query)
      /\ Stream /\ live => RemoveAt(net, i) = <<>>
      /\ ~Stream => Len(RemoveAt(net, i)) + slips.lost = slips.late + slips.doubled + 0
  BY <1>2, ReceivedOne
<1>4. /\ CheckAnswer(net[i], form) \in Results
      /\ CheckAnswer(net[i], form).about \subseteq {query.about}
      /\ CheckAnswer(net[i], form).how # "no tries"
  BY <1>3, CheckedAnswer
<1> QED
  BY <1>1, <1>2, <1>3, <1>4, ConcludeStep

LEMMA GiveUpStep == IInv /\ GiveUp => IInv'
<1> SUFFICES ASSUME IInv, GiveUp PROVE IInv'
  OBVIOUS
<1>1. PICK i \in Receivable :
        net[i].id # query.id /\ Conclude(Bogus("no tries"), RemoveAt(net, i))
  BY DEF GiveUp
<1>2. /\ pc = "waiting" /\ slips' = slips /\ slips \in [late : Nat, lost : Nat, doubled : Nat]
      /\ tries = 1 /\ overdue \in Nat
  BY DEF GiveUp, IInv, TypeOK
<1>3. /\ RemoveAt(net, i) \in Seq(Query) /\ ~Stream
      /\ Len(RemoveAt(net, i)) + slips.lost = slips.late + slips.doubled + 0
      /\ Cardinality(Foreign(net, query.id)) \in Nat
      /\ Cardinality(Foreign(RemoveAt(net, i), query.id))
           = Cardinality(Foreign(net, query.id)) - 1
  BY <1>1, <1>2, ReceivedOne
<1>4. overdue + slips.doubled >= 3
  <2>1. Cardinality(Foreign(RemoveAt(net, i), query.id)) \in Nat
    BY <1>3, ForeignType
  <2>2. Cardinality(Foreign(net, query.id)) + 3 - tries <= overdue + slips.doubled
    BY <1>2 DEF IInv, TriesSpent
  <2> QED
    BY <1>2, <1>3, <2>1, <2>2
<1>5. Bogus("no tries") \in Results /\ Bogus("no tries").about = {}
  BY ResultsType
<1> QED
  BY <1>1, <1>2, <1>3, <1>4, <1>5, ConcludeStep

\* What went wrong so far, counted by kind.
Slips == [late : Nat, lost : Nat, doubled : Nat]

\* One more of a kind.
LEMMA OneMore ==
  ASSUME NEW s \in Slips, NEW n \in Nat
  PROVE  /\ [s EXCEPT !.late = n] \in Slips
         /\ [s EXCEPT !.lost = n] \in Slips
         /\ [s EXCEPT !.doubled = n] \in Slips
<1>1. [s EXCEPT !.late = n] \in Slips
  BY DEF Slips
<1>2. [s EXCEPT !.lost = n] \in Slips
  BY DEF Slips
<1>3. [s EXCEPT !.doubled = n] \in Slips
  BY DEF Slips
<1> QED
  BY <1>1, <1>2, <1>3

\* The counts are numbers, and so is each of them plus one.
LEMMA SlipsCount ==
  ASSUME NEW s \in Slips
  PROVE  /\ s.late \in Nat /\ s.lost \in Nat /\ s.doubled \in Nat
         /\ s.late + 1 \in Nat /\ s.lost + 1 \in Nat /\ s.doubled + 1 \in Nat
  BY DEF Slips

LEMMA TimesOutStep == IInv /\ TimesOut => IInv'
<1> SUFFICES ASSUME IInv, TimesOut PROVE IInv'
  OBVIOUS
<1> DEFINE n == slips.late + 1
<1>1. net \in Seq(Query) /\ slips \in Slips /\ n \in Nat
  <2>1. net \in Seq(Query) /\ slips \in Slips
    BY DEF IInv, TypeOK, Slips
  <2> QED
    BY <2>1, SlipsCount
<1>2. pc = "waiting" /\ ~Stream /\ Conclude(Bogus("no reply"), net)
  BY DEF TimesOut
<1>3. slips' = [slips EXCEPT !.late = n]
  BY DEF TimesOut
<1>4. Len(net) \in Nat /\ Len(net) + slips.lost = slips.late + slips.doubled + 1
  <2>1. Len(net) + slips.lost = slips.late + slips.doubled + 1
    BY <1>2 DEF IInv, BalanceIsKept, LagIsKept
  <2> QED
    BY <1>1, <2>1, LenProperties
<1> HIDE DEF n
<1>5. slips'.late = n /\ slips'.lost = slips.lost /\ slips'.doubled = slips.doubled
  BY <1>1, <1>3 DEF Slips
<1>6. slips' \in [late : Nat, lost : Nat, doubled : Nat]
  <2>1. slips' \in Slips
    BY <1>1, <1>3, OneMore
  <2> QED
    BY <2>1 DEF Slips
<1>7. Len(net) + slips'.lost = slips'.late + slips'.doubled + 0
  BY <1>1, <1>4, <1>5, SlipsCount DEF n
<1>8. /\ Bogus("no reply") \in Results /\ Bogus("no reply").about = {}
      /\ Bogus("no reply").how # "no tries"
  BY ResultsType
<1> QED
  BY <1>1, <1>2, <1>6, <1>7, <1>8, ConcludeStep

LEMMA OutOfOrderStep == IInv /\ OutOfOrder => IInv'
<1> SUFFICES ASSUME IInv, OutOfOrder PROVE IInv'
  OBVIOUS
<1>1. PICK i \in Receivable :
        net[i].id # query.id /\ net' = Sent(query, RemoveAt(net, i))
  BY DEF OutOfOrder
<1>2. /\ TypeOK /\ pc = "waiting" /\ pc' = pc /\ tries > 1 /\ tries \in 0 .. 3
      /\ tries' = tries - 1 /\ overdue \in Nat
      /\ UNCHANGED <<choice, live, query, result, asked, overdue, slips>>
      /\ slips \in [late : Nat, lost : Nat, doubled : Nat] /\ query \in Query
  BY DEF OutOfOrder, IInv, TypeOK
<1>3. /\ RemoveAt(net, i) \in Seq(Query) /\ ~Stream
      /\ Len(RemoveAt(net, i)) + slips.lost = slips.late + slips.doubled + 0
      /\ Cardinality(Foreign(net, query.id)) \in Nat
      /\ Cardinality(Foreign(RemoveAt(net, i), query.id))
           = Cardinality(Foreign(net, query.id)) - 1
  BY <1>1, <1>2, ReceivedOne
<1>4. net' = Append(RemoveAt(net, i), query)
  BY <1>1, <1>3 DEF Sent
<1>5. /\ net' \in Seq(Query) /\ Len(net') = Len(RemoveAt(net, i)) + 1
      /\ Cardinality(Foreign(net', query.id)) = Cardinality(Foreign(RemoveAt(net, i), query.id))
  BY <1>2, <1>3, <1>4, ForeignAppend
<1>6. FatalOnlyIfAllFail' /\ RightSocket' /\ TriedInTurn' /\ Unasked' /\ Stream' = Stream
  BY <1>2, Chosen
<1>7. TypeOK'
  BY <1>2, <1>5 DEF TypeOK, choice
<1>8. OneAnswer' /\ InStep' /\ GivesUpOnThree' /\ AnswerMatches'
  BY <1>2, <1>3, <1>6 DEF IInv, BalanceIsKept, OneAnswer, InStep, GivesUpOnThree, AnswerMatches
<1>9. LagIsKept'
  <2>1. Len(RemoveAt(net, i)) \in Nat
    BY <1>3, LenProperties
  <2>2. Len(net') + slips'.lost = slips'.late + slips'.doubled + 1
    BY <1>2, <1>3, <1>5, <2>1
  <2> QED
    BY <1>2, <2>2 DEF LagIsKept
<1>10. TriesSpent'
  <2>1. Cardinality(Foreign(net, query.id)) + 3 - tries <= overdue + slips.doubled
    BY <1>2 DEF IInv, TriesSpent
  <2>2. /\ query' = query /\ tries' >= 1
        /\ Cardinality(Foreign(net', query.id)) + 3 - tries' <= overdue' + slips'.doubled
    BY <1>2, <1>3, <1>5, <2>1
  <2> QED
    BY <2>2 DEF TriesSpent
<1> QED
  BY <1>6, <1>7, <1>8, <1>9, <1>10 DEF IInv, BalanceIsKept

LEMMA StreamFailsStep == IInv /\ StreamFails => IInv'
<1> SUFFICES ASSUME IInv, StreamFails PROVE IInv'
  OBVIOUS
<1>1. /\ TypeOK /\ pc = "waiting" /\ Stream /\ pc' = "idle" /\ live' = FALSE
      /\ result' = Bogus("no reply")
      /\ UNCHANGED <<choice, query, tries, net, asked, overdue, slips>>
  BY DEF IInv, StreamFails
<1>2. FatalOnlyIfAllFail' /\ RightSocket' /\ TriedInTurn' /\ Unasked' /\ Stream' = Stream
  BY <1>1, Chosen
<1>3. /\ Bogus("no reply") \in Results /\ Bogus("no reply").about = {}
      /\ Bogus("no reply").how # "no tries"
  BY ResultsType
<1>4. TypeOK'
  BY <1>1, <1>3 DEF TypeOK, choice
<1>5. OneAnswer' /\ InStep' /\ LagIsKept' /\ GivesUpOnThree' /\ AnswerMatches' /\ TriesSpent'
  BY <1>1, <1>2, <1>3
    DEF OneAnswer, InStep, LagIsKept, GivesUpOnThree, AnswerMatches, TriesSpent
<1> QED
  BY <1>2, <1>4, <1>5 DEF IInv, BalanceIsKept

LEMMA CrashStep == IInv /\ Crash => IInv'
<1> SUFFICES ASSUME IInv, Crash PROVE IInv'
  OBVIOUS
<1>1. /\ TypeOK /\ pc = "waiting" /\ pc' = "aborted"
      /\ UNCHANGED <<choice, query, tries, result, asked, overdue, slips>>
  BY DEF IInv, Crash, StreamCut, SocketError
<1>2. live' \in BOOLEAN /\ net' \in Seq(Query)
  <2>1. CASE StreamCut
    BY <1>1, <2>1, HeadTailProperties DEF TypeOK, StreamCut
  <2>2. CASE SocketError
    BY <1>1, <2>2 DEF TypeOK, SocketError
  <2> QED
    BY <2>1, <2>2 DEF Crash
<1>3. FatalOnlyIfAllFail' /\ RightSocket' /\ TriedInTurn' /\ Unasked' /\ Stream' = Stream
  BY <1>1, Chosen
<1>4. TypeOK'
  BY <1>1, <1>2 DEF TypeOK, choice
<1>5. OneAnswer' /\ InStep' /\ LagIsKept' /\ TriesSpent'
  BY <1>1 DEF OneAnswer, InStep, LagIsKept, TriesSpent
<1>6. GivesUpOnThree' /\ AnswerMatches'
  BY <1>1 DEF IInv, BalanceIsKept, GivesUpOnThree, AnswerMatches
<1> QED
  BY <1>3, <1>4, <1>5, <1>6 DEF IInv, BalanceIsKept

\* What a datagram on its way can come to, the resolver doing nothing.
LEMMA NetworkStep ==
  ASSUME IInv, ~Stream, pc # "connecting", net' \in Seq(Query), slips' \in Slips,
         UNCHANGED <<choice, pc, live, query, tries, result, asked, overdue>>,
         Len(net') + slips'.lost + slips.doubled = Len(net) + slips.lost + slips'.doubled,
         slips'.late = slips.late, slips'.doubled >= slips.doubled,
         Cardinality(Foreign(net', query.id)) - slips'.doubled
           <= Cardinality(Foreign(net, query.id)) - slips.doubled
  PROVE  IInv'
<1>1. /\ TypeOK /\ slips \in Slips /\ net \in Seq(Query) /\ query \in Query
      /\ tries \in 0 .. 3 /\ overdue \in Nat
  BY DEF IInv, TypeOK, Slips
<1>2. /\ Len(net) \in Nat /\ Len(net') \in Nat
      /\ Cardinality(Foreign(net, query.id)) \in Nat
      /\ Cardinality(Foreign(net', query.id)) \in Nat
  BY <1>1, ForeignType, LenProperties
<1>3. /\ slips.late \in Nat /\ slips.lost \in Nat /\ slips.doubled \in Nat
      /\ slips'.late \in Nat /\ slips'.lost \in Nat /\ slips'.doubled \in Nat
  BY <1>1, SlipsCount
<1>4. FatalOnlyIfAllFail' /\ RightSocket' /\ TriedInTurn' /\ Unasked' /\ Stream' = Stream
  BY Chosen
<1>5. TypeOK'
  BY <1>1 DEF TypeOK, choice, Slips
<1>6. OneAnswer' /\ InStep' /\ AnswerMatches'
  BY <1>4 DEF IInv, OneAnswer, InStep, AnswerMatches
<1>7. GivesUpOnThree'
  <2>1. result.how = "no tries" => overdue + slips.doubled >= 3
    BY DEF IInv, BalanceIsKept, GivesUpOnThree
  <2>2. overdue + slips.doubled >= 3 => overdue + slips'.doubled >= 3
    BY <1>1, <1>3
  <2> QED
    BY <2>1, <2>2 DEF GivesUpOnThree
<1>8. LagIsKept'
  <2>1. /\ pc = "waiting" => Len(net) + slips.lost = slips.late + slips.doubled + 1
        /\ pc = "idle" => Len(net) + slips.lost = slips.late + slips.doubled + 0
    BY DEF IInv, BalanceIsKept, LagIsKept
  <2>2. ASSUME NEW k \in Nat, Len(net) + slips.lost = slips.late + slips.doubled + k
        PROVE  Len(net') + slips'.lost = slips'.late + slips'.doubled + k
    <3>1. PICK n \in Nat, m \in Nat, lost \in Nat, gone \in Nat, late \in Nat,
               doubled \in Nat, twice \in Nat :
            /\ n = Len(net) /\ m = Len(net') /\ lost = slips.lost /\ gone = slips'.lost
            /\ late = slips.late /\ doubled = slips.doubled /\ twice = slips'.doubled
      BY <1>2, <1>3
    <3>2. n + lost = late + doubled + k /\ m + gone + doubled = n + lost + twice
      BY <2>2, <3>1
    <3>3. m + gone = late + twice + k
      BY <3>2
    <3> QED
      BY <3>1, <3>3
  <2> QED
    BY <2>1, <2>2 DEF LagIsKept
<1>9. TriesSpent'
  <2>1. pc = "waiting" =>
          tries >= 1 /\ Cardinality(Foreign(net, query.id)) + 3 - tries <= overdue + slips.doubled
    BY DEF IInv, TriesSpent
  <2>2. pc = "waiting" =>
          tries >= 1
          /\ Cardinality(Foreign(net', query.id)) + 3 - tries <= overdue + slips'.doubled
    BY <1>1, <1>2, <1>3, <2>1
  <2> QED
    BY <2>2 DEF TriesSpent
<1> QED
  BY <1>4, <1>5, <1>6, <1>7, <1>8, <1>9 DEF IInv, BalanceIsKept

LEMMA LoseStep == IInv /\ Lose => IInv'
<1> SUFFICES ASSUME IInv, Lose PROVE IInv'
  OBVIOUS
<1> DEFINE n == slips.lost + 1
<1>1. PICK i \in 1 .. Len(net) : net' = RemoveAt(net, i)
  BY DEF Lose
<1>2. /\ ~Stream /\ slips' = [slips EXCEPT !.lost = n]
      /\ UNCHANGED <<choice, pc, live, query, tries, result, asked, overdue>>
  BY DEF Lose
<1>3. net \in Seq(Query) /\ slips \in Slips /\ n \in Nat
  <2>1. net \in Seq(Query) /\ slips \in Slips
    BY DEF IInv, TypeOK, Slips
  <2> QED
    BY <2>1, SlipsCount
<1>4. /\ net' \in Seq(Query) /\ Len(net') = Len(net) - 1
      /\ Cardinality(Foreign(net', query.id)) <= Cardinality(Foreign(net, query.id))
  BY <1>1, <1>3, ForeignRemove
<1>5. pc # "connecting"
  <2>1. net # <<>>
    BY <1>1, <1>3
  <2> QED
    BY <2>1 DEF IInv, Unasked
<1> HIDE DEF n
<1>6. slips' \in Slips /\ slips'.late = slips.late /\ slips'.doubled = slips.doubled
  <2>1. slips'.late = slips.late /\ slips'.doubled = slips.doubled
    BY <1>2, <1>3 DEF Slips
  <2> QED
    BY <1>2, <1>3, <2>1, OneMore
<1>7. slips'.lost = n
  BY <1>2, <1>3 DEF Slips
<1>8. /\ Len(net) \in Nat /\ Cardinality(Foreign(net, query.id)) \in Nat
      /\ Cardinality(Foreign(net', query.id)) \in Nat
  BY <1>3, <1>4, ForeignType, LenProperties
<1>9. Len(net') + slips'.lost + slips.doubled = Len(net) + slips.lost + slips'.doubled
  <2>1. slips.lost \in Nat /\ slips.doubled \in Nat
    BY <1>3, SlipsCount
  <2> QED
    BY <1>4, <1>6, <1>7, <1>8, <2>1 DEF n
<1>10. /\ slips'.doubled >= slips.doubled
       /\ Cardinality(Foreign(net', query.id)) - slips'.doubled
            <= Cardinality(Foreign(net, query.id)) - slips.doubled
  BY <1>3, <1>4, <1>6, <1>8, SlipsCount
<1> QED
  BY <1>2, <1>4, <1>5, <1>6, <1>9, <1>10, NetworkStep

LEMMA DoubleStep == IInv /\ Double => IInv'
<1> SUFFICES ASSUME IInv, Double PROVE IInv'
  OBVIOUS
<1> DEFINE n == slips.doubled + 1
<1>1. PICK i \in 1 .. Len(net) : net' = Append(net, net[i])
  BY DEF Double
<1>2. /\ ~Stream /\ slips' = [slips EXCEPT !.doubled = n]
      /\ UNCHANGED <<choice, pc, live, query, tries, result, asked, overdue>>
  BY DEF Double
<1>3. net \in Seq(Query) /\ slips \in Slips /\ n \in Nat /\ net[i] \in Query
  <2>1. net \in Seq(Query) /\ slips \in Slips
    BY DEF IInv, TypeOK, Slips
  <2>2. net[i] \in Query
    BY <2>1, ElementOfSeq
  <2> QED
    BY <2>1, <2>2, SlipsCount
<1>4. /\ net' \in Seq(Query) /\ Len(net') = Len(net) + 1
      /\ Cardinality(Foreign(net', query.id)) <= Cardinality(Foreign(net, query.id)) + 1
  BY <1>1, <1>3, ForeignAppend
<1>5. pc # "connecting"
  <2>1. net # <<>>
    BY <1>1, <1>3
  <2> QED
    BY <2>1 DEF IInv, Unasked
<1> HIDE DEF n
<1>6. slips' \in Slips /\ slips'.late = slips.late /\ slips'.lost = slips.lost
  <2>1. slips'.late = slips.late /\ slips'.lost = slips.lost
    BY <1>2, <1>3 DEF Slips
  <2> QED
    BY <1>2, <1>3, <2>1, OneMore
<1>7. slips'.doubled = n
  BY <1>2, <1>3 DEF Slips
<1>8. /\ Len(net) \in Nat /\ Cardinality(Foreign(net, query.id)) \in Nat
      /\ Cardinality(Foreign(net', query.id)) \in Nat
  BY <1>3, <1>4, ForeignType, LenProperties
<1>9. Len(net') + slips'.lost + slips.doubled = Len(net) + slips.lost + slips'.doubled
  <2>1. slips.lost \in Nat /\ slips.doubled \in Nat
    BY <1>3, SlipsCount
  <2>2. slips'.lost = slips.lost /\ slips'.doubled = slips.doubled + 1
    BY <1>6, <1>7 DEF n
  <2>3. Len(net') = Len(net) + 1 /\ Len(net) \in Nat
    BY <1>4, <1>8
  <2> QED
    BY <2>1, <2>2, <2>3
<1>10. /\ slips'.doubled >= slips.doubled
       /\ Cardinality(Foreign(net', query.id)) - slips'.doubled
            <= Cardinality(Foreign(net, query.id)) - slips.doubled
  <2>1. slips.doubled \in Nat
    BY <1>3, SlipsCount
  <2> QED
    BY <1>4, <1>6, <1>7, <1>8, <2>1 DEF n
<1> QED
  BY <1>2, <1>4, <1>5, <1>6, <1>9, <1>10, NetworkStep

LEMMA NextIInv == IInv /\ [Next]_vars => IInv'
<1> SUFFICES ASSUME IInv, [Next]_vars PROVE IInv'
  OBVIOUS
<1>1. CASE Construct
  BY <1>1, ConstructStep
<1>2. CASE Ask
  BY <1>2, AskStep
<1>3. CASE Answer
  <2>1. CASE Accept
    BY <2>1, AcceptStep
  <2>2. CASE OutOfOrder
    BY <2>2, OutOfOrderStep
  <2>3. CASE GiveUp
    BY <2>3, GiveUpStep
  <2>4. CASE TimesOut
    BY <2>4, TimesOutStep
  <2>5. CASE StreamFails
    BY <2>5, StreamFailsStep
  <2> QED
    BY <1>3, <2>1, <2>2, <2>3, <2>4, <2>5 DEF Answer
<1>4. CASE Crash
  BY <1>4, CrashStep
<1>5. CASE Lose
  BY <1>5, LoseStep
<1>6. CASE Double
  BY <1>6, DoubleStep
<1>7. CASE UNCHANGED vars
  <2>1. UNCHANGED <<table, pc, ns, left, tried, fd, live, query, tries, result, net, asked,
                    overdue, slips>>
    BY <1>7 DEF vars
  <2>2. TypeOK' /\ FatalOnlyIfAllFail' /\ RightSocket' /\ AnswerMatches'
    BY <2>1 DEF IInv, TypeOK, FatalOnlyIfAllFail, RightSocket, AnswerMatches, Stream
  <2>3. BalanceIsKept' /\ TriedInTurn' /\ Unasked' /\ OneAnswer' /\ TriesSpent'
    BY <2>1 DEF IInv, BalanceIsKept, InStep, LagIsKept, GivesUpOnThree, TriedInTurn, Behind,
                Unasked, OneAnswer, TriesSpent, Foreign, Stream
  <2> QED
    BY <2>2, <2>3 DEF IInv
<1> QED
  BY <1>1, <1>2, <1>3, <1>4, <1>5, <1>6, <1>7 DEF Next

LEMMA AlwaysIInv == Spec => []IInv
<1> QED
  BY InitIInv, NextIInv, PTL DEF Spec
-----------------------------------------------------------------------------
(***************************************************************************)
(* The theorems.                                                           *)
(***************************************************************************)
\* Whatever entry the random start picks and however long the table is, Resolver's
\* constructor says that no name server is left only when it has tried each of them, and
\* otherwise leaves the socket of the one it chose, the kind xchg expects.
THEOREM DnsEveryServerIsTried == Spec => []EveryServerIsTried
<1>1. IInv => EveryServerIsTried
  BY DEF IInv, EveryServerIsTried
<1> QED
  BY <1>1, AlwaysIInv, PTL

\* However many answers to earlier questions are still arriving, and however many of them
\* have the identifier of this one, the answer Query keeps is about the question it asked.
THEOREM DnsAnswerMatches == Spec => []AnswerMatches
<1>1. IInv => AnswerMatches
  BY DEF IInv
<1> QED
  BY <1>1, AlwaysIInv, PTL

\* How far the answers are behind the questions is what was lost, doubled and not waited
\* for, for any number of each: Query::xchg_ neither works the lag off nor adds to it, and
\* runs out of tries only when three answers were there to be read before its own.
THEOREM DnsBalanceIsKept == Spec => []BalanceIsKept
<1>1. IInv => BalanceIsKept
  BY DEF IInv
<1> QED
  BY <1>1, AlwaysIInv, PTL
=============================================================================
