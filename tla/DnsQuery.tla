------------------------------- MODULE DnsQuery -------------------------------
(***************************************************************************)
(* Class Resolver and class Query of DNS.cpp: how a name server is chosen, *)
(* and how the answer to a question is told from the late answers to the   *)
(* ones before it.  All the questions of one resolver go over one socket.  *)
(* Over a stream a read that fails puts the stream in a failed state for   *)
(* good; over datagrams an answer may be late, lost or duplicated, and     *)
(* stays in the socket for the next question to find.                      *)
(***************************************************************************)
EXTENDS Integers, Sequences, SequencesExt

CONSTANTS
  NameServers,  \* how many name servers the table has
  Kinds,        \* what an entry may be: "stream" (with TLS or not), "dgram"
  Ids,          \* the identifiers a query may draw
  Questions,    \* the names and types asked for
  MaxAsked,     \* bound: questions asked
  MaxSlips      \* bound: answers not waited for, packets lost, packets duplicated (each)

ASSUME DnsAssumption ==
  /\ NameServers \in Nat \ {0}
  /\ Kinds \subseteq {"stream", "dgram"}
  /\ Ids # {} /\ Questions # {}
  /\ MaxAsked \in Nat
  /\ MaxSlips \in Nat

VARIABLES
  table,   \* Config::nameservers: the kind of each entry
  pc,      \* "connecting", "idle", "waiting", "fatal" or "aborted"
  ns,      \* ns_: the entry in use, from 0
  left,    \* tries the constructor has left
  tried,   \* history: the entries it tried
  fd,      \* ns_fd_ is an open descriptor (and not -1)
  live,    \* the stream of ns_sock_ is good
  query,   \* q_: the identifier and the question
  tries,   \* tries xchg_ has left
  result,  \* a_ and bogus_or_indeterminate_
  net,     \* the answers on their way, first sent first
  asked,   \* history: questions asked
  overdue, \* history: the answers on their way when the last question was asked
  slips    \* history: answers not waited for, packets lost, packets duplicated

choice == <<table, ns, left, tried, fd>>
vars == <<table, pc, ns, left, tried, fd, live, query, tries, result, net, asked, overdue, slips>>

Entries == 0 .. NameServers - 1

\* What arrives: all of an answer; less than a header; an answer check_answer refuses.
Forms == {"whole", "small", "cut"}

Query == [id : Ids, about : Questions]

\* What a question comes to.
Pending == [how |-> "pending", about |-> {}]
Bogus(why) == [how |-> why, about |-> {}]
Answered(p) == [how |-> "whole", about |-> {p.about}]

Stream == table[ns] # "dgram"

Init ==
  /\ table \in [Entries -> Kinds]
  /\ ns \in Entries
  /\ left = NameServers
  /\ tried = {}
  /\ pc = "connecting"
  /\ fd = FALSE
  /\ live = FALSE
  /\ query = CHOOSE q \in Query : TRUE
  /\ tries = 0
  /\ result = Pending
  /\ net = <<>>
  /\ asked = 0
  /\ overdue = 0
  /\ slips = [late |-> 0, lost |-> 0, doubled |-> 0]
-------------------------------------------------------------------------------
(* Resolver::Resolver: from a random entry on, each entry once. *)

\* Wrong: the entry after the last is taken to be the second.
Following_SkipsFirst(n) == IF n + 1 = NameServers THEN 1 % NameServers ELSE n + 1

Following(n) == IF n + 1 = NameServers THEN 0 ELSE n + 1

exchange == <<query, tries, result, net, asked, overdue, slips>>

NextEntry ==
  /\ pc = "connecting" /\ left > 0
  /\ left' = left - 1
  /\ ns' = Following(ns)
  /\ tried' = tried \cup {ns'}
  /\ UNCHANGED <<table, exchange>>

\* connect() fails, or the name server's certificate is not verified.
TryFails ==
  /\ NextEntry
  /\ fd' = FALSE
  /\ UNCHANGED <<pc, live>>

\* The descriptor of a stream belongs to its Sock from now on.
TryConnects ==
  /\ NextEntry
  /\ pc' = "idle"
  /\ fd' = (table[ns'] = "dgram")
  /\ live' = (table[ns'] # "dgram")

NoneLeft ==
  /\ pc = "connecting" /\ left = 0
  /\ pc' = "fatal"
  /\ UNCHANGED <<choice, live, exchange>>
-------------------------------------------------------------------------------
(* Resolver::xchg: one question sent, one answer read. *)

\* A name server answers what it gets, with the identifier and the question it got; a
\* stream that has failed carries nothing.
Sent(q, sofar) == IF Stream /\ ~live THEN sofar ELSE Append(sofar, q)

\* Query::Query: the identifier is random, and may be that of an earlier query.
Ask ==
  /\ pc = "idle" /\ asked < MaxAsked
  /\ pc' = "waiting"
  /\ query' \in Query
  /\ tries' = 3
  /\ result' = Pending
  /\ net' = Sent(query', net)
  /\ asked' = asked + 1
  /\ overdue' = Len(net)
  /\ UNCHANGED <<choice, live, slips>>

Conclude(r, waiting) ==
  /\ pc' = "idle"
  /\ result' = r
  /\ net' = waiting
  /\ UNCHANGED <<choice, live, query, tries, asked, overdue>>

\* Wrong: the identifier alone tells whose answer it is.
CheckAnswer_IdOnly(p, form) == IF form = "whole" THEN Answered(p) ELSE Bogus(form)

\* check_answer: the answer repeats the question, and is neither cut nor malformed; and
\* before it, the size of the packet.
CheckAnswer(p, form) ==
  IF form # "whole" THEN Bogus(form)
  ELSE IF p.about = query.about THEN Answered(p) ELSE Bogus("another")

\* Of datagrams any may come first.
Receivable == IF Stream THEN {i \in 1 .. Len(net) : live /\ i = 1} ELSE 1 .. Len(net)

\* Query::xchg_: the answer is too small, or carries the identifier of the query.
Accept ==
  /\ pc = "waiting"
  /\ \E i \in Receivable, form \in Forms :
       /\ form = "small" \/ net[i].id = query.id
       /\ Conclude(CheckAnswer(net[i], form), RemoveAt(net, i))
  /\ UNCHANGED slips

\* Wrong: an answer out of order is skipped, and the query not sent again.
OutOfOrder_NoResend ==
  /\ pc = "waiting" /\ tries > 1
  /\ \E i \in Receivable :
       /\ net[i].id # query.id
       /\ net' = RemoveAt(net, i)
  /\ tries' = tries - 1
  /\ UNCHANGED <<choice, pc, live, query, result, asked, overdue, slips>>

\* Query::xchg_: the identifier is another; the query is sent again.
OutOfOrder ==
  /\ pc = "waiting" /\ tries > 1
  /\ \E i \in Receivable :
       /\ net[i].id # query.id
       /\ net' = Sent(query, RemoveAt(net, i))
  /\ tries' = tries - 1
  /\ UNCHANGED <<choice, pc, live, query, result, asked, overdue, slips>>

\* Query::xchg_: the same, with no try left.
GiveUp ==
  /\ pc = "waiting" /\ tries = 1
  /\ \E i \in Receivable :
       /\ net[i].id # query.id
       /\ Conclude(Bogus("no tries"), RemoveAt(net, i))
  /\ UNCHANGED slips

\* Wrong: read(2) waits as long as it takes.
TimesOut_Waits == FALSE

\* POSIX::read of a datagram times out; the answer may still come.
TimesOut ==
  /\ pc = "waiting" /\ ~Stream
  /\ slips.late < MaxSlips \/ net = <<>>
  /\ Conclude(Bogus("no reply"), net)
  /\ slips' = [slips EXCEPT !.late = @ + 1]

\* The read of the length fails, or the stream had failed before: the length is 0.
StreamFails ==
  /\ pc = "waiting" /\ Stream
  /\ pc' = "idle"
  /\ live' = FALSE
  /\ result' = Bogus("no reply")
  /\ UNCHANGED <<choice, query, tries, net, asked, overdue, slips>>

\* The length came and the octets after it did not: CHECK_EQ(gcount(), sz).
StreamCut ==
  /\ pc = "waiting" /\ Stream /\ live /\ net # <<>>
  /\ pc' = "aborted"
  /\ live' = FALSE
  /\ net' = Tail(net)
  /\ UNCHANGED <<choice, query, tries, result, asked, overdue, slips>>

\* The name server cannot be reached any more: CHECK_EQ of send(2), PCHECK of read(2).
SocketError ==
  /\ pc = "waiting" /\ ~Stream
  /\ pc' = "aborted"
  /\ UNCHANGED <<choice, live, query, tries, result, net, asked, overdue, slips>>
-------------------------------------------------------------------------------
(* The network, for datagrams. *)

Lose ==
  /\ ~Stream /\ slips.lost < MaxSlips
  /\ \E i \in 1 .. Len(net) : net' = RemoveAt(net, i)
  /\ slips' = [slips EXCEPT !.lost = @ + 1]
  /\ UNCHANGED <<choice, pc, live, query, tries, result, asked, overdue>>

Double ==
  /\ ~Stream /\ slips.doubled < MaxSlips
  /\ \E i \in 1 .. Len(net) : net' = Append(net, net[i])
  /\ slips' = [slips EXCEPT !.doubled = @ + 1]
  /\ UNCHANGED <<choice, pc, live, query, tries, result, asked, overdue>>
-------------------------------------------------------------------------------
Construct == TryFails \/ TryConnects \/ NoneLeft
Answer == Accept \/ OutOfOrder \/ GiveUp \/ TimesOut \/ StreamFails
Crash == StreamCut \/ SocketError
Next == Construct \/ Ask \/ Answer \/ Crash \/ Lose \/ Double

Spec == Init /\ [][Next]_vars

\* Calls return: connect(2) and read(2) have their timeouts.
FairSpec == Spec /\ WF_vars(Construct) /\ WF_vars(Answer)
-------------------------------------------------------------------------------
(* Properties *)

Results ==
  [how : {"pending", "no tries", "no reply", "another"} \cup Forms, about : {{}} \cup {{x} : x \in Questions}]

\* Type correctness of the state of Resolver and Query.
TypeOK ==
  /\ table \in [Entries -> Kinds]
  /\ pc \in {"connecting", "idle", "waiting", "fatal", "aborted"}
  /\ ns \in Entries
  /\ left \in 0 .. NameServers
  /\ tried \subseteq Entries
  /\ fd \in BOOLEAN
  /\ live \in BOOLEAN
  /\ query \in Query
  /\ tries \in 0 .. 3
  /\ result \in Results
  /\ net \in Seq(Query)
  /\ asked \in 0 .. MaxAsked
  /\ overdue \in Nat
  /\ slips \in [late : Nat, lost : Nat, doubled : Nat]

\* "no nameservers left to try" is said only after each entry of the table was tried:
\* whatever entry the random start picks, the wrap reaches all of them.
FatalOnlyIfAllFail == pc = "fatal" => tried = Entries

\* A resolver that can be asked has the descriptor xchg's CHECKs want: none beside the
\* stream of ns_sock_, an open one for datagrams.
RightSocket == pc \in {"idle", "waiting"} => fd = ~Stream

\* The constructor leaves the resolver in a state of the right types, with the socket of the
\* server it chose, or has tried them all.
EveryServerIsTried == TypeOK /\ FatalOnlyIfAllFail /\ RightSocket

\* The answer a query keeps is about the question it asked, though answers to earlier
\* ones, some of them with the same identifier, are still arriving.
AnswerMatches == result.about \subseteq {query.about}

\* Over a stream no answer is left behind for the next question to read: between two
\* questions either nothing is on its way or the stream has failed.
InStep == Stream /\ live /\ pc = "idle" => net = <<>>

\* Sending the query again for each answer that is out of order keeps the balance: the
\* datagrams still to come are one for the question at hand, and one for each earlier
\* timeout or duplicate.  The lag a late answer causes is never worked off.
LagIsKept ==
  (~Stream /\ pc \in {"idle", "waiting"}) =>
    Len(net) + slips.lost = slips.late + slips.doubled + (IF pc = "waiting" THEN 1 ELSE 0)

\* A query fails for want of tries only if three answers to earlier ones, or duplicates,
\* were there to be read before its own.
GivesUpOnThree ==
  result.how = "no tries" => overdue + slips.doubled >= 3

\* Streams and datagrams both: how far the answers are behind the questions is accounted for
\* by what went wrong before, and by nothing else.
BalanceIsKept == InStep /\ LagIsKept /\ GivesUpOnThree

\* Every question comes to an end, with an answer, without one, or with the program.
QueryEnds == pc = "waiting" ~> pc \in {"idle", "aborted"}
===============================================================================
