---------------------------- MODULE MCDnsMessage ----------------------------
(***************************************************************************)
(* The functions of DnsMessage on all small names, and on answers put      *)
(* together from well-formed parts and then damaged in one place.  A state *)
(* is one call; the properties compare what it returns with a definition   *)
(* of their own.                                                           *)
(***************************************************************************)
EXTENDS DnsMessage, FiniteSets

CONSTANTS
  NameOctets,   \* the octets of the encoded names tried
  NameSize,     \* and their greatest number
  Characters,   \* the characters of the names written
  Letters       \* and their greatest number

VARIABLE call

Up(S, n) == UNION {[1 .. k -> S] : k \in 0 .. n}

NoPacket == [rcode |-> 0, tc |-> FALSE, qd |-> 1, an |-> 0, ns |-> 0, ar |-> 0, id |-> 0,
             octets |-> <<>>]

Init == call = [fn |-> "none"]

ExpandSome ==
  \E s \in Up(NameOctets, NameSize), p \in 0 .. 2 :
    call' = [fn |-> "expand_name", pkt |-> [NoPacket EXCEPT !.octets = s], p |-> p]

PutSome == \E s \in Up(Characters, Letters) : call' = [fn |-> "name_put", name |-> s]

a == 97
TheName == <<a>>
QName == <<1, a, 0>>
Again == <<192, HeaderSize>>

\* A record and its type.
Rr(owner, type, ttl0, ttl1, data) == owner \o <<type, ttl0, ttl1, Len(data)>> \o data

GoodRrs ==
  {Rr(Again, A, 0, 0, <<9>>), Rr(<<0>>, CNAME, 0, 0, Again), Rr(Again, PTR, 0, 0, <<0>>),
   Rr(Again, MX, 0, 0, <<0, 1, 0>>), Rr(QName, TXT, 0, 0, <<1, a, 0>>), Rr(Again, RRSIG, 0, 0, <<9>>),
   Rr(Again, TLSA, 0, 0, <<3, 1, 1, 9>>)}
Opts == {Rr(<<0>>, OPT, x, v, <<>>) : x \in {0, 1}, v \in {0, 1}}

\* An answer to the question (TheName, type): answers, one authority record or none, and the
\* OPT record.
Answer(type, ans, auth, opt) ==
  [NoPacket EXCEPT !.an = Len(ans), !.ns = Len(auth), !.ar = Len(opt),
     !.octets = [i \in 1 .. HeaderSize |-> 0] \o QName \o <<type>>
                \o FlattenSeq(ans) \o FlattenSeq(auth) \o FlattenSeq(opt)]

GoodAnswers ==
  {Answer(A, ans, auth, opt) :
     ans \in Up(GoodRrs, 2), auth \in Up({Rr(<<0>>, TXT, 0, 0, <<0>>)}, 1), opt \in Up(Opts, 1)}

Cut(pkt) == {[pkt EXCEPT !.octets = SubSeq(pkt.octets, 1, n)] : n \in HeaderSize .. Size(pkt) - 1}
Spoilt(pkt) ==
  {[pkt EXCEPT !.octets[i] = o] :
     i \in HeaderSize + 1 .. Size(pkt), o \in {0, 1, 2, MX, 64, 192}}
Miscounted(pkt) == {[pkt EXCEPT !.an = n] : n \in {0, 1, 3}} \cup {[pkt EXCEPT !.ar = 2]}

ReadGood == \E good \in GoodAnswers : call' = [fn |-> "good", pkt |-> good]

\* Any octet after the header changed, the packet cut anywhere, a count in the header wrong.
ReadDamaged ==
  \E good \in GoodAnswers : \E pkt \in Cut(good) \cup Spoilt(good) \cup Miscounted(good) :
    call' = [fn |-> "damaged", pkt |-> pkt]

Next == call.fn = "none" /\ (ExpandSome \/ PutSome \/ ReadGood \/ ReadDamaged)

Spec == Init /\ [][Next]_call
-----------------------------------------------------------------------------
Is(fn) == call.fn = fn
Verdict0 == CheckAnswer(call.pkt, TheName, A)

\* RFC 1035 4.1.4 as a definition of its own: the labels of the name at p, the places
\* where the reading has been, and none of them twice.
RECURSIVE Labels(_, _, _)
Labels(pkt, p, been) ==
  LET o == At(pkt, p) IN
  IF p >= Size(pkt) \/ p \in been THEN {}
  ELSE IF o = 0 THEN {<<>>}
  ELSE IF o < 64 THEN
    {<<SubSeq(pkt.octets, p + 2, p + o + 1)>> \o rest : rest \in Labels(pkt, p + o + 1, been \cup {p})}
  ELSE IF o >= 192 /\ p + 1 < Size(pkt) THEN Labels(pkt, Target(pkt, p), been \cup {p})
  ELSE {}

Joined(labels) ==
  FlattenSeq([i \in DOMAIN labels |->
    Shown(labels[i]) \o IF i < Len(labels) THEN <<Dot>> ELSE <<>>])

\* expand_name finds the name RFC 1035 says is there, and refuses what has none: pointers in
\* a loop, labels and pointers that leave the packet, the two reserved kinds of label.  The
\* length it is told to reserve is the length of what it finds.
ExpandIsReference ==
  Is("expand_name") =>
    LET got == ExpandName(call.pkt, call.p)
    IN /\ (IF got.ok THEN {got.name} ELSE {}) = {Joined(l) : l \in Labels(call.pkt, call.p, {})}
       /\ got.ok => NameLength(call.pkt, call.p) = Len(got.name)

\* The octets the caller is told to step over are labels that stand one after the other,
\* and end with the root label or with a pointer: nothing of the name follows, and they do
\* not reach past the packet.
StepsOverName ==
  (Is("expand_name") /\ ExpandName(call.pkt, call.p).ok) =>
    LET next == call.p + ExpandName(call.pkt, call.p).enc
        InPlace[p \in 0 .. Size(call.pkt)] ==
          CASE p >= Size(call.pkt) -> p
            [] At(call.pkt, p) = 0 -> p + 1
            [] At(call.pkt, p) >= 192 -> p + 2
            [] OTHER -> InPlace[p + At(call.pkt, p) + 1]
    IN next = InPlace[call.p] /\ next <= Size(call.pkt)

\* A name that is written, read and written again is the same octets: the lengths of its
\* labels, kept in eight bits, have not wrapped, and its escapes are undone once.
PutExpandPut ==
  (Is("name_put") /\ NamePut(call.name) # Malformed) =>
    LET read == ExpandName([NoPacket EXCEPT !.octets = NamePut(call.name)], 0)
    IN read.ok /\ NamePut(read.name) = NamePut(call.name)

\* The question fits the octets allocated for it: CHECK_LE(sz, sz_alloc).
QuestionFits ==
  (Is("name_put") /\ NamePut(call.name) # Malformed) =>
    Size(CreateQuestion(call.name, A, 0)) <= Allocated(call.name)

\* An answer check_answer has let through can be read: no CHECK of get_records fails, and
\* the records it returns, and the names in them, end inside the packet.
AcceptedIsReadable ==
  ((Is("good") \/ Is("damaged")) /\ ~Verdict0.bogus) =>
    LET owner == ExpandName(call.pkt, HeaderSize)
        all == Records(call.pkt, HeaderSize + owner.enc + QuestionSize, call.pkt.an)
        got == GetRecords(call.pkt)
    IN /\ all.ok /\ all.next <= Size(call.pkt)
       /\ got.how \in {"read", "bogus"}

\* The RRSIG records among the answers, which get_rr passes over.
Signatures(pkt) ==
  LET rrs == Records(pkt, HeaderSize + Len(QName) + QuestionSize, pkt.an).at
  IN {i \in DOMAIN rrs : RrType(pkt, rrs[i]) = RRSIG}

\* A well-formed answer that has a record of any kind is accepted, and its records are the
\* ones returned.  Without a single record, an OPT record included, it is refused.
GoodIsAccepted ==
  Is("good") =>
    /\ Verdict0.bogus <=> call.pkt.an + call.pkt.ns + call.pkt.ar = 0
    /\ ~Verdict0.bogus =>
         /\ GetRecords(call.pkt).how = "read"
         /\ Len(GetRecords(call.pkt).rrs) = call.pkt.an - Cardinality(Signatures(call.pkt))
=============================================================================
