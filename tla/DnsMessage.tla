------------------------------ MODULE DnsMessage ------------------------------
(***************************************************************************)
(* The packets of DNS-message.cpp: how a question is written, how a name   *)
(* is read through its compression pointers, what makes an answer one to   *)
(* believe, and how its records are read.  A packet is its header fields   *)
(* and the sequence of all its octets; places in it count from 0, as the   *)
(* pointers of RFC 1035 do.  The parts of a packet keep their order and    *)
(* the lengths of those parts are constants, shorter than the real ones.   *)
(***************************************************************************)
EXTENDS Integers, Sequences, SequencesExt

CONSTANTS
  HeaderSize,    \* sizeof(header): 12
  AddressSize,   \* the length of an address: 4 (and 16)
  MaxIndirs,     \* max_indirs: 50
  LabelWrap,     \* the range of a uint8_t: 256
  MaxLabel,      \* 63
  MaxName        \* 255

ASSUME MessageAssumption ==
  /\ {HeaderSize, AddressSize, MaxIndirs, LabelWrap, MaxLabel, MaxName} \subseteq Nat
  /\ MaxLabel < LabelWrap /\ MaxName < LabelWrap

Fail == -1

\* A question is its type (and class); a record its type (and class), the two octets of the
\* TTL that EDNS uses, and the length of its data.
QuestionSize == 1
RrSize == 4

A == 1
CNAME == 5
PTR == 12
MX == 15
TXT == 16
RRSIG == 46
OPT == 41
TLSA == 52

NoError == 0
NxDomain == 3

Size(pkt) == Len(pkt.octets)

At(pkt, i) == pkt.octets[i + 1]

Dot == 46
Backslash == 92

\* The first two bits of an octet, and the place a pointer leads to.
Top(o) == o \div 64
Pointer == 3
Target(pkt, i) == (At(pkt, i) % 64) * 256 + At(pkt, i + 1)

RrType(pkt, p) == At(pkt, p)
RdLength(pkt, p) == At(pkt, p + 3)
NextRr(pkt, p) == p + RrSize + RdLength(pkt, p)
-------------------------------------------------------------------------------
(* Names *)

Escaped(c) == c \in {Dot, Backslash}

\* Characters a label takes in the presentation of the name.
Width(label) == Len(label) + Len(SelectSeq(label, Escaped))

\* The octets of the label at p.
LabelAt(pkt, p) == SubSeq(pkt.octets, p + 2, p + 1 + At(pkt, p))

\* Wrong: a name may use one pointer only.
RECURSIVE Length_OnePointer(_, _, _, _)
Length_OnePointer(pkt, p, length, nindir) ==
  LET o == At(pkt, p) IN
  CASE o = 0 -> IF length = 0 THEN 0 ELSE length - 1
    [] Top(o) = Pointer ->
         IF \/ p + 1 >= Size(pkt)
            \/ Target(pkt, p) >= Size(pkt)
            \/ nindir + 1 > 1
         THEN Fail ELSE Length_OnePointer(pkt, Target(pkt, p), length, nindir + 1)
    [] Top(o) = 0 ->
         IF p + o + 1 >= Size(pkt) THEN Fail
         ELSE Length_OnePointer(pkt, p + o + 1, length + Width(LabelAt(pkt, p)) + 1, nindir)
    [] OTHER -> Fail

\* name_length's loop: every check of the encoding is made here.
RECURSIVE Length(_, _, _, _)
Length(pkt, p, length, nindir) ==
  LET o == At(pkt, p) IN
  CASE o = 0 -> IF length = 0 THEN 0 ELSE length - 1
    [] Top(o) = Pointer ->
         IF \/ p + 1 >= Size(pkt)
            \/ Target(pkt, p) >= Size(pkt)
            \/ nindir + 1 > Size(pkt) \/ nindir + 1 > MaxIndirs
         THEN Fail ELSE Length(pkt, Target(pkt, p), length, nindir + 1)
    [] Top(o) = 0 ->
         IF p + o + 1 >= Size(pkt) THEN Fail
         ELSE Length(pkt, p + o + 1, length + Width(LabelAt(pkt, p)) + 1, nindir)
    [] OTHER -> Fail

NameLength(pkt, p) == IF p >= Size(pkt) THEN Fail ELSE Length(pkt, p, 0, 0)

\* One label in the presentation of a name.
Shown(label) == FlattenSeq([i \in DOMAIN label |->
                  IF Escaped(label[i]) THEN <<Backslash, label[i]>> ELSE <<label[i]>>])

\* Where the name that begins at p stops in its own place: after its root label, or after
\* its first pointer.
RECURSIVE Spell(_, _, _)
Spell(pkt, p, read) ==
  LET o == At(pkt, p)
      end == IF read.indir THEN read.end ELSE p + (IF o = 0 THEN 1 ELSE 2)
  IN CASE o = 0 -> [read EXCEPT !.end = end]
       [] Top(o) = Pointer ->
            Spell(pkt, Target(pkt, p), [read EXCEPT !.end = end, !.indir = TRUE])
       [] OTHER ->
            Spell(pkt, p + o + 1, [read EXCEPT !.name = @ \o Shown(LabelAt(pkt, p)) \o <<Dot>>])

NoName == [ok |-> FALSE, name |-> <<>>, enc |-> 0]

\* expand_name: the name and the octets it takes where it stands.
ExpandName(pkt, p) ==
  LET nlen == NameLength(pkt, p)
      read == Spell(pkt, p, [name |-> <<>>, end |-> p, indir |-> FALSE])
  IN CASE nlen = Fail -> NoName
       [] nlen = 0 -> [ok |-> TRUE, name |-> <<>>,
                       enc |-> IF Top(At(pkt, p)) = Pointer THEN 2 ELSE 1]
       [] OTHER -> [ok |-> TRUE, name |-> Front(read.name), enc |-> read.end - p]

\* The first label of a name as the user wrote it, its escapes undone, and what follows
\* its dot.
RECURSIVE FirstLabel(_, _)
FirstLabel(s, label) ==
  CASE s = <<>> -> [label |-> label, rest |-> <<>>]
    [] s # <<>> /\ Head(s) = Dot -> [label |-> label, rest |-> Tail(s)]
    [] Len(s) > 1 /\ Head(s) = Backslash -> FirstLabel(SubSeq(s, 3, Len(s)), Append(label, s[2]))
    [] OTHER -> FirstLabel(Tail(s), Append(label, Head(s)))

Malformed == <<>>

\* name_put's loop; a length is kept in a uint8_t.
RECURSIVE PutLabels(_, _)
PutLabels(s, out) ==
  IF s = <<>> THEN out \o <<0>>
  ELSE LET first == FirstLabel(s, <<>>)
           len == Len(first.label) % LabelWrap
       IN IF Head(s) = Dot \/ len > MaxLabel THEN Malformed
          ELSE PutLabels(first.rest, out \o <<len>> \o first.label)

NamePut(s) ==
  LET out == PutLabels(IF s = <<Dot>> THEN <<>> ELSE s, <<>>)
  IN IF Len(out) > MaxName THEN Malformed ELSE out

\* create_question, after its CHECK that the name is well formed.
CreateQuestion(name, type, id) ==
  [rcode |-> NoError, tc |-> FALSE, qd |-> 1, an |-> 0, ns |-> 0, ar |-> 1, id |-> id,
   octets |-> [i \in 1 .. HeaderSize |-> 0] \o NamePut(name) \o <<type>> \o <<0, OPT, 0, 0, 0>>]

\* The octets create_question allocates for them.
Allocated(name) == Len(name) + 2 + HeaderSize + QuestionSize + RrSize + 1
-------------------------------------------------------------------------------
(* Answers *)

\* Domain::match: trailing dots apart.
Bare(name) == IF name # <<>> /\ Last(name) = Dot THEN Front(name) ELSE name
Match(a, b) == Bare(a) = Bare(b)

\* The record at p, after its name; refused if it is not all there.
RrAt(pkt, p) ==
  LET owner == ExpandName(pkt, p)
  IN IF owner.ok /\ p + owner.enc + RrSize <= Size(pkt)
     THEN [ok |-> TRUE, rr |-> p + owner.enc] ELSE [ok |-> FALSE, rr |-> p]

\* The places of n records from p on, as far as they can be read: each record starts where
\* the length of the one before it says.
RECURSIVE Records(_, _, _)
Records(pkt, p, n) ==
  IF n = 0 THEN [ok |-> TRUE, at |-> <<>>, next |-> p]
  ELSE LET here == RrAt(pkt, p) IN
       IF ~here.ok THEN [ok |-> FALSE, at |-> <<>>, next |-> p]
       ELSE LET others == Records(pkt, NextRr(pkt, here.rr), n - 1)
            IN [others EXCEPT !.at = <<here.rr>> \o @]

\* The code takes the place after the owner's name for the place of the name: what it reads
\* is the octet after the one meant.
ExtendedRcode(pkt, rr) == At(pkt, rr + 2) * 16 + pkt.rcode

Verdict(pkt) ==
  [nx |-> pkt.rcode = NxDomain, bogus |-> pkt.rcode \notin {NoError, NxDomain},
   truncated |-> pkt.tc, has |-> pkt.an # 0, extended |-> 0]

SizeMatches(pkt, p) == p = Size(pkt)

\* The question copied into the answer; nothing at all after it is refused as well.
QuestionMatches(pkt, owner, name, type) ==
  LET p == HeaderSize + owner.enc IN
  /\ p < Size(pkt)
  /\ Match(owner.name, name)
  /\ p + QuestionSize < Size(pkt)
  /\ At(pkt, p) = type

\* check_answer of the answer pkt to the question (name, type).
CheckAnswer(pkt, name, type) ==
  LET owner == ExpandName(pkt, HeaderSize)
      first == HeaderSize + owner.enc + QuestionSize
      answers == Records(pkt, first, pkt.an + pkt.ns)
      others == Records(pkt, answers.next, pkt.ar)
      opts == SelectSeq(others.at, LAMBDA rr : RrType(pkt, rr) = OPT)
      v == Verdict(pkt)
  IN IF \/ pkt.tc \/ pkt.qd # 1 \/ ~owner.ok
        \/ ~QuestionMatches(pkt, owner, name, type)
        \/ ~answers.ok
     THEN [v EXCEPT !.bogus = TRUE]
     ELSE [v EXCEPT
             !.extended = IF opts = <<>> THEN 0 ELSE ExtendedRcode(pkt, Last(opts)),
             !.bogus = @ \/ ~others.ok \/ ~SizeMatches(pkt, others.next)]

\* The strings of a TXT record fill its data.
RECURSIVE StringsFit(_, _, _)
StringsFit(pkt, p, end) ==
  /\ p + 1 + At(pkt, p) <= end
  /\ p + 1 + At(pkt, p) < end => StringsFit(pkt, p + 1 + At(pkt, p), end)

\* get_A, get_CNAME, get_PTR, get_MX, get_TXT, get_AAAA, get_TLSA: data of the right form.
DataOk(pkt, rr) ==
  LET data == rr + RrSize
      length == RdLength(pkt, rr)
  IN CASE RrType(pkt, rr) = A           -> length = AddressSize
       [] RrType(pkt, rr) \in {CNAME, PTR} -> ExpandName(pkt, data).ok
       [] RrType(pkt, rr) = MX          -> length >= 3 /\ ExpandName(pkt, data + 2).ok
       [] RrType(pkt, rr) = TXT         -> length >= 1 /\ StringsFit(pkt, data, NextRr(pkt, rr))
       [] RrType(pkt, rr) = TLSA        -> length >= 4
       [] OTHER                         -> TRUE

\* Records of other types, RRSIG among them, are passed over.
Kept == {A, CNAME, PTR, MX, TXT, TLSA}

\* get_records' loop: n records still to be read from p on, rrs those it has; "check" when
\* a CHECK fails.
RECURSIVE ReadRecords(_, _, _, _)
ReadRecords(pkt, p, n, rrs) ==
  LET owner == ExpandName(pkt, p)
      rr == p + owner.enc
  IN CASE n = 0 -> [how |-> "read", rrs |-> rrs]
       [] n > 0 /\ ~owner.ok -> [how |-> "check", rrs |-> <<>>]
       [] n > 0 /\ owner.ok /\ (rr + RrSize > Size(pkt) \/ rr + RdLength(pkt, rr) > Size(pkt)) ->
            [how |-> "bogus", rrs |-> <<>>]
       [] OTHER ->
            IF ~DataOk(pkt, rr) THEN [how |-> "bogus", rrs |-> <<>>]
            ELSE ReadRecords(pkt, NextRr(pkt, rr), n - 1,
                             IF RrType(pkt, rr) \in Kept THEN Append(rrs, rr) ELSE rrs)

\* get_records of an answer with one question, which is what check_answer lets through.
GetRecords(pkt) ==
  LET owner == ExpandName(pkt, HeaderSize)
  IN IF ~owner.ok THEN [how |-> "check", rrs |-> <<>>]
     ELSE ReadRecords(pkt, HeaderSize + owner.enc + QuestionSize, pkt.an, <<>>)
===============================================================================
