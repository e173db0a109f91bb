------------------------------ MODULE MCFunctions ------------------------------
(***************************************************************************)
(* The functions of the program that keep no state, on all small inputs:   *)
(* those of MCDnsMessage, the lines of DATA, the addresses for replies,    *)
(* and the order of hosts and names.  A state is one call.                 *)
(***************************************************************************)
EXTENDS MCDnsMessage

CONSTANTS
  MaxLine,   \* see Transparency
  MinBlob,   \* see ReplyAddress
  TextSize,  \* bound: octets of a text that is sent
  Words,     \* bound: words of a local part, one less in that of the recipient
  Rrs        \* bound: records of an answer

Data == INSTANCE Transparency
Addr == INSTANCE ReplyAddress
Route == INSTANCE Routing

\* A text, sent by one of the two; found is what Send finds in front of an empty line.
SendText ==
  \E text \in Up({"x", ".", "CR", "LF"}, TextSize), by \in {"Send", "snd"}, found \in {"x", "CR"} :
    /\ by = "snd" => found = "x"
    /\ call' = [fn |-> "data", text |-> text, by |-> by, found |-> found]

LocalParts(n) == UNION {[1 .. k -> {"x", "at", "rep", "-", "_", "="}] : k \in 1 .. n}

EncodeReply ==
  \E local \in LocalParts(Words), rcpt \in LocalParts(Words - 1), odd \in BOOLEAN :
    call' = [fn |-> "reply", rep |-> Addr!FromTo(local, rcpt, odd)]

Answered ==
  [type : {"MX"}, preference : {0, 1, 2}, exchange : {"m", "n", ".", "localhost"}]
    \cup [type : {"CNAME"}, preference : {0}, exchange : {""}]

\* The records that the resolver returns, in the order the shuffle gives them.
FindReceivers ==
  \E rrs \in Up(Answered, Rrs) : call' = [fn |-> "receivers", rrs |-> rrs]

Unspecified == [length |-> 0, rank |-> 0, addresses |-> {}]
Pointers == [length : {1, 2}, rank : {1, 2}, addresses : {{}, {"addr"}, {"other"}}]

\* The pointers of an address.
FindNames == \E ptrs \in Up(Pointers, Rrs) : call' = [fn |-> "fcrdns", ptrs |-> ptrs]

Functions ==
  \/ Next
  \/ call.fn = "none" /\ (SendText \/ EncodeReply \/ FindReceivers \/ FindNames)

FunctionsSpec == Init /\ [][Functions]_call
-------------------------------------------------------------------------------
Sent ==
  IF call.by = "snd" THEN Data!Wire(call.text, Data!SndLine)
                     ELSE Data!Wire(call.text, LAMBDA line : Data!SendLine(line, call.found))

\* Whatever is in the text, the server finds the end of it where the sender has put it: not
\* before, and without complaint.
EndIsFound ==
  Is("data") =>
    LET read == Data!ReadData(Sent) IN read.how = "data_done" /\ read.next = Len(Sent) + 1

\* A line that the grammar has a rule for: no CR in it but at its end, and no longer than
\* the rule allows.
Clean(line) ==
  LET core == IF line # <<>> /\ Last(line) = "CR" THEN Front(line) ELSE line
  IN Len(core) <= MaxLine /\ \A i \in DOMAIN core : core[i] # "CR"

\* A line as it is stored: ended with CRLF, except that snd (and Send, as it happens) leaves
\* an empty line its LF alone.
Stored(line) ==
  IF line = <<>> /\ (call.by = "snd" \/ call.found = "CR") THEN <<"LF">>
  ELSE IF line # <<>> /\ Last(line) = "CR" THEN line \o <<"LF">>
  ELSE line \o <<"CR", "LF">>

\* A text of clean lines is stored as it was sent, dots and all.
LinesArrive ==
  (Is("data") /\ \A i \in DOMAIN Data!Getlines(call.text) : Clean(Data!Getlines(call.text)[i])) =>
    LET lines == Data!Getlines(call.text)
    IN Data!ReadData(Sent).text = FlattenSeq([i \in DOMAIN lines |-> Stored(lines[i])])

Encoded == Addr!EncReply(call.rep)

\* An address made by enc_reply is read by dec_reply as what it was made of, unless it is a
\* blob too short to be taken for one, or begins like a legacy address.
ReplyFindsItsWay ==
  Is("reply") =>
    (Addr!DecReply(Encoded, call.rep) = call.rep
       <=> IF Encoded.blob THEN Encoded.length >= MinBlob ELSE ~Addr!IsOld(Encoded.text))

\* src/Reply-test.cpp:95 checks that what was encoded is decoded.
ReplyRoundTrip == Is("reply") => Addr!DecReply(Encoded, call.rep) = call.rep

Found == Route!Receivers("domain", Route!Remaining(call.rrs))
Exchanges == Route!Mxs(Route!Remaining(call.rrs))
Alone == Len(Exchanges) = 1 /\ Exchanges[1].preference = 0 /\ Exchanges[1].exchange = "."

\* The hosts tried are the exchanges of the domain, each as often as the answer has it; the
\* domain itself if there is none; and no host if the domain says so.
ReceiversAreAll ==
  Is("receivers") =>
    IF Exchanges = <<>> THEN Found = <<"domain">>
    ELSE IF Alone THEN Found = <<>>
    ELSE \A name \in {"m", "n", ".", "localhost"} :
           Len(SelectSeq(Found, LAMBDA e : e = name))
             = Len(SelectSeq(Exchanges, LAMBDA rr : rr.exchange = name))

\* They are tried in the order of their preferences, if the answer holds nothing but MX.
\* (With a CNAME among them the comparison is no order, and they may be tried in any.)
ReceiversInOrder ==
  (Is("receivers") /\ ~Alone /\ \A i \in DOMAIN call.rrs : Route!IsMx(call.rrs[i])) =>
    \E p \in Permutations(DOMAIN Exchanges) :
      /\ \A i, j \in DOMAIN Exchanges : i < j => Exchanges[p[i]].preference <= Exchanges[p[j]].preference
      /\ Exchanges # <<>> => Found = [i \in DOMAIN Exchanges |-> Exchanges[p[i]].exchange]

\* The names of a client that come before the first one std::unique leaves unspecified have
\* its address, are all that have, and none is there twice; the shortest is the first.
NamesAreConfirmed ==
  Is("fcrdns") =>
    LET names == Route!Fcrdns(call.ptrs, "addr", Unspecified)
        good == SelectSeq(names, LAMBDA n : n # Unspecified)
        those == {p \in {call.ptrs[i] : i \in DOMAIN call.ptrs} : "addr" \in p.addresses}
    IN /\ {good[i] : i \in DOMAIN good} = those
       /\ Cardinality(those) = Len(good)
       /\ good # <<>> =>
            /\ SubSeq(names, 1, Len(good)) = good
            /\ \A p \in those : good[1].length <= p.length
===============================================================================
