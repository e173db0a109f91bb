-------------------------------- MODULE MCTools --------------------------------
(***************************************************************************)
(* More functions, on all small inputs: those of TLS-OpenSSL.cpp, of conn, *)
(* of msg.cpp, of addresses and of base64, added to those of MCFunctions.  *)
(* A state is one call.                                                    *)
(***************************************************************************)
EXTENDS MCFunctions

CONSTANTS
  VerifyDepth,  \* see Certificates
  Certs,        \* bound: certificates of a server, names of each kind on one
  Steps,        \* bound: certificates in a chain, records of an answer, addresses of a family
  Fields        \* bound: fields of a message

Tls == INSTANCE Certificates
Net == INSTANCE Addresses
Msg == INSTANCE HeaderFields
Eml == INSTANCE Compose
Ip == INSTANCE IpAddress
B64 == INSTANCE Base64

Certificate ==
  [cns : Up({"a", "b", "ip"}, Certs - 1),
   sans : Up({[type |-> "DNS", name |-> "a"], [type |-> "DNS", name |-> "b"],
              [type |-> "IP4", name |-> "ip"], [type |-> "URI", name |-> "a"]}, Certs)]

\* The certificates in a directory, and the name a client asks for, or has.
ShowCertificate ==
  \E certs \in Up(Certificate, Certs) \ {<<>>}, name \in {"", "a", "b", "ip"} :
    call' = [fn |-> "cert", certs |-> certs, name |-> name]

\* The chain of a server, and the TLSA records found.
Handshake ==
  \E chain \in Up([depth : 0 .. VerifyDepth + 1, preverified : BOOLEAN], Steps),
     records \in Up({"added", "unusable", "failed", "other"}, Steps),
     authority \in BOOLEAN, enforce \in BOOLEAN :
    call' = [fn |-> "tls", chain |-> chain, records |-> records, authority |-> authority, enforce |-> enforce]

Hosts ==
  [kind : {"name"}, six : Up({"s", "t"}, Steps), four : Up({"u", "v"}, Steps)]
    \cup [kind : {"lit6"}, six : {<<"s">>}, four : {<<>>}]
    \cup [kind : {"lit4"}, six : {<<>>}, four : {<<"u">>}]

ConnectTo ==
  \E host \in Hosts, only4 \in BOOLEAN, only6 \in BOOLEAN,
     accepts \in SUBSET {"s", "t", "u", "v"}, local \in {"", "six", "four"} :
    /\ ~(only4 /\ only6)
    /\ call' = [fn |-> "conn", host |-> host, only4 |-> only4, only6 |-> only6, accepts |-> accepts, local |-> local]

Field(name, items, result, good, legible) ==
  [name |-> name, items |-> items, result |-> result, good |-> good, legible |-> legible]

Written(names, lists, goods) ==
  {Field(name, items, "", good, TRUE) : name \in names, items \in lists, good \in goods}

Pair(key, value) == <<key, value>>

FieldShapes ==
  Written({"From"}, {<<"d1">>, <<"d2">>, <<"d1", "d2">>}, {TRUE})
    \cup Written({"From", "Sender", "To", "Message-ID"}, {<<>>, <<"d2">>}, {FALSE})
    \cup Written({"Resent-From"}, {<<"d2">>}, BOOLEAN)
    \cup Written({"Sender", "Message-ID"}, {<<"d1">>, <<"d2">>}, {TRUE})
    \cup Written({"To", "References"}, {<<>>, <<"d1">>}, {TRUE})
    \cup Written({"Received", "received"}, {<<>>}, BOOLEAN)
    \cup Written({"Subject", "Content-Type"}, {<<>>}, {TRUE})
    \cup Written({"X-Other"}, {<<>>}, {FALSE})
    \cup {Field("X-Other", <<>>, "", FALSE, FALSE)}
    \cup {Field("DKIM-Signature", <<>>, result, TRUE, TRUE) : result \in {"", "refused"}}
    \cup {Field("Received-SPF", items, result, good, TRUE) :
            items \in {<<>>, <<Pair("client-ip", "ip")>>, <<Pair("client-ip", "no address")>>,
                       <<Pair("envelope-from", "d1")>>,
                       <<Pair("client-ip", "ip2"), Pair("envelope-from", "d2"), Pair("helo", "h")>>,
                       <<Pair("client-ip", "ip"), Pair("envelope-from", "no address")>>},
            result \in {"pass", "fail"}, good \in BOOLEAN}
    \cup {Field("Received-SPF", <<Pair("client-ip", "ip")>>, "refused", TRUE, TRUE)}

\* A message.
ReadMessage == \E fields \in Up(FieldShapes, Fields) : call' = [fn |-> "header", fields |-> fields]

\* The options that snd is started with.
ComposeMessage ==
  \E clientId, environment \in {"", "d1"}, fqdn \in {"", "d2"}, sender \in {"", "d3"},
     from, smtpFrom \in {"", "d4", "no address"}, to, replyTo \in {"", "d5"},
     fromName, toName \in {"", "phrase", "odd"}, useDkim \in BOOLEAN :
    call' = [fn |-> "compose",
             options |-> [clientId |-> clientId, environment |-> environment, fqdn |-> fqdn,
                          sender |-> sender, from |-> from, smtpFrom |-> smtpFrom, to |-> to,
                          replyTo |-> replyTo, fromName |-> fromName, toName |-> toName, useDkim |-> useDkim]]

\* The first octets of an IPv4 address, one of them written in any way.
ReadAddress4 ==
  \E first \in {<<9>>, <<1, 0>>, <<1, 7, 2>>, <<1, 9, 2>>}, odd \in Up({0, 1, 2, 3, 5, 6, 8}, 4) :
    \E octets \in {<<first, odd, <<1>>, <<1>>>>, <<odd, <<1, 6, 8>>, <<1>>, <<1>>>>, <<first, <<1>>, odd>>} :
      call' = [fn |-> "address4", octets |-> octets]

Groups6(n) == [i \in 1 .. IF n = 0 THEN 0 ELSE 2 * n - 1 |-> IF i % 2 = 1 THEN "h" ELSE ":"]
WithQuad(n) == IF n = 0 THEN <<"q">> ELSE Groups6(n) \o <<":", "q">>
Written6 ==
  {Groups6(n) : n \in 1 .. 9} \cup {WithQuad(n) : n \in 0 .. 8}
    \cup {Groups6(n) \o <<":", ":">> \o Groups6(m) : n \in 0 .. 8, m \in 0 .. 8}
    \cup {Groups6(n) \o <<":", ":">> \o WithQuad(m) : n \in 0 .. 7, m \in 0 .. 7}

\* The text of an IPv6 address, of too few groups or too many, or with a token changed or
\* left out.
ReadAddress6 ==
  \E good \in Written6 :
    \E text \in {good} \cup {RemoveAt(good, i) : i \in DOMAIN good}
                 \cup {[good EXCEPT ![i] = token] : i \in DOMAIN good, token \in {"h", ":", "q"}} :
      call' = [fn |-> "address6", text |-> text]

LookUp == \E octets \in [1 .. 3 -> {0, 1, 18, 52, 240}] : call' = [fn |-> "reverse", octets |-> octets]

Encode64 ==
  \E text \in Up({0, 105, 251, 255}, 5), wrap \in {0, 4, 8} : call' = [fn |-> "base64", text |-> text, wrap |-> wrap]

Tools ==
  \/ Functions
  \/ /\ call.fn = "none"
     /\ \/ ShowCertificate \/ Handshake \/ ConnectTo \/ ReadMessage \/ ComposeMessage
        \/ ReadAddress4 \/ ReadAddress6 \/ LookUp \/ Encode64

ToolsSpec == Init /\ [][Tools]_call
-------------------------------------------------------------------------------
\* Whom a certificate names, in either place; no name is that of an address.
Named(cert) ==
  (ToSet(cert.cns) \cup {san.name : san \in {s \in ToSet(cert.sans) : s.type = "DNS"}}) \ {"ip"}

\* A client that asks for a name gets a certificate that names it, if the server has one, and
\* a warning if not; a client shows a certificate that names it, and none that does not.
CertificateNamesIt ==
  (Is("cert") /\ call.name # "") =>
    LET naming == {i \in DOMAIN call.certs : call.name \in Named(call.certs[i])}
        asked == Tls!Asked(call.certs, call.name)
        presented == Tls!Presented(call.certs, call.name)
    IN IF naming = {} THEN asked.warned /\ presented = 0
                      ELSE ~asked.warned /\ asked.shown \in naming /\ presented \in naming

Judgement == Tls!Judged(call.chain, call.records, call.authority, call.enforce)

\* A server, or a client, counts as verified only if there was nothing wrong with any
\* certificate of its chain, and none was too deep, though the callback lets OpenSSL go on
\* from each; a client that shows none does not count.
VerifiedIsChecked ==
  Is("tls") =>
    LET sound == \A i \in DOMAIN call.chain : call.chain[i].preverified /\ call.chain[i].depth <= VerifyDepth
    IN /\ Judgement.verified <=> sound
       /\ Tls!Identified(call.chain # <<>>, call.chain) <=> (call.chain # <<>> /\ sound)

\* With DANE enforced, a chain that was verified, but by none of the records that could have,
\* is refused; records that could not have refuse nothing.
DaneIsEnforced ==
  Is("tls") =>
    (~Judgement.result <=> call.enforce /\ Judgement.verified /\ ~call.authority /\ "added" \in ToSet(call.records))

Connected == Net!Conn(call.host, Net!Families(call.only4, call.only6), call.accepts, call.local)

\* The addresses of the host, by family.
Six == IF call.host.kind = "lit4" THEN <<>> ELSE call.host.six
Four == IF call.host.kind = "lit6" THEN <<>> ELSE call.host.four

Answers(address) == address \in call.accepts

\* Unless the attempt was given up, it ended at the first address that takes a connection.
EndsAtFirst(c, addresses) ==
  /\ IsPrefix(c.tried, addresses)
  /\ c.fd # "aborted" =>
       IF \E i \in DOMAIN addresses : Answers(addresses[i])
         THEN c.fd = Head(SelectSeq(addresses, Answers)) /\ Last(c.tried) = c.fd
         ELSE c.fd = "none" /\ c.tried = addresses

\* The connection of snd is to the first address that takes one, those of IPv6 first, and
\* to no address before one was refused by all that come first; it is given up when a family
\* is tried that the local address is not of, though the host may have no address of it.
\* Send does so with the addresses of IPv4 alone.
FirstThatAnswers ==
  Is("conn") =>
    LET sent == Net!SendConn(call.host, call.accepts, call.local) IN
    /\ EndsAtFirst(Connected, (IF call.only4 THEN <<>> ELSE Six) \o (IF call.only6 THEN <<>> ELSE Four))
    /\ Connected.fd = "aborted" <=>
         \/ call.local = "four" /\ ~call.only4
         \/ call.local = "six" /\ ~call.only6 /\ (call.only4 \/ ~\E i \in DOMAIN Six : Answers(Six[i]))
    /\ EndsAtFirst(sent, Four)
    /\ sent.fd = "aborted" <=> call.local = "six"

\* No socket is left open but that of the connection.
SocketsAreClosed ==
  (Is("conn") /\ Connected.fd # "aborted") => Connected.open = (IF Connected.fd = "none" THEN 0 ELSE 1)

Read == Msg!Parse(call.fields)

\* The fields of a name that are good, and what the last one of them says.
GoodOnes(name) == SelectSeq(call.fields, LAMBDA f : f.name = name /\ f.good)
Said(name, default) == IF GoodOnes(name) = <<>> THEN default ELSE Last(GoodOnes(name)).items

\* DKIM is given each field once and in order, good or not, but for a good Received-SPF.
FieldsAreFed ==
  (Is("header") /\ Read.state = "read") =>
    Read.fed = SelectSeq(call.fields, LAMBDA f : ~(f.name = "Received-SPF" /\ f.good))

\* What the Received-SPF fields up to the i-th, good or not, say last of a key.
Told(key, i) ==
  LET spfs == SelectSeq(SubSeq(call.fields, 1, i), LAMBDA f : f.name = "Received-SPF")
      pairs == SelectSeq(FlattenSeq([k \in DOMAIN spfs |-> spfs[k].items]), LAMBDA pair : pair[1] = key)
  IN IF pairs = <<>> THEN Msg!Absent ELSE Last(pairs)[2]

\* The i-th field ends the program: libopendkim or libspf2 refuses it, or it is a Received-SPF
\* when no address of the client is known, or no domain can be read from the sender's.
EndsProgram(i) ==
  /\ call.fields[i].good
  /\ \/ call.fields[i].result = "refused"
     \/ /\ call.fields[i].name = "Received-SPF"
        /\ \/ Told("client-ip", i) \in {Msg!Absent, "no address"}
           \/ Told("envelope-from", i) = "no address"

\* The authors, the sender and the message ID are those of the last good fields of these
\* names, whatever the rules that failed have gathered; the program ends at a field that
\* ends it, if it gets to one, and never else: CHECK_EQ(mb_list.size(), 1) does not fail.
AddressesStay ==
  Is("header") =>
    /\ Read.state = "read" =>
         /\ Read.fromList = Said("From", <<>>)
         /\ Read.sender = Said("Sender", <<Msg!Absent>>)[1]
         /\ Read.messageId = Said("Message-ID", <<"">>)[1]
         /\ Read.mbList = <<>>
    /\ Read.state = "aborted" <=>
         \E i \in DOMAIN call.fields :
           EndsProgram(i) /\ \A j \in 1 .. i - 1 : call.fields[j].good \/ call.fields[j].legible

\* DMARC is asked about the domain of the author, if there is one; about none if there is
\* none, or several and no sender.
DmarcIsOfTheAuthor ==
  (Is("header") /\ Read.state = "read") =>
    LET authors == Said("From", <<>>) IN
    /\ Len(authors) = 1 => Read.asked = authors[1]
    /\ (authors = <<>> \/ (Len(authors) > 1 /\ GoodOnes("Sender") = <<>>)) => Read.asked = Msg!Absent

\* What DMARC has been told is the result of the last good Received-SPF, for the address and
\* the domain that were last named in this field or in any before it, good or not.
SpfIsOfItsField ==
  (Is("header") /\ Read.state = "read" /\ GoodOnes("Received-SPF") # <<>>) =>
    LET Good(i) == call.fields[i].name = "Received-SPF" /\ call.fields[i].good
        at == CHOOSE i \in DOMAIN call.fields :
                Good(i) /\ \A j \in i + 1 .. Len(call.fields) : ~Good(j)
    IN /\ Read.policy.ip = Told("client-ip", at)
       /\ Read.policy.domain = Told("envelope-from", at)
       /\ Read.policy.domain # Msg!Absent => Read.policy.outcome = Msg!Outcome(call.fields[at].result)

Understood == Msg!Parse(Eml!Composed(call.options))

\* A message that snd composes is read with one author, the one it is signed by, so that DMARC
\* is asked about the domain of the signature; unless the name in front of the author is none.
SignedByTheAuthor ==
  (Is("compose") /\ Eml!Starts(call.options)) =>
    /\ Understood.state = "read"
    /\ Understood.asked = (IF call.options.fromName = "odd" THEN Msg!Absent ELSE Eml!Signer(call.options))
    /\ Understood.fed = Eml!Composed(call.options)
    /\ Understood.errors = Cardinality({o \in {"fromName", "toName"} : call.options[o] = "odd"})

\* The text of an address is four numbers of at most three digits that octets can have, though
\* the grammar never computes them.
OctetsAreBytes ==
  Is("address4") =>
    (Ip!IsAddress4(call.octets) <=>
       /\ Len(call.octets) = 4
       /\ \A i \in 1 .. 4 : Len(call.octets[i]) \in 1 .. 3 /\ Ip!Value(call.octets[i]) <= 255)

\* Written without needless zeros, an address is private if it is in a block of RFC 1918.
PrivateIsRfc1918 ==
  (/\ Is("address4")
   /\ Ip!IsAddress4(call.octets)
   /\ \A i \in 1 .. 4 : Len(call.octets[i]) > 1 => call.octets[i][1] # 0) =>
    LET number == (256 * Ip!Value(call.octets[1])) + Ip!Value(call.octets[2]) IN
    Ip!IsPrivate4(call.octets) <=>
      \/ number \div 256 = 10
      \/ number \div 16 = (172 * 16) + 1
      \/ number = (192 * 256) + 168

\* The text of an IPv6 address has eight groups, or fewer around one "::"; two of them may be
\* written as an IPv4 address, at the end.
GroupsAreEight ==
  Is("address6") =>
    (Ip!IsAddress6(call.text) <=>
       \/ call.text = Groups6(8) \/ call.text = WithQuad(6)
       \/ \E n \in 0 .. 7 :
            \/ \E m \in 0 .. 7 - n : call.text = Groups6(n) \o <<":", ":">> \o Groups6(m)
            \/ \E m \in 0 .. 5 - n : call.text = Groups6(n) \o <<":", ":">> \o WithQuad(m))

\* The labels an address is looked up by, read from the last one, are its half octets.
LabelsAreTheAddress ==
  Is("reverse") =>
    LET labels == Reverse(Ip!Reverse6(call.octets)) IN
    call.octets = [i \in 1 .. Len(labels) \div 2 |-> (16 * labels[2 * i - 1]) + labels[2 * i]]

Encoding64 == B64!Enc(call.text, call.wrap)

\* What has been encoded is decoded again, in lines or not.
EncodingComesBack ==
  (Is("base64") /\ Encoding64.ok) => B64!Dec(Encoding64.text) = [ok |-> TRUE, text |-> call.text]

\* CHECK_EQ(enc_text.length(), total_size) fails for a text that ends with padding at the end
\* of a full line, and for no other; without lines, never.
EncodingIsMeasured ==
  Is("base64") =>
    (~Encoding64.ok <=>
       /\ call.wrap > 0
       /\ Len(call.text) % 3 # 0
       /\ (((Len(call.text) + 2) \div 3) * 4) % call.wrap = 0)
-------------------------------------------------------------------------------
(* What the runs check, by what the program does with these functions. *)

\* DNS: names and answers are read as RFC 1035 writes them, and written within their bounds.
NamesAreRead == ExpandIsReference /\ StepsOverName /\ PutExpandPut /\ QuestionFits /\ AcceptedIsReadable /\ GoodIsAccepted

\* DATA: a text of lines that the grammar has a rule for is stored as it was sent, by Send and
\* by snd, and its end is found.
DataArrives == EndIsFound /\ LinesArrive

\* What enc_reply and Base64::enc have encoded is decoded to what it was.
EncodedIsDecoded == ReplyFindsItsWay /\ EncodingComesBack /\ EncodingIsMeasured

\* Sending: the hosts of a domain and then the addresses of a host are tried in their order, none
\* is left out, no socket is left behind, and the names of a client are those it confirms.
ServersAreReached ==
  ReceiversAreAll /\ ReceiversInOrder /\ FirstThatAnswers /\ SocketsAreClosed /\ NamesAreConfirmed

\* Header fields: a message, one that snd has composed too, is judged by its own authors, sender and
\* signature, and by the results in its own fields.
FieldsAreHeld ==
  FieldsAreFed /\ AddressesStay /\ DmarcIsOfTheAuthor /\ SpfIsOfItsField /\ SignedByTheAuthor

\* TLS: certificates are chosen by the name asked for, and a peer is judged by all of its chain.
PeerIsChecked == CertificateNamesIt /\ VerifiedIsChecked /\ DaneIsEnforced

\* Addresses: the grammars take the texts of addresses and no others, and read them as the numbers
\* that they are.
AddressesAreRead == OctetsAreBytes /\ PrivateIsRfc1918 /\ GroupsAreEight /\ LabelsAreTheAddress
===============================================================================
