-------------------------------- MODULE Message --------------------------------
(***************************************************************************)
(* message::parsed and the operations the tools run on it: a parsed message *)
(* is a sequence of headers, each a view into the text that it was parsed   *)
(* from, and the operations erase headers from it and put new ones on top.  *)
(* A program parses a message and calls the operations one after the other. *)
(***************************************************************************)
EXTENDS Naturals, Sequences, FiniteSets

CONSTANTS
  Texts,       \* what can be written in a header: names, domains, results
  Incoming,    \* the sequences of headers that messages arrive with
  Servers,     \* server identities (the "sender" of the operations)
  Statuses     \* what OpenARC says of a chain: "none", "fail", "pass", "unknown"

\* An address: its local part and domain, and whether RFC 5321 has it for a mailbox too.
Address(local, domain) == [local |-> local, domain |-> domain, ok |-> TRUE]
NoAddress == [local |-> "", domain |-> "", ok |-> FALSE]

\* A name for a host, and whether Domain::validate takes it.  It takes the empty string too, which
\* is what operator[] finds, and leaves behind, for a key that a field does not have.
Helo(domain) == [domain |-> domain, ok |-> TRUE]
NoHelo == Helo("")

\* A Received-SPF field: read says whether its grammar takes it, by who its comment names,
\* identity is "" when the key is absent.
NoSpf ==
  [read |-> FALSE, result |-> "", by |-> "", efrom |-> NoAddress, helo |-> NoHelo, identity |-> ""]

\* The strings of message::parsed that headers are parsed from, besides the message itself.
Strings == {"ar_str", "arc_hdrs", "sig_str", "from_str", "reply_to_str"}
Input == <<"message", 0>>

\* A header.  by: the authserv-id, for Authentication-Results ("" if not readable); addresses:
\* what is found in it before the end or the first fault, for From; view: the text its views
\* point into, a string and how many times it had been assigned.
Header(name, by, view) ==
  [name |-> name, by |-> by, addresses |-> <<>>, spf |-> NoSpf, view |-> view]

\* What any header of a message may be.
Addresses == [local : Texts, domain : Texts, ok : BOOLEAN]
Helos == [domain : Texts, ok : BOOLEAN]
SpfFields ==
  [read : BOOLEAN, result : Texts, by : Texts, efrom : Addresses, helo : Helos, identity : Texts]
Headers(views) ==
  [name : Texts, by : Texts, addresses : Seq(Addresses), spf : SpfFields, view : views]

\* The names of the headers that the operations put in.
PutIn == {"Authentication-Results", "ARC-Authentication-Results", "ARC-Message-Signature", "ARC-Seal",
          "DKIM-Signature", "From", "Reply-To"}

ASSUME TextsAssumption == {""} \cup PutIn \cup Servers \subseteq Texts
ASSUME IncomingAssumption == Incoming \subseteq Seq(Headers({Input}))

VARIABLES
  headers,      \* parsed::headers
  from_parsed,  \* parsed::from_parsed.name_addr_list
  dmarc_from,   \* parsed::dmarc_from and dmarc_from_domain
  assigned,     \* how many times each of Strings was assigned
  aborted,      \* a CHECK has failed
  spf_results,  \* of the last authentication: the spf= of Authentication-Results
  spf_stored,   \* of the last authentication: the calls of policy::store_spf
  sealed,       \* the results the last seal was made over
  server,       \* history: the server that has authenticated or sealed the message
  arrived,      \* history: the headers the message arrived with
  called        \* history: the operations called so far

vars == <<headers, from_parsed, dmarc_from, assigned, aborted, spf_results, spf_stored, sealed,
          server, arrived, called>>

Did(op) == op \in called

\* parsed::parse: the fields, then the body.
Init ==
  /\ headers \in Incoming
  /\ arrived = headers
  /\ from_parsed = <<>>
  /\ dmarc_from = NoAddress
  /\ assigned = [s \in Strings |-> 0]
  /\ aborted = FALSE
  /\ spf_results = <<>>
  /\ spf_stored = <<>>
  /\ sealed = ""
  /\ server = ""
  /\ called = {}

\* The positions in set at, from the first to the last.
InOrder(at) ==
  [k \in 1 .. Cardinality(at) |-> CHOOSE i \in at : Cardinality({j \in at : j <= i}) = k]

\* What stands at these positions of a sequence.
Part(seq, at) == [k \in 1 .. Cardinality(at) |-> seq[InOrder(at)[k]]]

\* The elements that pass a test.
Where(seq, Test(_)) == Part(seq, {i \in DOMAIN seq : Test(seq[i])})

Erase(hs, Test(_)) == Where(hs, LAMBDA h : ~Test(h))

\* std::find on the name.
Named(hs, name) == Where(hs, LAMBDA h : h.name = name)

\* parsed::parse_hdr: a string becomes the topmost header.
ParseHdr(hs, h) == <<h>> \o hs

\* The header that views string s as just assigned.
View(s) == <<s, assigned[s] + 1>>
New(name, s) == Header(name, "", View(s))

Assign(ss) == [s \in Strings |-> assigned[s] + IF s \in ss THEN 1 ELSE 0]

-------------------------------------------------------------------------------
(* Received-SPF: what goes into Authentication-Results, and what DMARC hears. *)

\* The result, as result_to_pol has it, is one that DMARC wants to hear of.
Counts(result) == result \in {"pass", "fail", "softfail"}

\* Wrong: whatever was checked, the envelope's domain is named.
SpfResultToDmarc_MailFrom(spf) == [domain |-> spf.efrom.domain, origin |-> "mailfrom"]

\* spf_result_to_dmarc, of a field whose result counts (of any other it returns at once),
\* whose envelope-from is a mailbox and whose helo passes for a domain (it is called with no
\* other): an identity that says helo decides, the envelope-from stands for every other and for
\* none.  The caller has asked for helo by operator[], so that the key is always there: a field
\* that came without it says helo of the empty domain.  Without angle brackets round it,
\* envelope-from is never seen as the postmaster's.
SpfResultToDmarc(spf) ==
  IF spf.identity = "helo" THEN [domain |-> spf.helo.domain, origin |-> "helo"]
                           ELSE [domain |-> spf.efrom.domain, origin |-> "mailfrom"]

\* The field is ours, its envelope-from is a mailbox, and its helo, if any, passes for a domain.
Usable(spf, sender) == spf.read /\ spf.by = sender /\ spf.efrom.ok /\ spf.helo.ok

\* How the field is reported.
SpfResult(spf) ==
  [domain |-> spf.efrom.domain, result |-> spf.result,
   as |-> IF spf.efrom.local = "postmaster" /\ spf.efrom.domain = spf.helo.domain
            THEN "helo" ELSE "mailfrom"]

\* No field before it had the same domain (validated_doms).
FirstOfDomain(fields, i) == \A j \in 1 .. i - 1 : fields[j].efrom.domain # fields[i].efrom.domain

\* The fields that are reported, in the order of the headers.
SpfReported(hs, sender) ==
  LET named == Named(hs, "Received-SPF")
      fields == [i \in DOMAIN named |-> named[i].spf]
      usable == Where(fields, LAMBDA f : Usable(f, sender))
  IN Part(usable, {i \in DOMAIN usable : FirstOfDomain(usable, i)})

\* What DMARC is told of them.
SpfStored(spf) ==
  LET counted == Where(spf, LAMBDA f : Counts(f.result))
  IN [i \in DOMAIN counted |-> SpfResultToDmarc(counted[i])]

-------------------------------------------------------------------------------
(* The operations. *)

Ready == ~aborted

\* CHECK fails.
Abort == aborted' = TRUE /\ UNCHANGED <<headers, from_parsed, dmarc_from, assigned, spf_results,
                                        spf_stored, sealed, arrived>>

\* Wrong: none goes.
OwnResultsErased_None(hs, sender) == hs

\* The Authentication-Results of this server that can be read are erased.
OwnResultsErased(hs, sender) ==
  Erase(hs, LAMBDA h : h.name = "Authentication-Results" /\ h.by = sender)

\* The addresses of the first From, whether the whole of it can be parsed or not.
Authors(hs) == IF Named(hs, "From") = <<>> THEN <<>> ELSE Named(hs, "From")[1].addresses

\* The author can be told: there is an address in From, and the first is one for SMTP.
AuthorKnown(authors) == authors # <<>> /\ authors[1].ok

\* The chain as seal leaves it: a set of three headers, or none if there is no seal.
Seal(hs, made) ==
  IF made
    THEN ParseHdr(ParseHdr(ParseHdr(hs, New("ARC-Authentication-Results", "arc_hdrs")),
                           New("ARC-Message-Signature", "arc_hdrs")), New("ARC-Seal", "arc_hdrs"))
    ELSE hs

\* The new header can be read back as our own if its grammar knows the status of the chain.
OwnResults(sender, status) ==
  Header("Authentication-Results", IF status = "unknown" THEN "" ELSE sender, View("ar_str"))

\* authentication, on behalf of server sender, with the status that the chain turns out to
\* have and whether a seal can be made.  If the author cannot be told it returns false, our
\* old results erased and no new ones put in.
Authentication(sender, status, made) ==
  LET kept == OwnResultsErased(headers, sender)
      spf == SpfReported(kept, sender)
      authors == from_parsed \o Authors(kept)
  IN /\ Ready
     /\ ~Did("authentication") /\ ~Did("arc_sign")
     /\ called' = called \cup {"authentication"}
     /\ server' = sender
     /\ IF headers = <<>>
          THEN Abort
          ELSE /\ from_parsed' = authors
               /\ spf_stored' = SpfStored(spf)
               /\ \/ /\ ~AuthorKnown(authors)
                     /\ headers' = kept
                     /\ UNCHANGED <<dmarc_from, assigned, spf_results, sealed>>
                  \/ /\ AuthorKnown(authors)
                     /\ dmarc_from' = authors[1]
                     /\ headers' = Seal(ParseHdr(kept, OwnResults(sender, status)), made)
                     /\ assigned' = Assign({"ar_str"} \cup IF made THEN {"arc_hdrs"} ELSE {})
                     /\ spf_results' = [i \in DOMAIN spf |-> SpfResult(spf[i])]
                     /\ sealed' = IF made THEN sender ELSE ""
               /\ UNCHANGED <<aborted, arrived>>

\* arcsign: the seal is made over the first results of this server, or over "None".
SealedResults(sender) ==
  IF \E i \in DOMAIN headers : headers[i].name = "Authentication-Results" /\ headers[i].by = sender
    THEN sender
    ELSE "None"

\* arc_sign of arcsign.
ArcSign(sender, made) ==
  /\ Ready
  /\ ~Did("authentication") /\ ~Did("arc_sign")
  /\ called' = called \cup {"arc_sign"}
  /\ server' = sender
  /\ IF headers = <<>>
       THEN Abort
       ELSE /\ headers' = Seal(headers, made)
            /\ assigned' = Assign(IF made THEN {"arc_hdrs"} ELSE {})
            /\ sealed' = IF made THEN SealedResults(sender) ELSE ""
            /\ UNCHANGED <<from_parsed, dmarc_from, aborted, spf_results, spf_stored, arrived>>

\* remove_delivery_headers.
DeliveryErased(hs) == Erase(hs, LAMBDA h : h.name \in {"Return-Path", "Delivered-To"})

RemoveDeliveryHeaders ==
  /\ Ready
  /\ called' = called \cup {"remove_delivery_headers"}
  /\ headers' = DeliveryErased(headers)
  /\ UNCHANGED <<from_parsed, dmarc_from, assigned, aborted, spf_results, spf_stored, sealed, server, arrived>>

\* All headers of the name give way to a new one, parsed from string s.
Replaced(hs, name, s) == ParseHdr(Erase(hs, LAMBDA h : h.name = name), New(name, s))

\* Wrong: a message may be signed again.
MaySign_Again == TRUE

\* CHECK(msg.sig_str.empty()).
MaySign == assigned["sig_str"] = 0

\* dkim_sign, of headers hs.
Signed(hs) == ParseHdr(hs, New("DKIM-Signature", "sig_str"))

DkimSign ==
  /\ Ready
  /\ called' = called \cup {"dkim_sign"}
  /\ server' = server
  /\ IF MaySign
       THEN /\ headers' = Signed(headers)
            /\ assigned' = Assign({"sig_str"})
            /\ UNCHANGED <<from_parsed, dmarc_from, aborted, spf_results, spf_stored, sealed, arrived>>
       ELSE Abort

\* What rewrite_from_to is given for a header: nothing, a header, or something that is none
\* (message-test passes bare addresses).
Given == {"", "header", "address"}

\* rewrite_from_to: each of the two headers that is given replaces those of its name, and the
\* message is signed.
RewriteFromTo(mail_from, reply_to) ==
  LET bare == DeliveryErased(headers)
      from == IF mail_from = "" THEN bare ELSE Replaced(bare, "From", "from_str")
      both == IF reply_to = "" THEN from ELSE Replaced(from, "Reply-To", "reply_to_str")
  IN /\ Ready
     /\ called' = called \cup {"rewrite_from_to"}
     /\ server' = server
     /\ IF "address" \in {mail_from, reply_to} \/ ~MaySign
          THEN Abort
          ELSE /\ headers' = Signed(both)
               /\ assigned' = Assign({"sig_str"} \cup (IF mail_from = "" THEN {} ELSE {"from_str"})
                                                 \cup (IF reply_to = "" THEN {} ELSE {"reply_to_str"}))
               /\ UNCHANGED <<from_parsed, dmarc_from, aborted, spf_results, spf_stored, sealed, arrived>>

Next ==
  \/ \E sender \in Servers, status \in Statuses, made \in BOOLEAN : Authentication(sender, status, made)
  \/ \E sender \in Servers, made \in BOOLEAN : ArcSign(sender, made)
  \/ RemoveDeliveryHeaders
  \/ DkimSign
  \/ \E mail_from, reply_to \in Given : RewriteFromTo(mail_from, reply_to)

Spec == Init /\ [][Next]_vars
-------------------------------------------------------------------------------
(* Properties *)

IsHeader(h) ==
  /\ {h.name, h.by} \subseteq Texts
  /\ \A i \in DOMAIN h.addresses : h.addresses[i].ok \in BOOLEAN
  /\ h.view = Input \/ (h.view[1] \in Strings /\ h.view[2] \in 1 .. assigned[h.view[1]])

\* Type correctness of message::parsed: no header looks into a string not yet assigned, and
\* results are put in only with an author that DMARC can ask for.
TypeOK ==
  /\ \A i \in DOMAIN headers : IsHeader(headers[i])
  /\ \A i \in DOMAIN from_parsed : from_parsed[i].ok \in BOOLEAN
  /\ dmarc_from.ok <=> assigned["ar_str"] > 0
  /\ assigned \in [Strings -> Nat]
  /\ aborted \in BOOLEAN

Count(hs, Test(_)) == Cardinality({i \in DOMAIN hs : Test(hs[i])})

\* An authentication leaves at most one Authentication-Results of the server that can be read,
\* however many the message came with, and message-test counts them to be sure.  One that
\* arrived and passes for the server's is never left.
OneOwnResult ==
  Did("authentication") /\ ~aborted =>
    LET own == {i \in DOMAIN headers : headers[i].name = "Authentication-Results" /\ headers[i].by = server}
    IN Cardinality(own) <= 1 /\ \A i \in own : headers[i].view # Input

\* What is still there of the message as it arrived is in the order in which it arrived, and
\* below everything that was put in: the headers read from the top as a trace.
NewAboveOld ==
  \E n \in 0 .. Len(headers) :
    /\ \A i \in 1 .. n : headers[i].view # Input
    /\ \A i \in n + 1 .. Len(headers) : headers[i].view = Input
    /\ \E kept \in SUBSET DOMAIN arrived :
         SubSeq(headers, n + 1, Len(headers)) = Part(arrived, kept)

\* Nothing of the message is lost that the operations called for are not said to replace: a
\* result of another server, one that cannot be read, Received-SPF, the author of a message
\* that is only authenticated.
NothingElseErased ==
  \A i \in DOMAIN arrived :
    \/ \E k \in DOMAIN headers : headers[k] = arrived[i]
    \/ arrived[i].name = "Authentication-Results" /\ arrived[i].by \in Servers /\ Did("authentication")
    \/ arrived[i].name \in {"Return-Path", "Delivered-To"}
         /\ (Did("remove_delivery_headers") \/ Did("rewrite_from_to"))
    \/ arrived[i].name \in {"From", "Reply-To"} /\ Did("rewrite_from_to")

\* No header looks into a string that has been assigned again since: as_string and the
\* signatures read the text that was parsed.
ViewsAreLive ==
  \A i \in DOMAIN headers :
    headers[i].view = Input \/ headers[i].view[2] = assigned[headers[i].view[1]]

\* What store_spf is given for field spf: the domain that the field says was checked, which is
\* empty where helo was checked and no helo is told, and never a domain that does not pass.
ToldOf(spf, told) ==
  IF spf.identity = "helo"
    THEN spf.helo.ok /\ told = [domain |-> spf.helo.domain, origin |-> "helo"]
    ELSE spf.efrom.ok /\ told = [domain |-> spf.efrom.domain, origin |-> "mailfrom"]

\* No domain is reported with two spf results.  DMARC is told only what this server found and
\* wrote in a Received-SPF that arrived with the message, one whose result counts, and it is told
\* it of the domain that was checked: of the helo domain only where the field says so.
SpfIsOfTheDomain ==
  /\ \A i, j \in DOMAIN spf_results : spf_results[i].domain = spf_results[j].domain => i = j
  /\ \A i \in DOMAIN spf_stored :
       \E k \in DOMAIN arrived :
         /\ arrived[k].name = "Received-SPF" /\ arrived[k].spf.by = server
         /\ Counts(arrived[k].spf.result)
         /\ ToldOf(arrived[k].spf, spf_stored[i])

\* A rewritten message has one From and one Reply-To at most where a new one was given, and
\* its delivery is not told.
RewrittenOnce ==
  Did("rewrite_from_to") /\ ~aborted =>
    /\ Count(headers, LAMBDA h : h.name \in {"Return-Path", "Delivered-To"}) = 0
    /\ \A s \in {"from_str", "reply_to_str"} :
         assigned[s] > 0 =>
           Count(headers, LAMBDA h : h.name = IF s = "from_str" THEN "From" ELSE "Reply-To") = 1

\* A seal is made over results that its own server has found, or over none.
SealedAreOwn ==
  sealed \notin {"", "None"} =>
    /\ sealed = server
    /\ \E i \in DOMAIN headers :
         headers[i].name = "Authentication-Results" /\ headers[i].by \in {sealed, ""}

\* In a state of the right types, the operations take out what they replace and nothing else,
\* and put in one of each on top, found by the server they were called for.
ResultsAreOurs ==
  /\ TypeOK
  /\ OneOwnResult /\ NewAboveOld /\ NothingElseErased
  /\ RewrittenOnce /\ SealedAreOwn
===============================================================================
