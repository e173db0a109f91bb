-------------------------------- MODULE Compose --------------------------------
(***************************************************************************)
(* snd.cpp: who a message is from and to, and the header that is composed  *)
(* and signed, as HeaderFields would read it.                              *)
(*                                                                         *)
(* The options are strings, "" if not given.  An address is named by its   *)
(* domain, "no address" is none.  A name in front of an address is a       *)
(* "phrase", or is "odd", as "Gene ." in msg.cpp's selftest.               *)
(***************************************************************************)
EXTENDS HeaderFields

Given(option, otherwise) == IF option = "" THEN otherwise ELSE option

\* get_sender: what the client calls itself: as told, or the host if its name has a dot.
ClientId(options) == Given(options.clientId, Given(options.environment, Given(options.fqdn, Absent)))

SenderOf(options) == Given(options.sender, ClientId(options))

\* test-it@ that domain, unless told.
FromOf(options) == Given(options.from, SenderOf(options))
ToOf(options) == Given(options.to, SenderOf(options))

\* parse_mailboxes: every address given has to be one.
Starts(options) ==
  /\ ClientId(options) # Absent
  /\ "no address" \notin {FromOf(options), ToOf(options), options.smtpFrom}

Hdr(name, items, good) == [name |-> name, items |-> items, result |-> "", good |-> good, legible |-> TRUE]

\* An option that makes a field only if it is given.
Optionally(option, hdr) == IF option = "" THEN <<>> ELSE <<hdr>>

\* A name goes in front of the address as it is.
Addressed(name, phrase, address) ==
  IF phrase = "odd" THEN Hdr(name, <<>>, FALSE) ELSE Hdr(name, <<address>>, TRUE)

\* create_eml.
CreateEml(options) ==
  <<Hdr("Message-ID", <<SenderOf(options)>>, TRUE),
    Hdr("Date", <<>>, TRUE),
    Addressed("From", options.fromName, FromOf(options)),
    Addressed("To", options.toName, ToOf(options)),
    Hdr("Subject", <<>>, TRUE)>>
  \o Optionally(options.replyTo, Hdr("To", <<options.replyTo>>, TRUE))
  \o <<Hdr("Content-Type", <<>>, TRUE)>>

\* The domain that signs: that of the author.
Signer(options) == FromOf(options)

\* sign_eml: all fields are given to the signature, which comes last.
SignEml(eml) == Append(eml, Hdr("DKIM-Signature", <<>>, TRUE))

\* The header of the message.
Composed(options) == IF options.useDkim THEN SignEml(CreateEml(options)) ELSE CreateEml(options)
===============================================================================
