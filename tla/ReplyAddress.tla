----------------------------- MODULE ReplyAddress -----------------------------
(***************************************************************************)
(* Reply.cpp: the local parts that say to whom a reply goes.  A text is a  *)
(* sequence of words: "x", "at" and "rep" are letters of base 32, "-" is   *)
(* none, "_" and "=" are the separators, "y.z" is a domain, "#" the hash.   *)
(* The hash is taken to be perfect: that of no other pair is "#".          *)
(***************************************************************************)
EXTENDS Naturals, Sequences, SequencesExt

CONSTANT MinBlob  \* the length from which base 32 is taken for a blob: 26

Separators == <<"_", "=">>
Hash == "#"
NUL == "NUL"

\* Octets of a word; hash_length_min of the hash.
Width(word) ==
  CASE word \in {"at"} -> 2
    [] word \in {"rep", "y.z"} -> 3
    [] word = Hash -> 6
    [] OTHER -> 1

Length(text) == FoldLeft(LAMBDA n, word : n + Width(word), 0, text)

\* Who wrote, and to which local part: Reply::from_to, and whether Mailbox::parse finds
\* one of its local parts quoted or its domain an address literal.
FromTo(local, rcpt, odd) == [local |-> local, domain |-> "y.z", rcpt |-> rcpt, odd |-> odd]

None == FromTo(<<>>, <<>>, FALSE)

\* Base 32 turns five bits into a letter.
BlobLength(rep) ==
  (8 * (Length(<<Hash, NUL>> \o rep.rcpt \o <<NUL>> \o rep.local \o <<"@", rep.domain>>)) + 4) \div 5

\* enc_reply_blob.
EncReplyBlob(rep) == [blob |-> TRUE, text |-> <<>>, length |-> BlobLength(rep)]

Plain(rep, sep) ==
  LET text == rep.local \o <<sep, "at", sep, rep.domain, sep, Hash, sep>> \o rep.rcpt
  IN [blob |-> FALSE, text |-> text, length |-> Length(text)]

\* Wrong: the first separator, whether it is free or not.
FreeSeparators_All(rep) == Separators

\* The separators that the local part does not have itself.
FreeSeparators(rep) == SelectSeq(Separators, LAMBDA sep : sep \notin ToSet(rep.rcpt))

\* Reply::enc_reply.
EncReply(rep) ==
  IF rep.odd \/ FreeSeparators(rep) = <<>> THEN EncReplyBlob(rep) ELSE Plain(rep, Head(FreeSeparators(rep)))

-------------------------------------------------------------------------------

\* is_pure_base32.
PureBase32(text) == ToSet(text) \subseteq {"x", "at", "rep", Hash}

\* The hash check: text is the hash of what was found, which is that of rep alone.
Checked(found, text, rep) == IF text = <<Hash>> /\ found = rep THEN found ELSE None

\* Where the separator stands, in order.
Places(text, sep) == SelectSeq([i \in DOMAIN text |-> i], LAMBDA i : text[i] = sep)

\* "at", and the separator in front of it, is no part of who wrote.
WithoutAt(local, sep) ==
  IF Len(local) >= 2 /\ SubSeq(local, Len(local) - 1, Len(local)) = <<sep, "at">>
    THEN SubSeq(local, 1, Len(local) - 2)
    ELSE local

\* A domain that Mailbox::validate lets through.
ValidDomain(text) == text # <<>> /\ ToSet(text) \cap ToSet(Separators) = {}

\* try_decode: the last three separators part who wrote, the domain, the hash and the local
\* part; what is before them may hold more.
TryDecode(text, rep, sep) ==
  LET at == Places(text, sep)
      n == Len(at)
      Between(i, j) == SubSeq(text, i + 1, j - 1)
  IN IF n < 3
       THEN None
       ELSE LET hash == Between(at[n - 1], at[n])
                domain == Between(at[n - 2], at[n - 1])
                local == WithoutAt(SubSeq(text, 1, at[n - 2] - 1), sep)
            IN IF PureBase32(hash) /\ local # <<>> /\ ValidDomain(domain) /\ Len(domain) = 1
                 THEN Checked([local |-> local, domain |-> domain[1], rcpt |-> SubSeq(text, at[n] + 1, Len(text)),
                               odd |-> FALSE], hash, rep)
                 ELSE None

\* old_dec_reply, of what follows "rep=": {hash}={rcpt}={local}={domain}.
OldDecReply(text, rep) ==
  LET at == Places(text, "=")
      n == Len(at)
  IN IF PureBase32(text) \/ n < 3
       THEN None
       ELSE Checked([local |-> SubSeq(text, at[2] + 1, at[n] - 1), domain |-> Last(text),
                     rcpt |-> SubSeq(text, at[1] + 1, at[2] - 1), odd |-> FALSE],
                    SubSeq(text, 1, at[1] - 1), rep)

IsOld(text) == Len(text) >= 2 /\ SubSeq(text, 1, 2) = <<"rep", "=">>

\* Reply::dec_reply, of an address made for rep.
DecReply(addr, rep) ==
  IF addr.blob
    THEN IF addr.length >= MinBlob THEN rep ELSE None
    ELSE IF IsOld(addr.text)
      THEN OldDecReply(Tail(Tail(addr.text)), rep)
      ELSE IF PureBase32(addr.text)
        THEN None
        ELSE LET got == SelectSeq(Separators, LAMBDA sep : TryDecode(addr.text, rep, sep) # None)
             IN IF got = <<>> THEN None ELSE TryDecode(addr.text, rep, Head(got))
===============================================================================
