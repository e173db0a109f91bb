-------------------------------- MODULE Base64 --------------------------------
(***************************************************************************)
(* Base64.cpp: enc, which can wrap its lines, and dec.  Octets and the     *)
(* characters that stand for six of their bits are numbers.                *)
(***************************************************************************)
EXTENDS Naturals, Sequences, SequencesExt

CR == 13
LF == 10
Pad == 61

\* CHARSET: the letters, the digits, + and /.
Charset(bits) ==
  CASE bits < 26 -> 65 + bits
    [] bits \in 26 .. 51 -> 71 + bits
    [] bits \in 52 .. 61 -> bits - 4
    [] bits = 62 -> 43
    [] bits = 63 -> 47

IsBase64Char(ch) == \E bits \in 0 .. 63 : Charset(bits) = ch

CharsetFind(ch) == CHOOSE bits \in 0 .. 63 : Charset(bits) = ch

\* The parts of a sequence, n elements in each but the last.
Groups(seq, n) ==
  [i \in 1 .. (Len(seq) + n - 1) \div n |-> SubSeq(seq, n * (i - 1) + 1, IF n * i < Len(seq) THEN n * i ELSE Len(seq))]

Filled(group, n) == group \o [i \in 1 .. n - Len(group) |-> 0]

\* Three octets as four times six bits.
To6(g) ==
  <<g[1] \div 4, ((g[1] % 4) * 16) + (g[2] \div 16), ((g[2] % 16) * 4) + (g[3] \div 64), g[3] % 64>>

\* Four times six bits as three octets.
To8(g) ==
  <<((g[1] * 4) % 256) + (g[2] \div 16), ((g[2] % 16) * 16) + (g[3] \div 4), ((g[3] % 4) * 64) + g[4]>>

Wrapped(s, wrap) ==
  IF wrap > 0 /\ s.line = wrap THEN [text |-> s.text \o <<CR, LF>>, line |-> 0] ELSE s

Put(s, chars) == [text |-> s.text \o chars, line |-> s.line + Len(chars)]

\* The four characters of a group; those that hold no bit of it are padding.
Tail4(group) ==
  [i \in 1 .. 4 |-> IF i <= Len(group) + 1 THEN Charset(To6(Filled(group, 3))[i]) ELSE Pad]

\* A line is ended behind a whole group that fills it, but in front of the character of an
\* unfinished group that would not fit.
PutGroup(s, group, wrap) ==
  IF Len(group) = 3 THEN Wrapped(Put(s, Tail4(group)), wrap)
  ELSE FoldLeft(LAMBDA t, c : Put(Wrapped(t, wrap), <<c>>), s, Tail4(group))

TotalSize(size, wrap) ==
  LET padded == ((size + 2) \div 3) * 4 IN padded + IF wrap > 0 THEN (padded \div wrap) * 2 ELSE 0

\* enc ends the program (ok is FALSE) if the size is not the one it had computed.
Enc(text, wrap) ==
  LET end == FoldLeft(LAMBDA s, group : PutGroup(s, group, wrap), [text |-> <<>>, line |-> 0], Groups(text, 3))
  IN [ok |-> Len(end.text) = TotalSize(Len(text), wrap), text |-> end.text]

\* dec reads up to the padding, leaves out the ends of lines, and throws (ok is FALSE) at any
\* other character; a single one left over holds no octet.
Dec(text) ==
  LET end == SelectInSeq(text, LAMBDA ch : ch = Pad)
      chars == SelectSeq(IF end = 0 THEN text ELSE SubSeq(text, 1, end - 1), LAMBDA ch : ch \notin {CR, LF})
      Octets(group) ==
        SubSeq(To8(Filled([i \in DOMAIN group |-> CharsetFind(group[i])], 4)), 1, Len(group) - 1)
      groups == Groups(chars, 4)
      ok == \A i \in DOMAIN chars : IsBase64Char(chars[i])
  IN [ok |-> ok, text |-> IF ok THEN FlattenSeq([i \in DOMAIN groups |-> Octets(groups[i])]) ELSE <<>>]
===============================================================================
