----------------------------- MODULE Transparency -----------------------------
(***************************************************************************)
(* A message on its way through DATA: how the senders of Send.cpp and      *)
(* snd.cpp write its lines, and how the data grammar of smtp.cpp reads     *)
(* them again.  A text is a sequence of octets, of which only the dot, CR  *)
(* and LF are told apart.                                                  *)
(***************************************************************************)
EXTENDS Naturals, Sequences, SequencesExt

CONSTANT MaxLine  \* octets of a line in the grammar, its CRLF not counted: 998

Dot == "."
CR == "CR"
LF == "LF"

CRLF == <<CR, LF>>

\* std::getline until it fails: what is between the LFs, and what follows the last one.
Getlines(text) ==
  LET Take(acc, c) ==
        IF c = LF THEN [lines |-> Append(acc.lines, acc.line), line |-> <<>>]
                  ELSE [acc EXCEPT !.line = Append(@, c)]
      all == FoldLeft(Take, [lines |-> <<>>, line |-> <<>>], text)
  IN IF all.line = <<>> THEN all.lines ELSE Append(all.lines, all.line)

\* Wrong: a dot in front of a dot is left out.
Stuffed_Never(line) == line

Stuffed(line) == IF line # <<>> /\ line[1] = Dot THEN <<Dot>> \o line ELSE line

\* Send: the CR of a line is put in if the last octet is none; the last octet of an empty line
\* is whatever is found in front of it.
SendLine(line, found) ==
  LET last == IF line = <<>> THEN found ELSE Last(line)
  IN Stuffed(line) \o IF last = CR THEN <<LF>> ELSE CRLF

\* snd: the same, and an empty line gets no CR.
SndLine(line) == Stuffed(line) \o IF line = <<>> \/ Last(line) = CR THEN <<LF>> ELSE CRLF

\* What is sent of a text, its end included.
Wire(text, Line(_)) ==
  LET lines == Getlines(text)
  IN FlattenSeq([i \in DOMAIN lines |-> Line(lines[i])]) \o <<Dot>> \o CRLF

-------------------------------------------------------------------------------
(* The data grammar, at octet p of the wire. *)

Stands(wire, p, octets) == SubSeq(wire, p, p + Len(octets) - 1) = octets

\* The octets from p that are neither CR nor LF.
Run(wire, p) ==
  CHOOSE n \in 0 .. Len(wire) :
    /\ \A i \in p .. p + n - 1 : wire[i] \notin {CR, LF}
    /\ p + n > Len(wire) \/ wire[p + n] \in {CR, LF}

\* A line of the length that the grammar allows.
Full(wire, p) == Run(wire, p) \in 1 .. MaxLine /\ Stands(wire, p + Run(wire, p), CRLF)

DataEnd(wire, p) == Stands(wire, p, <<Dot>> \o CRLF)
DataBlank(wire, p) == Stands(wire, p, CRLF)
DataDot(wire, p) == Stands(wire, p, <<Dot>>) /\ Full(wire, p + 1)
NotDataEnd(wire, p) == Stands(wire, p, <<Dot, LF>>)

\* anything_else ends with the next LF; 0 if there is none.
NextLF(wire, p) ==
  LET at == {i \in p .. Len(wire) : wire[i] = LF}
  IN IF at = {} THEN 0 ELSE CHOOSE i \in at : \A j \in at : i <= j

\* Where the line at p ends, and what of it is written to the message.  All rules but the one
\* for a dot write the line whole, the one for crud too.
Taken(wire, p) ==
  LET end == NextLF(wire, p)
  IN [next |-> end + 1, written |-> SubSeq(wire, IF DataDot(wire, p) THEN p + 1 ELSE p, end)]

\* The message that is read: how it ends, what was written until then, and where.
ReadData(wire) ==
  LET From[p \in 1 .. Len(wire) + 1] ==
        IF DataEnd(wire, p) THEN [how |-> "data_done", text |-> <<>>, next |-> p + 3]
        ELSE IF NotDataEnd(wire, p) THEN [how |-> "bare_lf", text |-> <<>>, next |-> p]
        ELSE IF NextLF(wire, p) = 0 THEN [how |-> "syntax", text |-> <<>>, next |-> p]
        ELSE LET rest == From[Taken(wire, p).next]
             IN [rest EXCEPT !.text = Taken(wire, p).written \o @]
  IN From[1]
===============================================================================
