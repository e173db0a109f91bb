-------------------------------- MODULE Routing --------------------------------
(***************************************************************************)
(* From records of the DNS to names: the hosts that mail for a domain is    *)
(* tried at, in order (get_mxs of Send.cpp, get_receivers of snd.cpp), and  *)
(* the names of a client (fcrdns4 of DNS-fcrdns.cpp).                       *)
(***************************************************************************)
EXTENDS Naturals, Sequences, SequencesExt, TLC

\* A record of the answer to a query for MX: of type "MX", or "CNAME", which come with them.
IsMx(rr) == rr.type = "MX"

\* Localhost is no exchange.
Remaining(rrs) == SelectSeq(rrs, LAMBDA rr : ~(IsMx(rr) /\ rr.exchange = "localhost"))

Mxs(rrs) == SelectSeq(rrs, IsMx)

\* The order the records are sorted by.
Before(a, b) == IsMx(a) /\ IsMx(b) /\ a.preference < b.preference

\* std::sort of up to sixteen elements: each is inserted in front of the first one when it
\* goes before that, else after the last one that it does not go before.
Insert(sorted, rr) ==
  LET n == Len(sorted)
      after == IF n > 0 /\ Before(rr, sorted[1])
                 THEN 0
                 ELSE CHOOSE i \in 0 .. n :
                        /\ i = 0 \/ ~Before(rr, sorted[i])
                        /\ \A j \in i + 1 .. n : Before(rr, sorted[j])
  IN InsertAt(sorted, after + 1, rr)

Sorted(rrs) == FoldLeft(Insert, <<>>, rrs)

\* RFC 7505: a null MX that stands alone.
Refuses(mxs) == Len(mxs) = 1 /\ mxs[1].preference = 0 /\ mxs[1].exchange = "."

\* The hosts to try, when std::shuffle has put the records that remain in the order shuffled.
Receivers(domain, shuffled) ==
  LET mxs == Mxs(shuffled) IN
  IF Refuses(mxs) THEN <<>>
  ELSE IF mxs = <<>> THEN <<domain>>
  ELSE LET sorted == Mxs(Sorted(shuffled)) IN [i \in DOMAIN sorted |-> sorted[i].exchange]

-------------------------------------------------------------------------------

\* Names are compared by their length, then letter by letter: here, by rank.
Shorter(a, b) == a.length < b.length \/ (a.length = b.length /\ a.rank < b.rank)

\* The name that the pointer gives has the address.
Confirmed(ptr, addr) == addr \in ptr.addresses

\* std::unique: of equal neighbours the first; what is behind them is not erased, and what
\* the strings there hold then is not specified.
Unique(names, unspecified) ==
  LET first == SelectSeq([i \in DOMAIN names |-> i], LAMBDA i : i = 1 \/ names[i] # names[i - 1])
  IN [i \in DOMAIN names |-> IF i <= Len(first) THEN names[first[i]] ELSE unspecified]

\* fcrdns4: the names found with address addr.
Fcrdns(ptrs, addr, unspecified) ==
  LET found == SelectSeq(ptrs, LAMBDA ptr : Confirmed(ptr, addr))
  IN Unique(SortSeq(found, Shorter), unspecified)
===============================================================================
