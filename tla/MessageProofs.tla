----------------------------- MODULE MessageProofs -----------------------------
(***************************************************************************)
(* What holds of every message and after every sequence of operations, for *)
(* all messages, servers and strings.                                      *)
(***************************************************************************)
EXTENDS Message, FiniteSetTheorems, SequenceTheorems, WellFoundedInduction, TLAPS

-----------------------------------------------------------------------------
(***************************************************************************)
(* Positions in a sequence, and what Part picks out of it.                 *)
(***************************************************************************)
\* How many members of a set of positions are not greater than i.
Rank(at, i) == Cardinality({j \in at : j <= i})

\* The rank of a member is between 1 and the size of the set, and greater for the greater one.
LEMMA RankIs ==
  ASSUME NEW at \in SUBSET Nat, IsFiniteSet(at), NEW i \in at
  PROVE  /\ Rank(at, i) \in 1 .. Cardinality(at)
         /\ \A j \in at : i < j => Rank(at, i) < Rank(at, j)
<1> DEFINE upto(j) == {l \in at : l <= j}
<1>1. \A j \in at : upto(j) \in SUBSET at /\ IsFiniteSet(upto(j))
  <2>1. \A j \in at : upto(j) \in SUBSET at
    OBVIOUS
  <2> HIDE DEF upto
  <2> QED
    BY <2>1, FS_Subset
<1>2. \A j \in at : Cardinality(upto(j)) \in Nat /\ Cardinality(upto(j)) <= Cardinality(at)
  <2> HIDE DEF upto
  <2> QED
    BY <1>1, FS_Subset, FS_CardinalityType
<1>3. Cardinality(upto(i)) # 0
  <2>1. upto(i) # {}
    OBVIOUS
  <2> HIDE DEF upto
  <2> QED
    BY <1>1, <2>1, FS_EmptySet
<1>4. Cardinality(at) \in Nat
  BY FS_CardinalityType
<1>5. ASSUME NEW j \in at, i < j PROVE Cardinality(upto(i)) < Cardinality(upto(j))
  <2>1. ASSUME NEW l \in upto(i) PROVE l \in upto(j)
    BY <1>5, i \in Nat, j \in Nat, l \in Nat
  <2>2. j \in upto(j) /\ j \notin upto(i)
    BY <1>5, i \in Nat, j \in Nat
  <2> HIDE DEF upto
  <2>3. upto(i) \in SUBSET upto(j) /\ upto(i) # upto(j)
    BY <2>1, <2>2
  <2>4. /\ Cardinality(upto(i)) <= Cardinality(upto(j))
        /\ Cardinality(upto(j)) = Cardinality(upto(i)) => upto(j) = upto(i)
    BY <1>1, <2>3, FS_Subset
  <2> QED
    BY <1>2, <2>3, <2>4
<1> HIDE DEF upto
<1>6. \A j \in at : Rank(at, j) = Cardinality(upto(j))
  BY DEF Rank, upto
<1> QED
  BY <1>2, <1>3, <1>4, <1>5, <1>6

\* InOrder goes through a finite set of positions from the first to the last, each once.
LEMMA InOrderIs ==
  ASSUME NEW at \in SUBSET Nat, IsFiniteSet(at)
  PROVE  /\ Cardinality(at) \in Nat
         /\ InOrder(at) \in [1 .. Cardinality(at) -> at]
         /\ \A k \in 1 .. Cardinality(at) : Rank(at, InOrder(at)[k]) = k
         /\ \A i \in at : Rank(at, i) \in 1 .. Cardinality(at) /\ InOrder(at)[Rank(at, i)] = i
         /\ \A k, l \in 1 .. Cardinality(at) : k < l => InOrder(at)[k] < InOrder(at)[l]
<1> DEFINE n == Cardinality(at)
           rank == [i \in at |-> Rank(at, i)]
<1>1. n \in Nat
  BY FS_CardinalityType
<1>2. \A i, j \in at : Rank(at, i) \in 1 .. n /\ (i < j => Rank(at, i) < Rank(at, j))
  BY RankIs
<1>3. \A i, j \in at : Rank(at, i) = Rank(at, j) => i = j
  <2> SUFFICES ASSUME NEW i \in at, NEW j \in at, i # j PROVE Rank(at, i) # Rank(at, j)
    OBVIOUS
  <2>1. i < j \/ j < i
    OBVIOUS
  <2> QED
    BY <1>1, <1>2, <2>1
<1>4. rank \in Surjection(at, 1 .. n)
  <2>1. rank \in Injection(at, 1 .. n)
    BY <1>2, <1>3 DEF Injection, IsInjective
  <2>2. IsFiniteSet(1 .. n) /\ Cardinality(1 .. n) = n
    BY <1>1, FS_Interval
  <2> HIDE DEF rank
  <2> QED
    BY <2>1, <2>2, FS_Injection
<1>5. \A k \in 1 .. n : \E i \in at : Rank(at, i) = k
  BY <1>4 DEF Surjection
<1> HIDE DEF rank, n
<1>6. \A k \in 1 .. n : InOrder(at)[k] = CHOOSE i \in at : Rank(at, i) = k
  BY DEF InOrder, Rank, n
<1>7. \A k \in 1 .. n : InOrder(at)[k] \in at /\ Rank(at, InOrder(at)[k]) = k
  BY <1>5, <1>6
<1>8. InOrder(at) \in [1 .. n -> at]
  BY <1>7 DEF InOrder, n
<1>9. \A i \in at : InOrder(at)[Rank(at, i)] = i
  BY <1>2, <1>3, <1>7
<1>10. ASSUME NEW k \in 1 .. n, NEW l \in 1 .. n, k < l PROVE InOrder(at)[k] < InOrder(at)[l]
  <2> DEFINE i == InOrder(at)[k]
             j == InOrder(at)[l]
  <2>1. i \in at /\ j \in at /\ Rank(at, i) = k /\ Rank(at, j) = l
    BY <1>7
  <2> HIDE DEF i, j
  <2>2. i \in Nat /\ j \in Nat /\ k \in Nat /\ l \in Nat
    BY <2>1, <1>1
  <2>3. i # j
    BY <2>1, <2>2, <1>10
  <2>4. ~(j < i)
    BY <2>1, <2>2, <1>2, <1>10
  <2>5. i < j
    BY <2>2, <2>3, <2>4
  <2> QED
    BY <2>5 DEF i, j
<1> QED
  BY <1>1, <1>2, <1>7, <1>8, <1>9, <1>10 DEF n

\* InOrder is the only increasing enumeration of a set.
LEMMA InOrderIsOnly ==
  ASSUME NEW at \in SUBSET Nat, NEW n \in Nat, NEW g \in [1 .. n -> at],
         \A k, l \in 1 .. n : k < l => g[k] < g[l],
         \A i \in at : \E k \in 1 .. n : g[k] = i
  PROVE  /\ IsFiniteSet(at) /\ Cardinality(at) = n
         /\ \A k \in 1 .. n : InOrder(at)[k] = g[k]
<1>1. \A k, l \in 1 .. n : g[k] \in Nat /\ (g[k] = g[l] => k = l) /\ (g[k] <= g[l] => k <= l)
  <2> SUFFICES ASSUME NEW k \in 1 .. n, NEW l \in 1 .. n
               PROVE  g[k] \in Nat /\ (g[k] = g[l] => k = l) /\ (g[k] <= g[l] => k <= l)
    OBVIOUS
  <2>1. g[k] \in Nat /\ g[l] \in Nat /\ (k < l => g[k] < g[l]) /\ (l < k => g[l] < g[k])
    OBVIOUS
  <2> QED
    BY <2>1
<1>2. ASSUME NEW m \in 0 .. n, NEW S, S = {g[k] : k \in 1 .. m} PROVE IsFiniteSet(S) /\ Cardinality(S) = m
  <2> DEFINE h == [k \in 1 .. m |-> g[k]]
  <2>1. h \in Bijection(1 .. m, S)
    BY <1>1, <1>2 DEF Bijection, Injection, Surjection, IsInjective
  <2>2. IsFiniteSet(1 .. m) /\ Cardinality(1 .. m) = m
    BY FS_Interval
  <2>3. ExistsBijection(1 .. m, S)
    BY <2>1 DEF ExistsBijection
  <2> QED
    BY <2>2, <2>3, FS_Bijection
<1>3. IsFiniteSet(at) /\ Cardinality(at) = n
  <2>1. at = {g[k] : k \in 1 .. n}
    <3>1. \A k \in 1 .. n : g[k] \in at
      OBVIOUS
    <3>2. \A i \in at : i \in {g[k] : k \in 1 .. n}
      OBVIOUS
    <3> QED
      BY <3>1, <3>2
  <2>2. n \in 0 .. n
    OBVIOUS
  <2> QED
    BY <1>2, <2>1, <2>2
<1>4. ASSUME NEW k \in 1 .. n PROVE Rank(at, g[k]) = k
  <2>1. {j \in at : j <= g[k]} = {g[l] : l \in 1 .. k}
    <3>1. ASSUME NEW j \in at, j <= g[k] PROVE \E l \in 1 .. k : j = g[l]
      BY <1>1, <3>1
    <3>2. ASSUME NEW l \in 1 .. k PROVE g[l] \in at /\ g[l] <= g[k]
      BY <1>1
    <3> QED
      BY <3>1, <3>2
  <2> QED
    BY <1>2, <2>1 DEF Rank
<1> QED
  BY <1>3, <1>4, InOrderIs

\* What Part picks out of a sequence stands in it at the positions asked for, in their order.
\* std::remove leaves the headers that stay in their order.
LEMMA PartIs ==
  ASSUME NEW S, NEW seq \in Seq(S), NEW at \in SUBSET (DOMAIN seq)
  PROVE  /\ IsFiniteSet(at) /\ at \in SUBSET Nat
         /\ Part(seq, at) \in Seq(S)
         /\ DOMAIN Part(seq, at) = 1 .. Cardinality(at)
         /\ \A k \in DOMAIN Part(seq, at) : InOrder(at)[k] \in at /\ Part(seq, at)[k] = seq[InOrder(at)[k]]
         /\ \A i \in at : Rank(at, i) \in DOMAIN Part(seq, at) /\ InOrder(at)[Rank(at, i)] = i
         /\ \A k, l \in DOMAIN Part(seq, at) : k < l => InOrder(at)[k] < InOrder(at)[l]
<1>1. DOMAIN seq = 1 .. Len(seq) /\ Len(seq) \in Nat /\ \A i \in DOMAIN seq : seq[i] \in S
  OBVIOUS
<1>2. IsFiniteSet(at) /\ at \in SUBSET Nat
  <2>1. IsFiniteSet(1 .. Len(seq))
    BY FS_Interval
  <2> QED
    BY <1>1, <2>1, FS_Subset
<1>3. DOMAIN Part(seq, at) = 1 .. Cardinality(at)
      /\ \A k \in 1 .. Cardinality(at) : Part(seq, at)[k] = seq[InOrder(at)[k]]
  BY DEF Part
<1>4. Part(seq, at) \in Seq(S)
  <2>1. Cardinality(at) \in Nat
    BY <1>2, InOrderIs
  <2>2. Part(seq, at) \in [1 .. Cardinality(at) -> S]
    BY <1>1, <1>2, InOrderIs DEF Part
  <2> QED
    BY <2>1, <2>2
<1> QED
  BY <1>2, <1>3, <1>4, InOrderIs

-----------------------------------------------------------------------------
(***************************************************************************)
(* How the headers of a message can change.  Every operation erases headers *)
(* and puts new ones on top, so all that happens to a message is such a    *)
(* change, and two of them in a row are one.                               *)
(***************************************************************************)
\* The headers new come from the headers old: e names the old header that each of them is, or 0
\* for one that was put in.  The old ones are in their old order, and below those put in.
Derives(old, new, e) ==
  /\ e \in [DOMAIN new -> 0 .. Len(old)]
  /\ \A k \in DOMAIN new :
       IF e[k] = 0 THEN new[k].view # Input ELSE new[k] = old[e[k]]
  /\ \A k, l \in DOMAIN new : k < l /\ e[k] # 0 => e[k] < e[l]

\* At most the headers in gone were taken out, and at most those in put were put in on top.
Changes(old, new, gone, put) ==
  \E e : /\ Derives(old, new, e)
         /\ \A k \in DOMAIN new : e[k] = 0 => new[k] \in put
         /\ \A i \in DOMAIN old : old[i] \notin gone => \E k \in DOMAIN new : e[k] = i

\* What comes from b comes from a, if b comes from a.
LEMMA DerivesTwice ==
  ASSUME NEW S, NEW a \in Seq(S), NEW b \in Seq(S), NEW c \in Seq(S), NEW d, NEW e,
         Derives(a, b, d), Derives(b, c, e)
  PROVE  Derives(a, c, [k \in DOMAIN c |-> IF e[k] = 0 THEN 0 ELSE d[e[k]]])
<1> DEFINE f == [k \in DOMAIN c |-> IF e[k] = 0 THEN 0 ELSE d[e[k]]]
<1>1. /\ DOMAIN a = 1 .. Len(a) /\ Len(a) \in Nat
      /\ DOMAIN b = 1 .. Len(b) /\ Len(b) \in Nat
      /\ DOMAIN c = 1 .. Len(c) /\ Len(c) \in Nat
  OBVIOUS
<1>2. ASSUME NEW k \in DOMAIN c, e[k] # 0 PROVE e[k] \in DOMAIN b /\ c[k] = b[e[k]] /\ d[e[k]] \in 0 .. Len(a)
  BY <1>1, <1>2 DEF Derives
<1>3. f \in [DOMAIN c -> 0 .. Len(a)]
  BY <1>1, <1>2
<1>4. ASSUME NEW k \in DOMAIN c PROVE IF f[k] = 0 THEN c[k].view # Input ELSE c[k] = a[f[k]]
  BY <1>1, <1>2 DEF Derives
<1>5. ASSUME NEW k \in DOMAIN c, NEW l \in DOMAIN c, k < l, f[k] # 0 PROVE f[k] < f[l]
  <2>1. e[k] # 0 /\ e[k] < e[l]
    BY <1>5 DEF Derives
  <2>2. e[l] # 0
    BY <1>1, <1>2, <2>1
  <2>3. d[e[k]] < d[e[l]]
    BY <1>2, <1>5, <2>1, <2>2 DEF Derives
  <2> QED
    BY <2>1, <2>2, <2>3
<1> QED
  BY <1>3, <1>4, <1>5 DEF Derives

\* Two changes in a row are one.
LEMMA ChangesTwice ==
  ASSUME NEW S, NEW a \in Seq(S), NEW b \in Seq(S), NEW c \in Seq(S),
         NEW gone1, NEW gone2, NEW put1, NEW put2,
         Changes(a, b, gone1, put1), Changes(b, c, gone2, put2)
  PROVE  Changes(a, c, gone1 \cup gone2, put1 \cup put2)
<1>1. PICK d : /\ Derives(a, b, d)
               /\ \A k \in DOMAIN b : d[k] = 0 => b[k] \in put1
               /\ \A i \in DOMAIN a : a[i] \notin gone1 => \E k \in DOMAIN b : d[k] = i
  BY DEF Changes
<1>2. PICK e : /\ Derives(b, c, e)
               /\ \A k \in DOMAIN c : e[k] = 0 => c[k] \in put2
               /\ \A i \in DOMAIN b : b[i] \notin gone2 => \E k \in DOMAIN c : e[k] = i
  BY DEF Changes
<1> DEFINE f == [k \in DOMAIN c |-> IF e[k] = 0 THEN 0 ELSE d[e[k]]]
<1>3. Derives(a, c, f)
  BY <1>1, <1>2, DerivesTwice
<1>4. /\ DOMAIN a = 1 .. Len(a) /\ Len(a) \in Nat
      /\ DOMAIN b = 1 .. Len(b) /\ Len(b) \in Nat
      /\ DOMAIN c = 1 .. Len(c) /\ Len(c) \in Nat
  OBVIOUS
<1>5. ASSUME NEW k \in DOMAIN c, f[k] = 0 PROVE c[k] \in put1 \cup put2
  BY <1>1, <1>2, <1>4, <1>5 DEF Derives
<1>6. ASSUME NEW i \in DOMAIN a, a[i] \notin gone1 \cup gone2 PROVE \E k \in DOMAIN c : f[k] = i
  <2>1. PICK j \in DOMAIN b : d[j] = i
    BY <1>1, <1>6
  <2>2. b[j] = a[i]
    BY <1>1, <1>4, <2>1 DEF Derives
  <2>3. PICK k \in DOMAIN c : e[k] = j
    BY <1>2, <1>6, <2>2
  <2> QED
    BY <1>4, <2>1, <2>3
<1> HIDE DEF f
<1> QED
  BY <1>3, <1>5, <1>6 DEF Changes

\* Erasing headers is a change that puts in none.
LEMMA PartChanges ==
  ASSUME NEW S, NEW seq \in Seq(S), NEW at \in SUBSET (DOMAIN seq), NEW gone,
         \A i \in DOMAIN seq : seq[i] \notin gone => i \in at
  PROVE  Changes(seq, Part(seq, at), gone, {})
<1> DEFINE new == Part(seq, at)
           e == [k \in DOMAIN new |-> InOrder(at)[k]]
<1>1. /\ DOMAIN seq = 1 .. Len(seq) /\ Len(seq) \in Nat
      /\ \A k \in DOMAIN new : e[k] \in at /\ new[k] = seq[e[k]] /\ e[k] \in 1 .. Len(seq)
  BY PartIs
<1>2. \A k, l \in DOMAIN new : k < l => e[k] < e[l]
  BY PartIs
<1>3. \A i \in at : Rank(at, i) \in DOMAIN new /\ e[Rank(at, i)] = i
  BY PartIs
<1>4. e \in [DOMAIN new -> 0 .. Len(seq)]
  BY <1>1
<1> HIDE DEF new, e
<1>5. Derives(seq, new, e)
  BY <1>1, <1>2, <1>4 DEF Derives
<1>6. \A k \in DOMAIN new : e[k] # 0
  BY <1>1
<1> QED
  BY <1>3, <1>5, <1>6 DEF Changes, new

\* parse_hdr (append, std::rotate) is a change that takes out none.
LEMMA TopChanges ==
  ASSUME NEW S, NEW seq \in Seq(S), NEW h \in S, h.view # Input
  PROVE  /\ ParseHdr(seq, h) \in Seq(S)
         /\ DOMAIN ParseHdr(seq, h) = 1 .. Len(seq) + 1
         /\ ParseHdr(seq, h)[1] = h
         /\ \A k \in 2 .. Len(seq) + 1 : k - 1 \in DOMAIN seq /\ ParseHdr(seq, h)[k] = seq[k - 1]
         /\ Changes(seq, ParseHdr(seq, h), {}, {h})
<1> DEFINE new == ParseHdr(seq, h)
           e == [k \in DOMAIN new |-> k - 1]
<1>1. /\ DOMAIN seq = 1 .. Len(seq) /\ Len(seq) \in Nat
      /\ <<h>> \in Seq(S) /\ Len(<<h>>) = 1
  OBVIOUS
<1>2. /\ new \in Seq(S) /\ Len(new) = Len(seq) + 1 /\ DOMAIN new = 1 .. Len(seq) + 1
      /\ new[1] = h
      /\ \A k \in 2 .. Len(seq) + 1 : new[k] = seq[k - 1]
  BY <1>1 DEF ParseHdr
<1> HIDE DEF new
<1>3. \A k \in DOMAIN new : e[k] = k - 1 /\ (e[k] = 0 <=> k = 1) /\ e[k] \in 0 .. Len(seq)
  BY <1>1, <1>2
<1>4. e \in [DOMAIN new -> 0 .. Len(seq)]
  BY <1>3
<1>5. \A k, l \in DOMAIN new : k < l => e[k] < e[l]
  BY <1>2, <1>1
<1>6. \A k \in DOMAIN new : k # 1 => new[k] = seq[e[k]]
  BY <1>1, <1>2
<1>7. \A i \in DOMAIN seq : i + 1 \in DOMAIN new /\ e[i + 1] = i
  BY <1>1, <1>2
<1> HIDE DEF e
<1>8. Derives(seq, new, e)
  BY <1>2, <1>3, <1>4, <1>5, <1>6 DEF Derives
<1>9. Changes(seq, new, {}, {h})
  BY <1>2, <1>3, <1>7, <1>8 DEF Changes
<1> QED
  BY <1>1, <1>2, <1>9 DEF new

\* No change is one.
LEMMA ChangesNot ==
  ASSUME NEW S, NEW seq \in Seq(S), NEW put
  PROVE  Changes(seq, seq, {}, put)
<1> DEFINE e == [k \in DOMAIN seq |-> k]
<1>1. DOMAIN seq = 1 .. Len(seq) /\ Len(seq) \in Nat
  OBVIOUS
<1>2. /\ e \in [DOMAIN seq -> 0 .. Len(seq)]
      /\ \A k \in DOMAIN seq : e[k] = k /\ k # 0
  BY <1>1
<1> HIDE DEF e
<1>3. Derives(seq, seq, e)
  BY <1>2 DEF Derives
<1> QED
  BY <1>2, <1>3 DEF Changes

\* What takes out and puts in a few headers takes out and puts in no others.
LEMMA ChangesMore ==
  ASSUME NEW old, NEW new, NEW gone, NEW put, NEW gone2, NEW put2,
         Changes(old, new, gone, put), gone \subseteq gone2, put \subseteq put2
  PROVE  Changes(old, new, gone2, put2)
BY DEF Changes

\* No header, some header, and at most one header of headers hs is in X.
None(hs, X) == \A i \in DOMAIN hs : hs[i] \notin X
Some(hs, X) == \E i \in DOMAIN hs : hs[i] \in X
AtMostOne(hs, X) == \A i, j \in DOMAIN hs : hs[i] \in X /\ hs[j] \in X => i = j

\* A header was put in, or was there before.
LEMMA ChangesFrom ==
  ASSUME NEW S, NEW old \in Seq(S), NEW new \in Seq(S), NEW gone, NEW put,
         Changes(old, new, gone, put)
  PROVE  \A k \in DOMAIN new : new[k] \in put \/ Some(old, {new[k]})
<1>1. PICK e : Derives(old, new, e) /\ \A k \in DOMAIN new : e[k] = 0 => new[k] \in put
  BY DEF Changes
<1>2. DOMAIN old = 1 .. Len(old) /\ Len(old) \in Nat
  OBVIOUS
<1>3. \A k \in DOMAIN new : e[k] # 0 => e[k] \in DOMAIN old /\ new[k] = old[e[k]]
  BY <1>1, <1>2 DEF Derives
<1> QED
  BY <1>1, <1>3 DEF Some

\* What a change keeps: that there is none of a kind, or at most one, unless it puts some in;
\* that there is one, unless it takes some out.
LEMMA ChangesKeep ==
  ASSUME NEW gone, NEW put, NEW X, NEW S, NEW old \in Seq(S), NEW new \in Seq(S),
         Changes(old, new, gone, put)
  PROVE  /\ put \cap X = {} /\ None(old, X) => None(new, X)
         /\ put \cap X = {} /\ AtMostOne(old, X) => AtMostOne(new, X)
         /\ gone \cap X = {} /\ Some(old, X) => Some(new, X)
<1>1. PICK e : /\ Derives(old, new, e)
               /\ \A k \in DOMAIN new : e[k] = 0 => new[k] \in put
               /\ \A i \in DOMAIN old : old[i] \notin gone => \E k \in DOMAIN new : e[k] = i
  BY DEF Changes
<1>2. /\ DOMAIN old = 1 .. Len(old) /\ Len(old) \in Nat
      /\ DOMAIN new = 1 .. Len(new) /\ Len(new) \in Nat
  OBVIOUS
<1>3. \A k \in DOMAIN new : e[k] # 0 => e[k] \in DOMAIN old /\ new[k] = old[e[k]]
  BY <1>1, <1>2 DEF Derives
<1>4. ASSUME put \cap X = {}, AtMostOne(old, X) PROVE AtMostOne(new, X)
  <2> SUFFICES ASSUME NEW i \in DOMAIN new, NEW j \in DOMAIN new, new[i] \in X, new[j] \in X PROVE i = j
    BY DEF AtMostOne
  <2>1. e[i] # 0 /\ e[j] # 0
    BY <1>1, <1>4
  <2>2. e[i] = e[j]
    BY <1>3, <1>4, <2>1 DEF AtMostOne
  <2>3. ~(e[i] < e[j]) /\ ~(e[j] < e[i])
    BY <1>2, <1>3, <2>1, <2>2
  <2>4. ~(i < j) /\ ~(j < i)
    BY <1>1, <2>1, <2>3 DEF Derives
  <2> QED
    BY <1>2, <2>4
<1>5. ASSUME put \cap X = {}, None(old, X) PROVE None(new, X)
  BY <1>1, <1>3, <1>5 DEF None
<1>6. ASSUME gone \cap X = {}, Some(old, X) PROVE Some(new, X)
  <2>1. PICK i \in DOMAIN old : old[i] \in X
    BY <1>6 DEF Some
  <2>2. PICK k \in DOMAIN new : e[k] = i
    BY <1>1, <1>6, <2>1
  <2>3. new[k] = old[i]
    BY <1>2, <1>3, <2>2
  <2> QED
    BY <2>1, <2>3 DEF Some
<1> QED
  BY <1>4, <1>5, <1>6

-----------------------------------------------------------------------------
(***************************************************************************)
(* The invariants.                                                         *)
(***************************************************************************)
\* The headers a message can have in the course of the operations, of the message or put in.
AnyHeader == Headers({Input} \cup (Strings \X Nat))

\* The headers of a name; the results of a server; those that tell of the delivery.
Called(name) == {h \in AnyHeader : h.name = name}
Own(by) == {h \in AnyHeader : h.name = "Authentication-Results" /\ h.by = by}
Delivery == Called("Return-Path") \cup Called("Delivered-To")

\* Headers of these names, in strings that are about to be assigned.
NewOnes(names, ss) ==
  {h \in AnyHeader : h.name \in names /\ \E s \in ss : h.view = <<s, assigned[s] + 1>>}

\* What the operations put in: nothing of the message, and never Received-SPF.
Put == {h \in AnyHeader : h.view # Input /\ h.name # "Received-SPF"}

\* What the operations called so far may have taken out.
Gone(done) ==
  (IF "authentication" \in done THEN UNION {Own(by) : by \in Servers} ELSE {})
    \cup (IF "remove_delivery_headers" \in done \/ "rewrite_from_to" \in done THEN Delivery ELSE {})
    \cup (IF "rewrite_from_to" \in done THEN Called("From") \cup Called("Reply-To") ELSE {})

\* The strings are still what the headers were parsed from.
Live(hs, a) ==
  \A i \in DOMAIN hs :
    hs[i].view # Input => a[hs[i].view[1]] > 0 /\ hs[i].view[2] = a[hs[i].view[1]]

\* TypeOK as the proof needs it: of whole sequences, and of what has arrived.
Typed ==
  /\ headers \in Seq(AnyHeader)
  /\ arrived \in Seq(Headers({Input}))
  /\ from_parsed \in Seq(Addresses)
  /\ assigned \in [Strings -> Nat]
  /\ aborted \in BOOLEAN
  /\ dmarc_from.ok <=> assigned["ar_str"] > 0

\* What is assigned once: ar_str by authentication, arc_hdrs by that or by arc_sign, the two
\* author strings not without sig_str, which no operation assigns twice.
Once ==
  /\ assigned["ar_str"] > 0 => Did("authentication")
  /\ assigned["arc_hdrs"] > 0 \/ sealed # "" => Did("authentication") \/ Did("arc_sign")
  /\ assigned["from_str"] > 0 \/ assigned["reply_to_str"] > 0 => assigned["sig_str"] > 0

\* OneOwnResult, of sets of headers.
OneOwn ==
  Did("authentication") /\ ~aborted =>
    AtMostOne(headers, Own(server)) /\ None(headers, Own(server) \cap Headers({Input}))

\* RewrittenOnce, of sets of headers.
Rewritten ==
  Did("rewrite_from_to") /\ ~aborted =>
    /\ None(headers, Delivery)
    /\ assigned["from_str"] > 0 => Some(headers, Called("From")) /\ AtMostOne(headers, Called("From"))
    /\ assigned["reply_to_str"] > 0 => Some(headers, Called("Reply-To")) /\ AtMostOne(headers, Called("Reply-To"))

\* SealedAreOwn, of sets of headers.
SealedIsOwn ==
  sealed \notin {"", "None"} => sealed = server /\ Some(headers, Own(sealed) \cup Own(""))

\* The inductive invariant: where the headers come from, what they view, and what the operations
\* have each done to the kinds they are about.
IInv ==
  /\ Typed
  /\ Changes(arrived, headers, Gone(called), Put)
  /\ Live(headers, assigned)
  /\ Once /\ OneOwn /\ Rewritten /\ SealedIsOwn

-----------------------------------------------------------------------------
(***************************************************************************)
(* Lemmas about headers, old and new.                                      *)
(***************************************************************************)
\* A sequence over a set is one over a greater set.
LEMMA SeqMore ==
  ASSUME NEW S, NEW T, S \subseteq T, NEW seq \in Seq(S)
  PROVE  seq \in Seq(T)
<1>1. Len(seq) \in Nat /\ seq \in [1 .. Len(seq) -> S]
  OBVIOUS
<1>2. seq \in [1 .. Len(seq) -> T]
  BY <1>1
<1> QED
  BY <1>1, <1>2

\* What the fields of a header are, and that those of the message are the ones that view Input.
LEMMA AnyHeaders ==
  ASSUME NEW h \in AnyHeader
  PROVE  /\ h.name \in Texts /\ h.by \in Texts /\ h.addresses \in Seq(Addresses)
         /\ h.view # Input => h.view[1] \in Strings /\ h.view[2] \in Nat
         /\ h.view = Input <=> h \in Headers({Input})
BY DEF AnyHeader, Headers, Input, Strings

\* The headers a message arrives with are among those it can have.
LEMMA InputHeaders == Headers({Input}) \subseteq AnyHeader
BY DEF AnyHeader, Headers

\* A header just parsed has the name and the authserv-id that were written, and views the string
\* that was written.
LEMMA HeaderIs ==
  ASSUME assigned \in [Strings -> Nat], NEW name \in Texts, NEW by \in Texts, NEW s \in Strings
  PROVE  LET h == Header(name, by, View(s)) IN
         /\ h \in AnyHeader
         /\ h.name = name /\ h.by = by /\ h.view = View(s)
         /\ h \in NewOnes({name}, {s})
<1>1. NoSpf \in SpfFields
  <2>1. NoAddress \in Addresses
    BY TextsAssumption DEF NoAddress, Addresses
  <2> QED
    BY <2>1, TextsAssumption DEF NoSpf, SpfFields, NoHelo, Helo, Helos
<1>2. <<>> \in Seq(Addresses) /\ View(s) \in {Input} \cup Strings \X Nat
  BY DEF View
<1>3. Header(name, by, View(s)) \in AnyHeader
  BY <1>1, <1>2 DEF AnyHeader, Headers, Header
<1>4. /\ Header(name, by, View(s)).name = name
      /\ Header(name, by, View(s)).by = by
      /\ Header(name, by, View(s)).view = View(s)
  BY DEF Header
<1> QED
  BY <1>3, <1>4 DEF NewOnes, View

\* A header just parsed is none of the message, and views the new assignment of its string.
LEMMA NewIsNew ==
  ASSUME assigned \in [Strings -> Nat], NEW names, NEW ss \in SUBSET Strings, NEW h \in NewOnes(names, ss)
  PROVE  /\ h \in AnyHeader /\ h.name \in names /\ h.view # Input
         /\ h.view[1] \in ss /\ h.view[2] = assigned[h.view[1]] + 1
BY DEF NewOnes, Input, Strings

\* What every operation that succeeds does: headers of the called-for kinds go, new ones come on
\* top, in strings never assigned before.  So no header looks into a string that has changed, and
\* what has gone since the message arrived is what the operations called for replace.
LEMMA Operation ==
  ASSUME Typed, Changes(arrived, headers, Gone(called), Put), Live(headers, assigned),
         NEW gone, NEW names \in SUBSET Texts, NEW ss \in SUBSET Strings,
         "Received-SPF" \notin names, \A s \in ss : assigned[s] = 0,
         headers' \in Seq(AnyHeader),
         Changes(headers, headers', gone, NewOnes(names, ss)),
         assigned' = Assign(ss), arrived' = arrived,
         Gone(called) \subseteq Gone(called'), gone \subseteq Gone(called')
  PROVE  /\ assigned' \in [Strings -> Nat]
         /\ \A s \in Strings : assigned'[s] > 0 <=> assigned[s] > 0 \/ s \in ss
         /\ Changes(arrived', headers', Gone(called'), Put)
         /\ Live(headers', assigned')
<1>1. /\ assigned' \in [Strings -> Nat]
      /\ \A s \in Strings : assigned'[s] = IF s \in ss THEN 1 ELSE assigned[s]
  BY DEF Typed, Assign
<1>2. Changes(arrived', headers', Gone(called'), Put)
  <2>1. ASSUME NEW h \in NewOnes(names, ss) PROVE h \in Put
    <3>1. h \in AnyHeader /\ h.name \in names /\ h.view # Input
      BY NewIsNew DEF Typed
    <3>2. h.name # "Received-SPF"
      BY <3>1
    <3> QED
      BY <3>1, <3>2 DEF Put
  <2>2. arrived \in Seq(AnyHeader)
    <3>1. arrived \in Seq(Headers({Input}))
      BY DEF Typed
    <3> QED
      BY <3>1, InputHeaders, SeqMore
  <2>3. Changes(arrived, headers', Gone(called) \cup gone, Put \cup NewOnes(names, ss))
    BY <2>2, ChangesTwice DEF Typed
  <2>4. Gone(called) \cup gone \subseteq Gone(called') /\ Put \cup NewOnes(names, ss) \subseteq Put
    BY <2>1
  <2>5. Changes(arrived, headers', Gone(called'), Put)
    BY <2>3, <2>4, ChangesMore
  <2> QED
    BY <2>5
<1>3. Live(headers', assigned')
  <2> SUFFICES ASSUME NEW i \in DOMAIN headers', headers'[i].view # Input
               PROVE  /\ assigned'[headers'[i].view[1]] > 0
                      /\ headers'[i].view[2] = assigned'[headers'[i].view[1]]
    BY DEF Live
  <2>1. headers'[i] \in NewOnes(names, ss) \/ Some(headers, {headers'[i]})
    BY ChangesFrom DEF Typed
  <2>2. CASE headers'[i] \in NewOnes(names, ss)
    <3> DEFINE h == headers'[i]
    <3>1. h \in NewOnes(names, ss)
      BY <2>2
    <3> HIDE DEF h
    <3>2. h.view[1] \in ss /\ h.view[2] = assigned[h.view[1]] + 1
      BY <3>1, NewIsNew DEF Typed
    <3>3. assigned[h.view[1]] = 0 /\ assigned'[h.view[1]] = 1
      BY <1>1, <3>2
    <3>4. h.view[2] = 1
      BY <3>2, <3>3
    <3> QED
      BY <3>3, <3>4 DEF h
  <2>3. CASE Some(headers, {headers'[i]})
    <3>1. PICK k \in DOMAIN headers : headers[k] = headers'[i]
      BY <2>3 DEF Some
    <3>2. assigned[headers[k].view[1]] > 0 /\ headers[k].view[2] = assigned[headers[k].view[1]]
      BY <3>1 DEF Live
    <3>3. headers[k] \in AnyHeader
      BY DEF Typed
    <3>4. headers[k].view[1] \in Strings
      BY <3>1, <3>3, AnyHeaders
    <3>5. headers[k].view[1] \notin ss
      BY <3>2, <3>4
    <3> QED
      BY <1>1, <3>1, <3>2, <3>4, <3>5
  <2> QED
    BY <2>1, <2>2, <2>3
<1>4. \A s \in Strings : assigned'[s] > 0 <=> assigned[s] > 0 \/ s \in ss
  BY <1>1 DEF Typed
<1> QED
  BY <1>1, <1>2, <1>3, <1>4

-----------------------------------------------------------------------------
(***************************************************************************)
(* What the helpers of the operations do.                                  *)
(***************************************************************************)
\* Erasing all headers of a kind leaves none of that kind, and every other one.
LEMMA EraseIs ==
  ASSUME NEW hs \in Seq(AnyHeader), NEW X
  PROVE  LET left == Part(hs, {i \in DOMAIN hs : hs[i] \notin X}) IN
         /\ left \in Seq(AnyHeader)
         /\ Changes(hs, left, X, {})
         /\ None(left, X)
<1> DEFINE at == {i \in DOMAIN hs : hs[i] \notin X}
<1>1. at \in SUBSET (DOMAIN hs) /\ \A i \in DOMAIN hs : i \in at <=> hs[i] \notin X
  OBVIOUS
<1> HIDE DEF at
<1>2. Part(hs, at) \in Seq(AnyHeader) /\ Changes(hs, Part(hs, at), X, {})
  BY <1>1, PartIs, PartChanges
<1>3. \A k \in DOMAIN Part(hs, at) : InOrder(at)[k] \in at /\ Part(hs, at)[k] = hs[InOrder(at)[k]]
  BY <1>1, PartIs
<1>4. None(Part(hs, at), X)
  BY <1>1, <1>3 DEF None
<1> QED
  BY <1>2, <1>4 DEF at

\* authentication erases the results of its server that can be read, and no others.
LEMMA OwnErased ==
  ASSUME NEW hs \in Seq(AnyHeader), NEW sender
  PROVE  /\ OwnResultsErased(hs, sender) \in Seq(AnyHeader)
         /\ Changes(hs, OwnResultsErased(hs, sender), Own(sender), {})
         /\ None(OwnResultsErased(hs, sender), Own(sender))
<1>1. \A i \in DOMAIN hs : hs[i] \in AnyHeader
  OBVIOUS
<1>2. OwnResultsErased(hs, sender) = Part(hs, {i \in DOMAIN hs : hs[i] \notin Own(sender)})
  BY <1>1 DEF OwnResultsErased, Erase, Where, Own
<1> QED
  BY <1>2, EraseIs

\* remove_delivery_headers erases Return-Path and Delivered-To, and no others.
LEMMA DeliveryErasedIs ==
  ASSUME NEW hs \in Seq(AnyHeader)
  PROVE  /\ DeliveryErased(hs) \in Seq(AnyHeader)
         /\ Changes(hs, DeliveryErased(hs), Delivery, {})
         /\ None(DeliveryErased(hs), Delivery)
<1>1. \A i \in DOMAIN hs : hs[i] \in AnyHeader
  OBVIOUS
<1>2. DeliveryErased(hs) = Part(hs, {i \in DOMAIN hs : hs[i] \notin Delivery})
  BY <1>1 DEF DeliveryErased, Erase, Where, Delivery, Called
<1> QED
  BY <1>2, EraseIs

\* parse_hdr puts the new header above all others, which stay as they are.
LEMMA PutOnTop ==
  ASSUME Typed, NEW hs \in Seq(AnyHeader), NEW names, NEW ss \in SUBSET Strings,
         NEW h \in NewOnes(names, ss)
  PROVE  /\ ParseHdr(hs, h) \in Seq(AnyHeader)
         /\ DOMAIN ParseHdr(hs, h) = 1 .. Len(hs) + 1
         /\ ParseHdr(hs, h)[1] = h
         /\ \A k \in 2 .. Len(hs) + 1 : k - 1 \in DOMAIN hs /\ ParseHdr(hs, h)[k] = hs[k - 1]
         /\ Changes(hs, ParseHdr(hs, h), {}, NewOnes(names, ss))
<1>1. h \in AnyHeader /\ h.view # Input
  BY NewIsNew DEF Typed
<1>2. {h} \subseteq NewOnes(names, ss)
  OBVIOUS
<1>3. /\ ParseHdr(hs, h) \in Seq(AnyHeader)
      /\ DOMAIN ParseHdr(hs, h) = 1 .. Len(hs) + 1
      /\ ParseHdr(hs, h)[1] = h
      /\ \A k \in 2 .. Len(hs) + 1 : k - 1 \in DOMAIN hs /\ ParseHdr(hs, h)[k] = hs[k - 1]
      /\ Changes(hs, ParseHdr(hs, h), {}, {h})
  BY <1>1, TopChanges
<1>4. Changes(hs, ParseHdr(hs, h), {}, NewOnes(names, ss))
  BY <1>2, <1>3, ChangesMore
<1> QED
  BY <1>3, <1>4

\* A header put where none of its kind is, is the only one.
LEMMA PutAlone ==
  ASSUME Typed, NEW hs \in Seq(AnyHeader), NEW names, NEW ss \in SUBSET Strings,
         NEW h \in NewOnes(names, ss), NEW X, None(hs, X)
  PROVE  AtMostOne(ParseHdr(hs, h), X)
<1>1. ASSUME NEW i \in DOMAIN ParseHdr(hs, h), ParseHdr(hs, h)[i] \in X PROVE i = 1
  <2>1. i \in 1 .. Len(hs) + 1 /\ Len(hs) \in Nat
    BY PutOnTop
  <2>2. CASE i \in 2 .. Len(hs) + 1
    BY <1>1, <2>2, PutOnTop DEF None
  <2> QED
    BY <2>1, <2>2
<1> QED
  BY <1>1 DEF AtMostOne

\* More names and more strings make more headers possible.
LEMMA NewOnesMore ==
  ASSUME NEW names, NEW ss, NEW names2, NEW ss2, names \subseteq names2, ss \subseteq ss2
  PROVE  NewOnes(names, ss) \subseteq NewOnes(names2, ss2)
BY DEF NewOnes

\* The three headers of a seal, and the string they are parsed from, if a seal is made.
ArcNames == {"ARC-Authentication-Results", "ARC-Message-Signature", "ARC-Seal"}
ArcStrings(made) == IF made THEN {"arc_hdrs"} ELSE {}

\* Sealing a message puts in the three headers of the set, or nothing.
LEMMA SealIs ==
  ASSUME Typed, NEW hs \in Seq(AnyHeader), NEW made \in BOOLEAN
  PROVE  /\ Seal(hs, made) \in Seq(AnyHeader)
         /\ Changes(hs, Seal(hs, made), {}, NewOnes(ArcNames, ArcStrings(made)))
<1> DEFINE P == NewOnes(ArcNames, ArcStrings(made))
<1>1. CASE made
  <2> DEFINE a == New("ARC-Authentication-Results", "arc_hdrs")
             m == New("ARC-Message-Signature", "arc_hdrs")
             s == New("ARC-Seal", "arc_hdrs")
             hs1 == ParseHdr(hs, a)
             hs2 == ParseHdr(hs1, m)
             hs3 == ParseHdr(hs2, s)
  <2>1. ASSUME NEW name \in ArcNames PROVE New(name, "arc_hdrs") \in P
    <3>1. name \in Texts /\ "" \in Texts /\ "arc_hdrs" \in Strings
      BY TextsAssumption DEF ArcNames, PutIn, Strings
    <3>2. New(name, "arc_hdrs") \in NewOnes({name}, {"arc_hdrs"})
      BY <3>1, HeaderIs DEF New, Typed
    <3>3. {name} \subseteq ArcNames /\ {"arc_hdrs"} \subseteq ArcStrings(made)
      BY <1>1 DEF ArcStrings
    <3> QED
      BY <3>2, <3>3, NewOnesMore
  <2>2. a \in P /\ m \in P /\ s \in P
    BY <2>1 DEF ArcNames
  <2>3. ArcStrings(made) \in SUBSET Strings
    BY DEF ArcStrings, Strings
  <2>4. Seal(hs, made) = hs3
    BY <1>1 DEF Seal
  <2> HIDE DEF a, m, s
  <2>5. hs1 \in Seq(AnyHeader) /\ Changes(hs, hs1, {}, P)
    BY <2>2, <2>3, PutOnTop
  <2> HIDE DEF hs1
  <2>6. hs2 \in Seq(AnyHeader) /\ Changes(hs1, hs2, {}, P)
    BY <2>2, <2>3, <2>5, PutOnTop
  <2> HIDE DEF hs2
  <2>7. hs3 \in Seq(AnyHeader) /\ Changes(hs2, hs3, {}, P)
    BY <2>2, <2>3, <2>6, PutOnTop
  <2> HIDE DEF hs3, P
  <2>8. Changes(hs, hs2, {} \cup {}, P \cup P)
    BY <2>5, <2>6, ChangesTwice
  <2>9. Changes(hs, hs3, {} \cup {} \cup {}, P \cup P \cup P)
    BY <2>5, <2>6, <2>7, <2>8, ChangesTwice
  <2>10. Changes(hs, hs3, {}, P)
    BY <2>9, ChangesMore
  <2> QED
    BY <2>4, <2>7, <2>10 DEF P
<1>2. CASE ~made
  <2>1. Changes(hs, hs, {}, P)
    BY ChangesNot
  <2> QED
    BY <1>2, <2>1 DEF Seal
<1> QED
  BY <1>1, <1>2

-----------------------------------------------------------------------------
(***************************************************************************)
(* The operations preserve the invariant, one after the other.             *)
(***************************************************************************)
\* A string was assigned, or it was not.
LEMMA HowOften ==
  ASSUME assigned \in [Strings -> Nat]
  PROVE  /\ \A s \in Strings : assigned[s] \in Nat /\ (~(assigned[s] > 0) => assigned[s] = 0)
         /\ {"ar_str", "arc_hdrs", "sig_str", "from_str", "reply_to_str"} \subseteq Strings
<1>1. \A s \in Strings : assigned[s] \in Nat
  OBVIOUS
<1> QED
  BY <1>1 DEF Strings

\* The elements of a sequence over a set are in that set.
LEMMA SeqIs ==
  ASSUME NEW S, NEW seq \in Seq(S)
  PROVE  \A i \in DOMAIN seq : seq[i] \in S
OBVIOUS

\* A change repeated is the same change.
LEMMA ChangesAgain ==
  ASSUME NEW S, NEW a \in Seq(S), NEW b \in Seq(S), NEW c \in Seq(S), NEW gone, NEW put,
         Changes(a, b, gone, put), Changes(b, c, gone, put)
  PROVE  Changes(a, c, gone, put)
<1>1. Changes(a, c, gone \cup gone, put \cup put)
  BY ChangesTwice
<1>2. gone \cup gone = gone /\ put \cup put = put
  OBVIOUS
<1> QED
  BY <1>1, <1>2

\* More operations called may have taken out more.
LEMMA GoneMore ==
  ASSUME NEW done, NEW more, done \subseteq more
  PROVE  Gone(done) \subseteq Gone(more)
BY DEF Gone

\* An operation that is not about Authentication-Results leaves the results of the server and
\* those that a seal was made over: remove_delivery_headers, dkim_sign, rewrite_from_to.
LEMMA ResultsKept ==
  ASSUME IInv, headers' \in Seq(AnyHeader),
         NEW gone, NEW names, NEW ss \in SUBSET Strings,
         Changes(headers, headers', gone, NewOnes(names, ss)),
         "Authentication-Results" \notin names, gone \cap Called("Authentication-Results") = {},
         UNCHANGED <<server, sealed, aborted>>, Did("authentication")' => Did("authentication")
  PROVE  OneOwn' /\ SealedIsOwn'
<1> DEFINE P == NewOnes(names, ss)
<1>1. \A by : P \cap Own(by) = {} /\ gone \cap Own(by) = {}
  BY DEF NewOnes, Own, Called
<1>2. headers \in Seq(AnyHeader)
  BY DEF IInv, Typed
<1>3. OneOwn'
  <2> SUFFICES ASSUME Did("authentication"), ~aborted
               PROVE  /\ AtMostOne(headers', Own(server))
                      /\ None(headers', Own(server) \cap Headers({Input}))
    BY DEF OneOwn
  <2>1. AtMostOne(headers, Own(server)) /\ None(headers, Own(server) \cap Headers({Input}))
    BY DEF IInv, OneOwn
  <2>2. P \cap Own(server) = {} /\ P \cap (Own(server) \cap Headers({Input})) = {}
    BY <1>1
  <2> HIDE DEF P
  <2>3. AtMostOne(headers', Own(server))
    BY <1>2, <2>1, <2>2, ChangesKeep DEF P
  <2>4. None(headers', Own(server) \cap Headers({Input}))
    BY <1>2, <2>1, <2>2, ChangesKeep DEF P
  <2> QED
    BY <2>3, <2>4
<1>4. SealedIsOwn'
  <2> SUFFICES ASSUME sealed \notin {"", "None"}
               PROVE  sealed = server /\ Some(headers', Own(sealed) \cup Own(""))
    BY DEF SealedIsOwn
  <2>1. sealed = server /\ Some(headers, Own(sealed) \cup Own(""))
    BY DEF IInv, SealedIsOwn
  <2>2. gone \cap (Own(sealed) \cup Own("")) = {}
    BY <1>1
  <2> QED
    BY <1>2, <2>1, <2>2, ChangesKeep
<1> QED
  BY <1>3, <1>4

\* An operation that is not about the author or the delivery leaves the author of a rewritten
\* message: authentication, arc_sign, dkim_sign.
LEMMA AuthorsKept ==
  ASSUME IInv, headers' \in Seq(AnyHeader),
         NEW gone, NEW names, NEW ss \in SUBSET Strings,
         Changes(headers, headers', gone, NewOnes(names, ss)),
         names \cap {"From", "Reply-To", "Return-Path", "Delivered-To"} = {},
         gone \cap (Called("From") \cup Called("Reply-To")) = {},
         \A s \in {"from_str", "reply_to_str"} : assigned'[s] > 0 => assigned[s] > 0,
         aborted' = aborted, Did("rewrite_from_to")' => Did("rewrite_from_to")
  PROVE  Rewritten'
<1> SUFFICES ASSUME Did("rewrite_from_to"), ~aborted
             PROVE  /\ None(headers', Delivery)
                    /\ assigned'["from_str"] > 0 =>
                         Some(headers', Called("From")) /\ AtMostOne(headers', Called("From"))
                    /\ assigned'["reply_to_str"] > 0 =>
                         Some(headers', Called("Reply-To")) /\ AtMostOne(headers', Called("Reply-To"))
  BY DEF Rewritten
<1> DEFINE P == NewOnes(names, ss)
<1>1. headers \in Seq(AnyHeader) /\ Rewritten
  BY DEF IInv, Typed
<1>2. P \cap Delivery = {} /\ P \cap Called("From") = {} /\ P \cap Called("Reply-To") = {}
  BY DEF NewOnes, Delivery, Called
<1>3. gone \cap Called("From") = {} /\ gone \cap Called("Reply-To") = {}
  OBVIOUS
<1> HIDE DEF P
<1>4. None(headers', Delivery)
  <2>1. None(headers, Delivery)
    BY <1>1 DEF Rewritten
  <2> QED
    BY <1>1, <1>2, <2>1, ChangesKeep DEF P
<1>5. ASSUME assigned'["from_str"] > 0
      PROVE  Some(headers', Called("From")) /\ AtMostOne(headers', Called("From"))
  <2>1. Some(headers, Called("From")) /\ AtMostOne(headers, Called("From"))
    BY <1>1, <1>5 DEF Rewritten
  <2> QED
    BY <1>1, <1>2, <1>3, <2>1, ChangesKeep DEF P
<1>6. ASSUME assigned'["reply_to_str"] > 0
      PROVE  Some(headers', Called("Reply-To")) /\ AtMostOne(headers', Called("Reply-To"))
  <2>1. Some(headers, Called("Reply-To")) /\ AtMostOne(headers, Called("Reply-To"))
    BY <1>1, <1>6 DEF Rewritten
  <2> QED
    BY <1>1, <1>2, <1>3, <2>1, ChangesKeep DEF P
<1> QED
  BY <1>4, <1>5, <1>6

\* A CHECK that fails leaves the message as it was.
LEMMA AbortStep ==
  ASSUME IInv, Abort, called \subseteq called', server' = server \/ sealed = ""
  PROVE  IInv'
<1>1. UNCHANGED <<headers, from_parsed, dmarc_from, assigned, spf_results, spf_stored, sealed, arrived>> /\ aborted'
  BY DEF Abort
<1>2. Typed' /\ Live(headers, assigned)'
  BY <1>1 DEF IInv, Typed
<1>3. Changes(arrived, headers, Gone(called), Put)'
  <2>1. Gone(called) \subseteq Gone(called') /\ Put \subseteq Put
    BY GoneMore
  <2>2. Changes(arrived, headers, Gone(called'), Put)
    BY <2>1, ChangesMore DEF IInv
  <2> QED
    BY <1>1, <2>2 DEF Put
<1>4. Once'
  BY <1>1 DEF IInv, Once, Did
<1>5. OneOwn' /\ Rewritten'
  BY <1>1 DEF OneOwn, Rewritten
<1>6. SealedIsOwn'
  BY <1>1 DEF IInv, SealedIsOwn
<1> QED
  BY <1>2, <1>3, <1>4, <1>5, <1>6 DEF IInv

\* remove_delivery_headers preserves the invariant.
LEMMA RemoveDeliveryHeadersStep ==
  ASSUME IInv, RemoveDeliveryHeaders
  PROVE  IInv'
<1>1. /\ headers' = DeliveryErased(headers)
      /\ called' = called \cup {"remove_delivery_headers"}
      /\ UNCHANGED <<from_parsed, dmarc_from, assigned, aborted, spf_results, spf_stored, sealed, server, arrived>>
  BY DEF RemoveDeliveryHeaders
<1>2. Typed /\ headers \in Seq(AnyHeader) /\ Once
  BY DEF IInv, Typed
<1>3. headers' \in Seq(AnyHeader) /\ Changes(headers, headers', Delivery, NewOnes({}, {}))
  <2>1. headers' \in Seq(AnyHeader) /\ Changes(headers, headers', Delivery, {})
    BY <1>1, <1>2, DeliveryErasedIs
  <2>2. {} \subseteq NewOnes({}, {}) /\ Delivery \subseteq Delivery
    OBVIOUS
  <2> QED
    BY <2>1, <2>2, ChangesMore
<1>4. /\ assigned' \in [Strings -> Nat]
      /\ Changes(arrived', headers', Gone(called'), Put)
      /\ Live(headers', assigned')
  <2>1. assigned' = Assign({})
    BY <1>1, <1>2 DEF Assign, Typed
  <2>2. Gone(called) \subseteq Gone(called') /\ Delivery \subseteq Gone(called')
    BY <1>1, GoneMore DEF Gone
  <2>3. Changes(arrived, headers, Gone(called), Put) /\ Live(headers, assigned)
    BY DEF IInv
  <2>4. /\ {} \in SUBSET Texts /\ {} \in SUBSET Strings
        /\ "Received-SPF" \notin {} /\ \A s \in {} : assigned[s] = 0
    OBVIOUS
  <2>5. arrived' = arrived
    BY <1>1
  <2> QED
    BY <1>2, <1>3, <2>1, <2>2, <2>3, <2>4, <2>5, Operation
<1>5. Typed'
  BY <1>1, <1>2, <1>3 DEF Typed
<1>6. Once'
  BY <1>1, <1>2 DEF Once, Did
<1>7. OneOwn' /\ SealedIsOwn'
  <2>1. Delivery \cap Called("Authentication-Results") = {}
    BY DEF Delivery, Called
  <2>2. Did("authentication")' => Did("authentication")
    BY <1>1 DEF Did
  <2> QED
    BY <1>1, <1>3, <2>1, <2>2, ResultsKept
<1>8. Rewritten'
  <2>1. Delivery \cap (Called("From") \cup Called("Reply-To")) = {}
    BY DEF Delivery, Called
  <2>2. Did("rewrite_from_to")' => Did("rewrite_from_to")
    BY <1>1 DEF Did
  <2> QED
    BY <1>1, <1>3, <2>1, <2>2, AuthorsKept
<1> QED
  BY <1>4, <1>5, <1>6, <1>7, <1>8 DEF IInv, Put

\* The headers the operations put in are headers.
LEMMA NewPut ==
  ASSUME Typed, NEW name \in PutIn, NEW s \in Strings
  PROVE  New(name, s) \in NewOnes({name}, {s})
<1>1. name \in Texts /\ "" \in Texts
  BY TextsAssumption
<1> QED
  BY <1>1, HeaderIs DEF New, Typed

\* Signing puts in one DKIM-Signature and takes nothing out.
LEMMA SignedIs ==
  ASSUME Typed, NEW hs \in Seq(AnyHeader)
  PROVE  /\ Signed(hs) \in Seq(AnyHeader)
         /\ Changes(hs, Signed(hs), {}, NewOnes({"DKIM-Signature"}, {"sig_str"}))
<1>1. "DKIM-Signature" \in PutIn /\ "sig_str" \in Strings /\ {"sig_str"} \in SUBSET Strings
  BY DEF PutIn, Strings
<1>2. New("DKIM-Signature", "sig_str") \in NewOnes({"DKIM-Signature"}, {"sig_str"})
  BY <1>1, NewPut
<1> QED
  BY <1>1, <1>2, PutOnTop DEF Signed

\* dkim_sign preserves the invariant: a message that has a signature of ours is not signed again
\* (CHECK(sig_str.empty())), or the first would view a string that has changed.
LEMMA DkimSignStep ==
  ASSUME IInv, DkimSign
  PROVE  IInv'
<1> DEFINE names == {"DKIM-Signature"}
           ss == {"sig_str"}
<1>1. called' = called \cup {"dkim_sign"} /\ server' = server
  BY DEF DkimSign
<1>2. Typed /\ headers \in Seq(AnyHeader) /\ Once
  BY DEF IInv, Typed
<1>3. CASE ~MaySign
  <2>1. Abort /\ called \subseteq called'
    BY <1>1, <1>3 DEF DkimSign
  <2> QED
    BY <1>1, <2>1, AbortStep
<1>4. CASE MaySign
  <2>1. /\ headers' = Signed(headers)
        /\ assigned' = Assign(ss)
        /\ UNCHANGED <<from_parsed, dmarc_from, aborted, spf_results, spf_stored, sealed, arrived>>
    BY <1>4 DEF DkimSign
  <2>2. headers' \in Seq(AnyHeader) /\ Changes(headers, headers', {}, NewOnes(names, ss))
    BY <1>2, <2>1, SignedIs
  <2>3. /\ names \in SUBSET Texts /\ ss \in SUBSET Strings /\ "Received-SPF" \notin names
        /\ \A s \in ss : assigned[s] = 0
    BY <1>4, TextsAssumption DEF MaySign, Strings, PutIn
  <2>4. Gone(called) \subseteq Gone(called') /\ {} \subseteq Gone(called')
    BY <1>1, GoneMore
  <2>5. /\ Changes(arrived, headers, Gone(called), Put) /\ Live(headers, assigned)
        /\ arrived' = arrived /\ assigned' = Assign(ss)
    BY <2>1 DEF IInv
  <2> HIDE DEF names, ss
  <2>6. /\ assigned' \in [Strings -> Nat]
        /\ \A s \in Strings : assigned'[s] > 0 <=> assigned[s] > 0 \/ s \in ss
        /\ Changes(arrived', headers', Gone(called'), Put)
        /\ Live(headers', assigned')
    BY <1>2, <2>2, <2>3, <2>4, <2>5, Operation
  <2>7. \A s \in Strings \ {"sig_str"} : assigned'[s] > 0 <=> assigned[s] > 0
    BY <2>6 DEF ss
  <2>8. assigned'["sig_str"] > 0
    BY <2>6 DEF ss, Strings
  <2>9. Typed'
    BY <1>2, <2>1, <2>2, <2>6, <2>7 DEF Typed, Strings
  <2>10. Once'
    BY <1>1, <1>2, <2>1, <2>7, <2>8 DEF Once, Did, Strings
  <2>11. OneOwn' /\ SealedIsOwn'
    <3>1. "Authentication-Results" \notin names /\ {} \cap Called("Authentication-Results") = {}
      BY DEF names
    <3>2. Did("authentication")' => Did("authentication")
      BY <1>1 DEF Did
    <3> QED
      BY <1>1, <2>1, <2>2, <2>3, <3>1, <3>2, ResultsKept
  <2>12. Rewritten'
    <3>1. /\ names \cap {"From", "Reply-To", "Return-Path", "Delivered-To"} = {}
          /\ {} \cap (Called("From") \cup Called("Reply-To")) = {}
      BY DEF names
    <3>2. Did("rewrite_from_to")' => Did("rewrite_from_to")
      BY <1>1 DEF Did
    <3>3. \A s \in {"from_str", "reply_to_str"} : assigned'[s] > 0 => assigned[s] > 0
      BY <2>7 DEF Strings
    <3> QED
      BY <2>1, <2>2, <2>3, <3>1, <3>2, <3>3, AuthorsKept
  <2> QED
    BY <2>6, <2>9, <2>10, <2>11, <2>12 DEF IInv, Put
<1> QED
  BY <1>3, <1>4

\* A header that is given takes the place of all of its name; without one nothing changes.
LEMMA ReplacedIs ==
  ASSUME Typed, NEW hs \in Seq(AnyHeader), NEW name \in PutIn, NEW s \in Strings, NEW given
  PROVE  LET new == IF given = "" THEN hs ELSE Replaced(hs, name, s) IN
         /\ new \in Seq(AnyHeader)
         /\ Changes(hs, new, Called(name), NewOnes({name}, IF given = "" THEN {} ELSE {s}))
         /\ given # "" => Some(new, Called(name)) /\ AtMostOne(new, Called(name))
<1>1. CASE given = ""
  <2>1. Changes(hs, hs, {}, NewOnes({name}, {}))
    BY ChangesNot
  <2>2. Changes(hs, hs, Called(name), NewOnes({name}, {}))
    BY <2>1, ChangesMore
  <2> QED
    BY <1>1, <2>2
<1>2. CASE given # ""
  <2> DEFINE P == NewOnes({name}, {s})
             left == Part(hs, {i \in DOMAIN hs : hs[i] \notin Called(name)})
             h == New(name, s)
             new == ParseHdr(left, h)
  <2>1. \A i \in DOMAIN hs : hs[i] \in AnyHeader
    OBVIOUS
  <2>2. Replaced(hs, name, s) = new
    BY <2>1 DEF Replaced, Erase, Where, Called
  <2>3. /\ left \in Seq(AnyHeader)
        /\ Changes(hs, left, Called(name), {})
        /\ None(left, Called(name))
    BY EraseIs
  <2>4. h \in P /\ {s} \in SUBSET Strings
    BY NewPut
  <2> HIDE DEF left, h
  <2>5. /\ new \in Seq(AnyHeader) /\ Changes(left, new, {}, P)
        /\ DOMAIN new = 1 .. Len(left) + 1 /\ new[1] = h
    BY <2>3, <2>4, PutOnTop
  <2>6. AtMostOne(new, Called(name))
    BY <2>3, <2>4, PutAlone
  <2>7. Some(new, Called(name))
    <3>1. h \in Called(name)
      BY <2>4 DEF NewOnes, Called
    <3>2. 1 \in DOMAIN new
      BY <2>3, <2>5
    <3> QED
      BY <2>5, <3>1, <3>2 DEF Some
  <2> HIDE DEF new, P
  <2>8. Changes(hs, new, Called(name) \cup {}, {} \cup P)
    BY <2>3, <2>5, ChangesTwice
  <2>9. Called(name) \cup {} \subseteq Called(name) /\ {} \cup P \subseteq P
    OBVIOUS
  <2>10. Changes(hs, new, Called(name), P)
    BY <2>8, <2>9, ChangesMore
  <2> QED
    BY <1>2, <2>2, <2>5, <2>6, <2>7, <2>10 DEF P
<1> QED
  BY <1>1, <1>2

\* arc_sign of arcsign preserves the invariant.
LEMMA ArcSignStep ==
  ASSUME IInv, NEW sender \in Servers, NEW made \in BOOLEAN, ArcSign(sender, made)
  PROVE  IInv'
<1> DEFINE ss == ArcStrings(made)
<1>1. /\ called' = called \cup {"arc_sign"} /\ server' = sender
      /\ ~Did("authentication") /\ ~Did("arc_sign")
  BY DEF ArcSign
<1>2. Typed /\ headers \in Seq(AnyHeader) /\ Once
  BY DEF IInv, Typed
<1>3. assigned["ar_str"] = 0 /\ assigned["arc_hdrs"] = 0 /\ sealed = ""
  <2>1. ~(assigned["ar_str"] > 0) /\ ~(assigned["arc_hdrs"] > 0) /\ sealed = ""
    BY <1>1, <1>2 DEF Once
  <2> QED
    BY <1>2, <2>1, HowOften DEF Typed
<1>4. CASE headers = <<>>
  <2>1. Abort /\ called \subseteq called'
    BY <1>1, <1>4 DEF ArcSign
  <2> QED
    BY <1>3, <2>1, AbortStep
<1>5. CASE headers # <<>>
  <2>1. /\ headers' = Seal(headers, made)
        /\ assigned' = Assign(ss)
        /\ sealed' = IF made THEN SealedResults(sender) ELSE ""
        /\ UNCHANGED <<from_parsed, dmarc_from, aborted, spf_results, spf_stored, arrived>>
    BY <1>5 DEF ArcSign, ArcStrings
  <2>2. headers' \in Seq(AnyHeader) /\ Changes(headers, headers', {}, NewOnes(ArcNames, ss))
    BY <1>2, <2>1, SealIs
  <2>3. /\ ArcNames \in SUBSET Texts /\ ss \in SUBSET Strings /\ "Received-SPF" \notin ArcNames
        /\ \A s \in ss : assigned[s] = 0
    BY <1>3, TextsAssumption DEF ArcNames, ArcStrings, Strings, PutIn
  <2>4. Gone(called) \subseteq Gone(called') /\ {} \subseteq Gone(called')
    BY <1>1, GoneMore
  <2>5. /\ Changes(arrived, headers, Gone(called), Put) /\ Live(headers, assigned)
        /\ arrived' = arrived /\ assigned' = Assign(ss)
    BY <2>1 DEF IInv
  <2>6. ss \subseteq {"arc_hdrs"}
    BY DEF ArcStrings
  <2> HIDE DEF ss
  <2>7. /\ assigned' \in [Strings -> Nat]
        /\ \A s \in Strings : assigned'[s] > 0 <=> assigned[s] > 0 \/ s \in ss
        /\ Changes(arrived', headers', Gone(called'), Put)
        /\ Live(headers', assigned')
    BY <1>2, <2>2, <2>3, <2>4, <2>5, Operation
  <2>8. \A s \in Strings \ {"arc_hdrs"} : assigned'[s] > 0 <=> assigned[s] > 0
    BY <2>6, <2>7
  <2>9. Typed'
    BY <1>2, <2>1, <2>2, <2>7, <2>8 DEF Typed, Strings
  <2>10. Once'
    BY <1>1, <1>2, <2>1, <2>8 DEF Once, Did, Strings
  <2>11. OneOwn'
    BY <1>1 DEF OneOwn, Did
  <2>12. SealedIsOwn'
    <3> SUFFICES ASSUME sealed' \notin {"", "None"}
                 PROVE  sealed' = sender /\ Some(headers', Own(sealed') \cup Own(""))
      BY <1>1 DEF SealedIsOwn
    <3>1. sealed' = sender
          /\ \E i \in DOMAIN headers : headers[i].name = "Authentication-Results" /\ headers[i].by = sender
      BY <2>1 DEF SealedResults
    <3>2. \A i \in DOMAIN headers : headers[i] \in AnyHeader
      BY <1>2, SeqIs
    <3>3. Some(headers, Own(sender) \cup Own(""))
      BY <3>1, <3>2 DEF Some, Own
    <3>4. {} \cap (Own(sender) \cup Own("")) = {}
      OBVIOUS
    <3>5. Some(headers', Own(sender) \cup Own(""))
      BY <1>2, <2>2, <3>3, <3>4, ChangesKeep
    <3> QED
      BY <3>1, <3>5
  <2>13. Rewritten'
    <3>1. /\ ArcNames \cap {"From", "Reply-To", "Return-Path", "Delivered-To"} = {}
          /\ {} \cap (Called("From") \cup Called("Reply-To")) = {}
      BY DEF ArcNames
    <3>2. (Did("rewrite_from_to")' => Did("rewrite_from_to")) /\ aborted' = aborted
      BY <1>1, <2>1 DEF Did
    <3>3. \A s \in {"from_str", "reply_to_str"} : assigned'[s] > 0 => assigned[s] > 0
      BY <2>8 DEF Strings
    <3> QED
      BY <2>2, <2>3, <3>1, <3>2, <3>3, AuthorsKept
  <2> QED
    BY <2>7, <2>9, <2>10, <2>11, <2>12, <2>13 DEF IInv, Put
<1> QED
  BY <1>4, <1>5

\* rewrite_from_to preserves the invariant: the delivery headers go, the headers given take the
\* place of those of their names, and the message is signed, or it is left as it was.
LEMMA RewriteFromToStep ==
  ASSUME IInv, NEW mail_from \in Given, NEW reply_to \in Given, RewriteFromTo(mail_from, reply_to)
  PROVE  IInv'
<1> DEFINE ss1 == IF mail_from = "" THEN {} ELSE {"from_str"}
           ss2 == IF reply_to = "" THEN {} ELSE {"reply_to_str"}
           ss == {"sig_str"} \cup ss1 \cup ss2
           names == {"From", "Reply-To", "DKIM-Signature"}
           gone == Delivery \cup Called("From") \cup Called("Reply-To")
           bare == DeliveryErased(headers)
           from == IF mail_from = "" THEN bare ELSE Replaced(bare, "From", "from_str")
           both == IF reply_to = "" THEN from ELSE Replaced(from, "Reply-To", "reply_to_str")
           P == NewOnes(names, ss)
           signature == NewOnes({"DKIM-Signature"}, {"sig_str"})
<1>1. called' = called \cup {"rewrite_from_to"} /\ server' = server
  BY DEF RewriteFromTo
<1>2. Typed /\ headers \in Seq(AnyHeader) /\ Once
  BY DEF IInv, Typed
<1>3. CASE "address" \in {mail_from, reply_to} \/ ~MaySign
  <2>1. Abort /\ called \subseteq called'
    BY <1>1, <1>3 DEF RewriteFromTo
  <2> QED
    BY <1>1, <2>1, AbortStep
<1>4. CASE ~("address" \in {mail_from, reply_to} \/ ~MaySign)
  <2>1. /\ headers' = Signed(both)
        /\ assigned' = Assign(ss)
        /\ UNCHANGED <<from_parsed, dmarc_from, aborted, spf_results, spf_stored, sealed, arrived>>
    BY <1>4 DEF RewriteFromTo
  <2>2. /\ bare \in Seq(AnyHeader) /\ Changes(headers, bare, Delivery, {})
        /\ None(bare, Delivery)
    BY <1>2, DeliveryErasedIs
  <2> HIDE DEF bare
  <2>3. /\ from \in Seq(AnyHeader)
        /\ Changes(bare, from, Called("From"), NewOnes({"From"}, ss1))
        /\ mail_from # "" => Some(from, Called("From")) /\ AtMostOne(from, Called("From"))
    BY <1>2, <2>2, ReplacedIs, "From" \in PutIn, "from_str" \in Strings DEF PutIn, Strings
  <2> HIDE DEF from
  <2>4. /\ both \in Seq(AnyHeader)
        /\ Changes(from, both, Called("Reply-To"), NewOnes({"Reply-To"}, ss2))
        /\ reply_to # "" => Some(both, Called("Reply-To")) /\ AtMostOne(both, Called("Reply-To"))
    BY <1>2, <2>3, ReplacedIs, "Reply-To" \in PutIn, "reply_to_str" \in Strings DEF PutIn, Strings
  <2> HIDE DEF both
  <2>5. /\ headers' \in Seq(AnyHeader)
        /\ Changes(both, headers', {}, signature)
    BY <1>2, <2>1, <2>4, SignedIs
  <2>6. /\ names \in SUBSET Texts /\ ss \in SUBSET Strings /\ "Received-SPF" \notin names
        /\ \A s \in ss : assigned[s] = 0
    <3>1. assigned["sig_str"] = 0 /\ assigned["from_str"] = 0 /\ assigned["reply_to_str"] = 0
      <4>1. assigned["sig_str"] = 0 /\ ~(assigned["sig_str"] > 0)
        BY <1>4 DEF MaySign
      <4>2. ~(assigned["from_str"] > 0) /\ ~(assigned["reply_to_str"] > 0)
        BY <1>2, <4>1 DEF Once
      <4> QED
        BY <1>2, <4>1, <4>2, HowOften DEF Typed
    <3>2. \A s \in ss : s \in {"sig_str", "from_str", "reply_to_str"}
      OBVIOUS
    <3>3. ss \in SUBSET Strings
      BY <3>2 DEF Strings
    <3>4. names \in SUBSET Texts /\ "Received-SPF" \notin names
      BY TextsAssumption DEF PutIn
    <3> HIDE DEF ss, names
    <3> QED
      BY <3>1, <3>2, <3>3, <3>4
  <2>7. Changes(headers, headers', gone, P)
    <3>1. /\ {"From"} \subseteq names /\ {"Reply-To"} \subseteq names /\ {"DKIM-Signature"} \subseteq names
          /\ ss1 \subseteq ss /\ ss2 \subseteq ss /\ {"sig_str"} \subseteq ss
      OBVIOUS
    <3> HIDE DEF ss1, ss2, ss, names
    <3>2. NewOnes({"From"}, ss1) \subseteq P
      BY <3>1, NewOnesMore
    <3>3. NewOnes({"Reply-To"}, ss2) \subseteq P
      BY <3>1, NewOnesMore
    <3>4. signature \subseteq P
      BY <3>1, NewOnesMore
    <3>5. {} \subseteq P /\ {} \subseteq gone
      OBVIOUS
    <3>6. Delivery \subseteq gone /\ Called("From") \subseteq gone /\ Called("Reply-To") \subseteq gone
      OBVIOUS
    <3> HIDE DEF P, gone, ss1, ss2
    <3>7. Changes(headers, bare, gone, P)
      BY <2>2, <3>5, <3>6, ChangesMore
    <3>8. Changes(bare, from, gone, P)
      BY <2>3, <3>2, <3>6, ChangesMore
    <3>9. Changes(from, both, gone, P)
      BY <2>4, <3>3, <3>6, ChangesMore
    <3>10. Changes(both, headers', gone, P)
      BY <2>5, <3>4, <3>5, ChangesMore
    <3>11. Changes(headers, from, gone, P)
      BY <1>2, <2>2, <2>3, <3>7, <3>8, ChangesAgain
    <3>12. Changes(headers, both, gone, P)
      BY <1>2, <2>3, <2>4, <3>9, <3>11, ChangesAgain
    <3> QED
      BY <1>2, <2>4, <2>5, <3>10, <3>12, ChangesAgain
  <2>8. Gone(called) \subseteq Gone(called') /\ gone \subseteq Gone(called')
    BY <1>1, GoneMore DEF Gone
  <2>9. /\ Changes(arrived, headers, Gone(called), Put) /\ Live(headers, assigned)
        /\ arrived' = arrived /\ assigned' = Assign(ss)
    BY <2>1 DEF IInv
  <2>10. (mail_from = "" => "from_str" \notin ss) /\ (reply_to = "" => "reply_to_str" \notin ss)
         /\ "ar_str" \notin ss /\ "arc_hdrs" \notin ss /\ "sig_str" \in ss
    OBVIOUS
  <2>11. gone \cap Called("Authentication-Results") = {} /\ "Authentication-Results" \notin names
    BY DEF Delivery, Called
  <2> HIDE DEF ss, gone, names
  <2>12. /\ assigned' \in [Strings -> Nat]
         /\ \A s \in Strings : assigned'[s] > 0 <=> assigned[s] > 0 \/ s \in ss
         /\ Changes(arrived', headers', Gone(called'), Put)
         /\ Live(headers', assigned')
    BY <1>2, <2>5, <2>6, <2>7, <2>8, <2>9, Operation
  <2>13. Typed'
    BY <1>2, <2>1, <2>5, <2>10, <2>12 DEF Typed, Strings
  <2>14. Once'
    BY <1>1, <1>2, <2>1, <2>10, <2>12 DEF Once, Did, Strings
  <2>15. OneOwn' /\ SealedIsOwn'
    <3>1. Did("authentication")' => Did("authentication")
      BY <1>1 DEF Did
    <3>2. UNCHANGED <<server, sealed, aborted>>
      BY <1>1, <2>1
    <3> QED
      BY <2>5, <2>6, <2>7, <2>11, <3>1, <3>2, ResultsKept
  <2>16. Rewritten'
    <3>1. /\ assigned'["from_str"] > 0 => mail_from # ""
          /\ assigned'["reply_to_str"] > 0 => reply_to # ""
      <4>1. "from_str" \in Strings /\ "reply_to_str" \in Strings
        BY DEF Strings
      <4>2. ~(assigned["from_str"] > 0) /\ ~(assigned["reply_to_str"] > 0)
        <5>1. ~(assigned["sig_str"] > 0)
          BY <1>4 DEF MaySign
        <5> QED
          BY <1>2, <5>1 DEF Once
      <4> QED
        BY <2>10, <2>12, <4>1, <4>2
    <3>2. {} \cap Called("From") = {} /\ {} \cap Called("Reply-To") = {}
      OBVIOUS
    <3>3. /\ NewOnes({"From"}, ss1) \cap Delivery = {}
          /\ NewOnes({"Reply-To"}, ss2) \cap Delivery = {}
          /\ signature \cap Delivery = {}
      BY DEF NewOnes, Delivery, Called
    <3>4. /\ NewOnes({"Reply-To"}, ss2) \cap Called("From") = {}
          /\ signature \cap Called("From") = {}
          /\ signature \cap Called("Reply-To") = {}
          /\ Called("Reply-To") \cap Called("From") = {}
      BY DEF NewOnes, Called
    <3> HIDE DEF ss1, ss2, signature
    <3>5. None(headers', Delivery)
      <4>1. None(from, Delivery)
        BY <2>2, <2>3, <3>3, ChangesKeep
      <4>2. None(both, Delivery)
        BY <2>3, <2>4, <3>3, <4>1, ChangesKeep
      <4> QED
        BY <2>4, <2>5, <3>3, <4>2, ChangesKeep
    <3>6. ASSUME mail_from # "" PROVE Some(headers', Called("From")) /\ AtMostOne(headers', Called("From"))
      <4>1. Some(from, Called("From")) /\ AtMostOne(from, Called("From"))
        BY <2>3, <3>6
      <4>2. Some(both, Called("From")) /\ AtMostOne(both, Called("From"))
        BY <2>3, <2>4, <3>4, <4>1, ChangesKeep
      <4>3. Some(headers', Called("From"))
        BY <2>4, <2>5, <3>2, <4>2, ChangesKeep
      <4>4. AtMostOne(headers', Called("From"))
        BY <2>4, <2>5, <3>4, <4>2, ChangesKeep
      <4> QED
        BY <4>3, <4>4
    <3>7. ASSUME reply_to # ""
          PROVE  Some(headers', Called("Reply-To")) /\ AtMostOne(headers', Called("Reply-To"))
      <4>1. Some(both, Called("Reply-To")) /\ AtMostOne(both, Called("Reply-To"))
        BY <2>4, <3>7
      <4>2. Some(headers', Called("Reply-To"))
        BY <2>4, <2>5, <3>2, <4>1, ChangesKeep
      <4>3. AtMostOne(headers', Called("Reply-To"))
        BY <2>4, <2>5, <3>4, <4>1, ChangesKeep
      <4> QED
        BY <4>2, <4>3
    <3> QED
      BY <3>1, <3>5, <3>6, <3>7 DEF Rewritten
  <2> QED
    BY <2>12, <2>13, <2>14, <2>15, <2>16 DEF IInv, Put
<1> QED
  BY <1>3, <1>4

\* Finding headers by name finds headers of the message that have that name.
LEMMA NamedIs ==
  ASSUME NEW hs \in Seq(AnyHeader), NEW name
  PROVE  /\ Named(hs, name) \in Seq(AnyHeader)
         /\ \A k \in DOMAIN Named(hs, name) :
              Named(hs, name)[k].name = name /\ Some(hs, {Named(hs, name)[k]})
<1> DEFINE at == {i \in DOMAIN hs : hs[i].name = name}
<1>1. Named(hs, name) = Part(hs, at)
  BY DEF Named, Where
<1>2. at \in SUBSET (DOMAIN hs) /\ \A i \in at : i \in DOMAIN hs /\ hs[i].name = name
  OBVIOUS
<1> HIDE DEF at
<1>3. /\ Part(hs, at) \in Seq(AnyHeader)
      /\ \A k \in DOMAIN Part(hs, at) : InOrder(at)[k] \in at /\ Part(hs, at)[k] = hs[InOrder(at)[k]]
  BY <1>2, PartIs
<1> QED
  BY <1>1, <1>2, <1>3 DEF Some

\* The fields reported are Received-SPF of the message that are usable, no two of a domain.
LEMMA SpfReportedIs ==
  ASSUME NEW hs \in Seq(AnyHeader), NEW sender
  PROVE  LET r == SpfReported(hs, sender) IN
         /\ r \in Seq(SpfFields)
         /\ \A i \in DOMAIN r :
              /\ Usable(r[i], sender)
              /\ \E k \in DOMAIN hs : hs[k].name = "Received-SPF" /\ hs[k].spf = r[i]
         /\ \A i, j \in DOMAIN r : r[i].efrom.domain = r[j].efrom.domain => i = j
<1> DEFINE named == Named(hs, "Received-SPF")
           fields == [i \in DOMAIN named |-> named[i].spf]
           at == {i \in DOMAIN fields : Usable(fields[i], sender)}
           usable == Part(fields, at)
           firsts == {i \in DOMAIN usable : FirstOfDomain(usable, i)}
           r == Part(usable, firsts)
<1>1. SpfReported(hs, sender) = r
  BY DEF SpfReported, Where
<1>2. /\ named \in Seq(AnyHeader)
      /\ \A k \in DOMAIN named : named[k].name = "Received-SPF" /\ Some(hs, {named[k]})
  BY NamedIs
<1> HIDE DEF named
<1>3. /\ fields \in Seq(SpfFields)
      /\ \A i \in DOMAIN fields : \E k \in DOMAIN hs : hs[k].name = "Received-SPF" /\ hs[k].spf = fields[i]
  <2>1. DOMAIN named = 1 .. Len(named) /\ Len(named) \in Nat
    BY <1>2
  <2>2. \A i \in DOMAIN named : named[i] \in AnyHeader
    BY <1>2, SeqIs
  <2>3. \A i \in DOMAIN named : named[i].spf \in SpfFields
    BY <2>2 DEF AnyHeader, Headers
  <2>4. fields \in [1 .. Len(named) -> SpfFields]
    BY <2>1, <2>3
  <2>5. fields \in Seq(SpfFields)
    BY <2>1, <2>4
  <2>6. ASSUME NEW i \in DOMAIN named
        PROVE  \E k \in DOMAIN hs : hs[k].name = "Received-SPF" /\ hs[k].spf = named[i].spf
    BY <1>2 DEF Some
  <2> QED
    BY <2>5, <2>6
<1> HIDE DEF fields
<1>4. at \in SUBSET (DOMAIN fields) /\ \A i \in at : i \in DOMAIN fields /\ Usable(fields[i], sender)
  OBVIOUS
<1> HIDE DEF at
<1>5. /\ usable \in Seq(SpfFields)
      /\ \A k \in DOMAIN usable : InOrder(at)[k] \in at /\ usable[k] = fields[InOrder(at)[k]]
  BY <1>3, <1>4, PartIs
<1>6. \A i \in DOMAIN usable :
        /\ Usable(usable[i], sender)
        /\ \E k \in DOMAIN hs : hs[k].name = "Received-SPF" /\ hs[k].spf = usable[i]
  BY <1>3, <1>4, <1>5
<1> HIDE DEF usable
<1>7. /\ firsts \in SUBSET (DOMAIN usable)
      /\ \A i \in firsts : i \in DOMAIN usable /\ FirstOfDomain(usable, i)
  OBVIOUS
<1> HIDE DEF firsts
<1>8. /\ r \in Seq(SpfFields)
      /\ \A k \in DOMAIN r : InOrder(firsts)[k] \in firsts /\ r[k] = usable[InOrder(firsts)[k]]
      /\ \A k, l \in DOMAIN r : k < l => InOrder(firsts)[k] < InOrder(firsts)[l]
  BY <1>5, <1>7, PartIs
<1> HIDE DEF r
<1>9. DOMAIN r = 1 .. Len(r) /\ Len(r) \in Nat
  BY <1>8
<1>10. ASSUME NEW i \in DOMAIN r, NEW j \in DOMAIN r, i < j PROVE r[i].efrom.domain # r[j].efrom.domain
  <2> DEFINE a == InOrder(firsts)[i]
             b == InOrder(firsts)[j]
  <2>1. /\ a \in firsts /\ b \in firsts /\ a < b
        /\ r[i] = usable[a] /\ r[j] = usable[b]
    BY <1>8, <1>10
  <2> HIDE DEF a, b
  <2>2. a \in DOMAIN usable /\ b \in DOMAIN usable /\ FirstOfDomain(usable, b)
    BY <1>7, <2>1
  <2>3. DOMAIN usable = 1 .. Len(usable) /\ Len(usable) \in Nat
    BY <1>5
  <2>4. a \in 1 .. b - 1
    BY <2>1, <2>2, <2>3
  <2> QED
    BY <2>1, <2>2, <2>4 DEF FirstOfDomain
<1>11. ASSUME NEW i \in DOMAIN r, NEW j \in DOMAIN r, r[i].efrom.domain = r[j].efrom.domain PROVE i = j
  <2>1. ~(i < j) /\ ~(j < i)
    BY <1>10, <1>11
  <2> QED
    BY <1>9, <2>1
<1>12. \A i \in DOMAIN r :
         /\ Usable(r[i], sender)
         /\ \E k \in DOMAIN hs : hs[k].name = "Received-SPF" /\ hs[k].spf = r[i]
  BY <1>6, <1>7, <1>8
<1> QED
  BY <1>1, <1>8, <1>11, <1>12

\* What DMARC is told comes from a reported field whose result counts.
LEMMA SpfStoredIs ==
  ASSUME NEW spf \in Seq(SpfFields)
  PROVE  \A i \in DOMAIN SpfStored(spf) :
           \E k \in DOMAIN spf : Counts(spf[k].result) /\ SpfStored(spf)[i] = SpfResultToDmarc(spf[k])
<1> DEFINE at == {i \in DOMAIN spf : Counts(spf[i].result)}
           counted == Part(spf, at)
<1>1. SpfStored(spf) = [i \in DOMAIN counted |-> SpfResultToDmarc(counted[i])]
  BY DEF SpfStored, Where
<1>2. at \in SUBSET (DOMAIN spf) /\ \A i \in at : i \in DOMAIN spf /\ Counts(spf[i].result)
  OBVIOUS
<1> HIDE DEF at
<1>3. \A k \in DOMAIN counted : InOrder(at)[k] \in at /\ counted[k] = spf[InOrder(at)[k]]
  BY <1>2, PartIs
<1> HIDE DEF counted
<1> QED
  BY <1>1, <1>2, <1>3

\* What an authentication that can tell the author puts in, and the strings it assigns.
AuthNames == ArcNames \cup {"Authentication-Results"}
AuthStrings(made) == {"ar_str"} \cup ArcStrings(made)

\* What an authentication that can tell the author makes of the headers it has kept.
LEMMA ResultsPut ==
  ASSUME Typed, NEW kept \in Seq(AnyHeader), NEW sender \in Servers, NEW status, NEW made \in BOOLEAN,
         None(kept, Own(sender))
  PROVE  LET new == Seal(ParseHdr(kept, OwnResults(sender, status)), made) IN
         /\ new \in Seq(AnyHeader)
         /\ Changes(kept, new, {}, NewOnes(AuthNames, AuthStrings(made)))
         /\ AtMostOne(new, Own(sender)) /\ None(new, Own(sender) \cap Headers({Input}))
         /\ Some(new, Own(sender) \cup Own(""))
<1> DEFINE h == OwnResults(sender, status)
           top == ParseHdr(kept, h)
           new == Seal(top, made)
           P == NewOnes(AuthNames, AuthStrings(made))
           ns == {"Authentication-Results"}
           ss == {"ar_str"}
           P1 == NewOnes(ns, ss)
           P2 == NewOnes(ArcNames, ArcStrings(made))
<1>1. h \in P1 /\ (h.by = "" \/ h.by = sender)
  <2> DEFINE by == IF status = "unknown" THEN "" ELSE sender
  <2>1. "Authentication-Results" \in Texts /\ by \in Texts /\ "ar_str" \in Strings
    BY TextsAssumption DEF PutIn, Strings
  <2>2. by = "" \/ by = sender
    OBVIOUS
  <2>3. h = Header("Authentication-Results", by, View("ar_str"))
    BY DEF OwnResults
  <2> HIDE DEF by
  <2>4. assigned \in [Strings -> Nat]
    BY DEF Typed
  <2> DEFINE name == "Authentication-Results"
             str == "ar_str"
  <2> HIDE DEF name, str
  <2>5. name \in Texts /\ str \in Strings
    BY <2>1 DEF name, str
  <2>6. Header(name, by, View(str)) \in NewOnes({name}, {str}) /\ Header(name, by, View(str)).by = by
    BY <2>1, <2>4, <2>5, HeaderIs
  <2>7. /\ Header("Authentication-Results", by, View("ar_str")) \in P1
        /\ Header("Authentication-Results", by, View("ar_str")).by = by
    BY <2>6 DEF name, str
  <2> QED
    BY <2>2, <2>3, <2>7
<1>2. h \in Own(sender) \cup Own("")
  BY <1>1 DEF NewOnes, Own
<1>3. ss \in SUBSET Strings
  BY DEF Strings
<1>4. {"Authentication-Results"} \subseteq AuthNames /\ {"ar_str"} \subseteq AuthStrings(made)
      /\ ArcNames \subseteq AuthNames /\ ArcStrings(made) \subseteq AuthStrings(made)
  BY DEF AuthNames, AuthStrings
<1>5. P1 \subseteq P /\ P2 \subseteq P
  BY <1>4, NewOnesMore
<1>6. P1 \cap (Own(sender) \cap Headers({Input})) = {}
  <2> SUFFICES ASSUME NEW g \in P1, g \in Headers({Input}) PROVE FALSE
    OBVIOUS
  <2>1. g \in AnyHeader /\ g.view # Input
    BY <1>3, NewIsNew DEF Typed
  <2> QED
    BY <2>1, AnyHeaders
<1>7. P2 \cap Own(sender) = {}
  BY DEF NewOnes, Own, ArcNames
<1> HIDE DEF h, ns, ss
<1>8. /\ top \in Seq(AnyHeader) /\ Changes(kept, top, {}, P1)
      /\ DOMAIN top = 1 .. Len(kept) + 1 /\ top[1] = h
  <2>1. h \in NewOnes(ns, ss)
    BY <1>1
  <2>2. Changes(kept, ParseHdr(kept, h), {}, NewOnes(ns, ss))
    BY <1>3, <2>1, PutOnTop
  <2>3. /\ ParseHdr(kept, h) \in Seq(AnyHeader)
        /\ DOMAIN ParseHdr(kept, h) = 1 .. Len(kept) + 1
        /\ ParseHdr(kept, h)[1] = h
    BY <1>3, <2>1, PutOnTop
  <2> QED
    BY <2>2, <2>3
<1>9. AtMostOne(top, Own(sender))
  BY <1>1, <1>3, PutAlone
<1>10. Some(top, Own(sender) \cup Own(""))
  <2>1. 1 \in DOMAIN top
    BY <1>8
  <2> QED
    BY <1>2, <1>8, <2>1 DEF Some
<1> HIDE DEF top, P, P1, P2
<1>11. None(top, Own(sender) \cap Headers({Input}))
  <2>1. None(kept, Own(sender) \cap Headers({Input}))
    BY DEF None
  <2> QED
    BY <1>6, <1>8, <2>1, ChangesKeep
<1>12. new \in Seq(AnyHeader) /\ Changes(top, new, {}, P2)
  BY <1>8, SealIs DEF P2
<1> HIDE DEF new
<1>13. Changes(kept, new, {}, P)
  <2>1. {} \subseteq {}
    OBVIOUS
  <2>2. Changes(kept, top, {}, P) /\ Changes(top, new, {}, P)
    BY <1>5, <1>8, <1>12, <2>1, ChangesMore
  <2> QED
    BY <1>8, <1>12, <2>2, ChangesAgain
<1>14. AtMostOne(new, Own(sender))
  BY <1>7, <1>8, <1>9, <1>12, ChangesKeep
<1>15. None(new, Own(sender) \cap Headers({Input}))
  <2>1. P2 \cap (Own(sender) \cap Headers({Input})) = {}
    BY <1>7
  <2> QED
    BY <1>8, <1>11, <1>12, <2>1, ChangesKeep
<1>16. Some(new, Own(sender) \cup Own(""))
  <2>1. {} \cap (Own(sender) \cup Own("")) = {}
    OBVIOUS
  <2> QED
    BY <1>8, <1>10, <1>12, <2>1, ChangesKeep
<1> QED
  BY <1>12, <1>13, <1>14, <1>15, <1>16 DEF new, top, h, P

\* The addresses in From are addresses.
LEMMA AuthorsAre ==
  ASSUME NEW hs \in Seq(AnyHeader)
  PROVE  Authors(hs) \in Seq(Addresses)
<1> DEFINE named == Named(hs, "From")
<1>1. named \in Seq(AnyHeader)
  BY NamedIs
<1>2. Authors(hs) = IF named = <<>> THEN <<>> ELSE named[1].addresses
  BY DEF Authors
<1> HIDE DEF named
<1>3. CASE named = <<>>
  BY <1>2, <1>3
<1>4. CASE named # <<>>
  <2>1. 1 \in DOMAIN named
    BY <1>1, <1>4
  <2>2. named[1] \in AnyHeader
    BY <1>1, <2>1, SeqIs
  <2>3. named[1].addresses \in Seq(Addresses)
    BY <2>2, AnyHeaders
  <2> QED
    BY <1>2, <1>4, <2>3
<1> QED
  BY <1>3, <1>4

\* Authentication where the author cannot be told preserves the invariant.
LEMMA NotAuthenticatedStep ==
  ASSUME IInv, NEW sender \in Servers,
         ~Did("authentication"), ~Did("arc_sign"),
         called' = called \cup {"authentication"}, server' = sender,
         headers' = OwnResultsErased(headers, sender), from_parsed' \in Seq(Addresses),
         UNCHANGED <<dmarc_from, assigned, sealed, aborted, arrived>>
  PROVE  IInv'
<1>1. Typed /\ headers \in Seq(AnyHeader) /\ Once
  BY DEF IInv, Typed
<1>2. /\ headers' \in Seq(AnyHeader) /\ Changes(headers, headers', Own(sender), {})
      /\ None(headers', Own(sender))
  BY <1>1, OwnErased
<1>3. Changes(headers, headers', Own(sender), NewOnes({}, {}))
  <2>1. {} \subseteq NewOnes({}, {}) /\ Own(sender) \subseteq Own(sender)
    OBVIOUS
  <2> QED
    BY <1>2, <2>1, ChangesMore
<1>4. /\ assigned' \in [Strings -> Nat]
      /\ Changes(arrived', headers', Gone(called'), Put)
      /\ Live(headers', assigned')
  <2>1. assigned' = Assign({}) /\ arrived' = arrived
    BY <1>1 DEF Assign, Typed
  <2>2. Gone(called) \subseteq Gone(called')
    BY GoneMore
  <2>3. Own(sender) \subseteq Gone(called')
    BY DEF Gone
  <2>4. Changes(arrived, headers, Gone(called), Put) /\ Live(headers, assigned)
    BY DEF IInv
  <2>5. /\ {} \in SUBSET Texts /\ {} \in SUBSET Strings
        /\ "Received-SPF" \notin {} /\ \A s \in {} : assigned[s] = 0
    OBVIOUS
  <2> QED
    BY <1>1, <1>2, <1>3, <2>1, <2>2, <2>3, <2>4, <2>5, Operation
<1>5. Typed'
  BY <1>1, <1>2 DEF Typed
<1>6. Once'
  BY <1>1 DEF Once, Did
<1>7. OneOwn'
  <2>1. AtMostOne(headers', Own(sender)) /\ None(headers', Own(sender) \cap Headers({Input}))
    BY <1>2 DEF None, AtMostOne
  <2> QED
    BY <2>1 DEF OneOwn
<1>8. SealedIsOwn'
  <2>1. sealed = ""
    BY <1>1 DEF Once
  <2> QED
    BY <2>1 DEF SealedIsOwn
<1>9. Rewritten'
  <2>1. Own(sender) \cap (Called("From") \cup Called("Reply-To")) = {}
    BY DEF Own, Called
  <2>2. Did("rewrite_from_to")' => Did("rewrite_from_to")
    BY DEF Did
  <2>3. {} \in SUBSET Strings /\ {} \cap {"From", "Reply-To", "Return-Path", "Delivered-To"} = {}
    OBVIOUS
  <2> QED
    BY <1>2, <1>3, <2>1, <2>2, <2>3, AuthorsKept
<1> QED
  BY <1>4, <1>5, <1>6, <1>7, <1>8, <1>9 DEF IInv, Put

\* Authentication where the author can be told preserves the invariant.
LEMMA AuthenticatedStep ==
  ASSUME IInv, NEW sender \in Servers, NEW status, NEW made \in BOOLEAN,
         ~Did("authentication"), ~Did("arc_sign"),
         called' = called \cup {"authentication"}, server' = sender,
         headers' = Seal(ParseHdr(OwnResultsErased(headers, sender), OwnResults(sender, status)), made),
         assigned' = Assign(AuthStrings(made)), sealed' = IF made THEN sender ELSE "",
         from_parsed' \in Seq(Addresses), dmarc_from'.ok,
         UNCHANGED <<aborted, arrived>>
  PROVE  IInv'
<1> DEFINE kept == OwnResultsErased(headers, sender)
           ss == AuthStrings(made)
<1>1. Typed /\ headers \in Seq(AnyHeader) /\ Once
  BY DEF IInv, Typed
<1>2. /\ kept \in Seq(AnyHeader) /\ Changes(headers, kept, Own(sender), {})
      /\ None(kept, Own(sender))
  BY <1>1, OwnErased
<1> HIDE DEF kept
<1>3. /\ headers' \in Seq(AnyHeader)
      /\ Changes(kept, headers', {}, NewOnes(AuthNames, ss))
      /\ AtMostOne(headers', Own(sender)) /\ None(headers', Own(sender) \cap Headers({Input}))
      /\ Some(headers', Own(sender) \cup Own(""))
  BY <1>1, <1>2, ResultsPut DEF kept
<1>4. Changes(headers, headers', Own(sender), NewOnes(AuthNames, ss))
  <2>1. Own(sender) \cup {} = Own(sender) /\ {} \cup NewOnes(AuthNames, ss) = NewOnes(AuthNames, ss)
    OBVIOUS
  <2>2. Changes(headers, headers', Own(sender) \cup {}, {} \cup NewOnes(AuthNames, ss))
    BY <1>1, <1>2, <1>3, ChangesTwice
  <2> QED
    BY <2>1, <2>2
<1>5. /\ AuthNames \in SUBSET Texts /\ ss \in SUBSET Strings /\ "Received-SPF" \notin AuthNames
      /\ \A s \in ss : assigned[s] = 0
  <2>1. ~(assigned["ar_str"] > 0) /\ ~(assigned["arc_hdrs"] > 0)
    BY <1>1 DEF Once
  <2>2. assigned["ar_str"] = 0 /\ assigned["arc_hdrs"] = 0
    BY <1>1, <2>1, HowOften DEF Typed
  <2>3. ss \subseteq {"ar_str", "arc_hdrs"}
    BY DEF AuthStrings, ArcStrings
  <2>4. AuthNames \in SUBSET Texts /\ "Received-SPF" \notin AuthNames
    BY TextsAssumption DEF AuthNames, ArcNames, PutIn
  <2> HIDE DEF ss
  <2> QED
    BY <2>2, <2>3, <2>4 DEF Strings
<1>6. Gone(called) \subseteq Gone(called')
  BY GoneMore
<1>7. Own(sender) \subseteq Gone(called')
  BY DEF Gone
<1>8. /\ Changes(arrived, headers, Gone(called), Put) /\ Live(headers, assigned)
      /\ arrived' = arrived /\ assigned' = Assign(ss)
  BY DEF IInv
<1>9. "ar_str" \in ss /\ ss \subseteq {"ar_str", "arc_hdrs"}
  BY DEF AuthStrings, ArcStrings
<1> HIDE DEF ss
<1>10. /\ assigned' \in [Strings -> Nat]
       /\ \A s \in Strings : assigned'[s] > 0 <=> assigned[s] > 0 \/ s \in ss
       /\ Changes(arrived', headers', Gone(called'), Put)
       /\ Live(headers', assigned')
  BY <1>1, <1>3, <1>4, <1>5, <1>6, <1>7, <1>8, Operation
<1>11. \A s \in {"sig_str", "from_str", "reply_to_str"} : assigned'[s] > 0 <=> assigned[s] > 0
  BY <1>9, <1>10 DEF Strings
<1>12. assigned'["ar_str"] > 0
  BY <1>9, <1>10, HowOften DEF Strings
<1>13. Typed'
  BY <1>1, <1>3, <1>10, <1>12 DEF Typed
<1>14. Once'
  BY <1>1, <1>11 DEF Once, Did
<1>15. OneOwn'
  BY <1>3 DEF OneOwn
<1>16. SealedIsOwn'
  BY <1>3 DEF SealedIsOwn
<1>17. Rewritten'
  <2>1. /\ AuthNames \cap {"From", "Reply-To", "Return-Path", "Delivered-To"} = {}
        /\ Own(sender) \cap (Called("From") \cup Called("Reply-To")) = {}
    BY DEF AuthNames, ArcNames, Own, Called
  <2>2. (Did("rewrite_from_to")' => Did("rewrite_from_to")) /\ aborted' = aborted
    BY DEF Did
  <2>3. \A s \in {"from_str", "reply_to_str"} : assigned'[s] > 0 => assigned[s] > 0
    BY <1>11
  <2> QED
    BY <1>3, <1>4, <1>5, <2>1, <2>2, <2>3, AuthorsKept
<1> QED
  BY <1>10, <1>13, <1>14, <1>15, <1>16, <1>17 DEF IInv, Put

\* authentication preserves the invariant, whether it aborts, fails or authenticates.
LEMMA AuthenticationStep ==
  ASSUME IInv, NEW sender \in Servers, NEW status \in Statuses, NEW made \in BOOLEAN,
         Authentication(sender, status, made)
  PROVE  IInv'
<1> DEFINE kept == OwnResultsErased(headers, sender)
           authors == from_parsed \o Authors(kept)
<1>1. /\ ~Did("authentication") /\ ~Did("arc_sign")
      /\ called' = called \cup {"authentication"} /\ server' = sender
  BY DEF Authentication
<1>2. Typed /\ headers \in Seq(AnyHeader) /\ Once
  BY DEF IInv, Typed
<1>3. CASE headers = <<>>
  <2>1. Abort /\ called \subseteq called'
    BY <1>1, <1>3 DEF Authentication
  <2>2. sealed = ""
    BY <1>1, <1>2 DEF Once
  <2> QED
    BY <2>1, <2>2, AbortStep
<1>4. CASE headers # <<>>
  <2>1. /\ from_parsed' = authors /\ UNCHANGED <<aborted, arrived>>
        /\ \/ /\ headers' = kept
              /\ UNCHANGED <<dmarc_from, assigned, sealed>>
           \/ /\ AuthorKnown(authors)
              /\ dmarc_from' = authors[1]
              /\ headers' = Seal(ParseHdr(kept, OwnResults(sender, status)), made)
              /\ assigned' = Assign(AuthStrings(made))
              /\ sealed' = IF made THEN sender ELSE ""
    BY <1>4 DEF Authentication, AuthStrings, ArcStrings
  <2>2. from_parsed' \in Seq(Addresses)
    <3>1. kept \in Seq(AnyHeader)
      BY <1>2, OwnErased
    <3>2. from_parsed \in Seq(Addresses) /\ Authors(kept) \in Seq(Addresses)
      BY <1>2, <3>1, AuthorsAre DEF Typed
    <3>3. authors \in Seq(Addresses)
      <4> HIDE DEF kept
      <4> QED
        BY <3>2
    <3>4. from_parsed' = authors
      BY <2>1
    <3> HIDE DEF authors
    <3> QED
      BY <3>3, <3>4
  <2>3. CASE headers' = kept /\ UNCHANGED <<dmarc_from, assigned, sealed>>
    BY <1>1, <2>1, <2>2, <2>3, NotAuthenticatedStep
  <2>4. CASE /\ AuthorKnown(authors)
             /\ dmarc_from' = authors[1]
             /\ headers' = Seal(ParseHdr(kept, OwnResults(sender, status)), made)
             /\ assigned' = Assign(AuthStrings(made))
             /\ sealed' = IF made THEN sender ELSE ""
    <3>1. dmarc_from'.ok
      BY <2>4 DEF AuthorKnown
    <3> QED
      BY <1>1, <2>1, <2>2, <2>4, <3>1, AuthenticatedStep
  <2> QED
    BY <2>1, <2>3, <2>4
<1> QED
  BY <1>3, <1>4

\* parsed::parse establishes the invariant.
LEMMA MessageInit == Init => IInv
<1> SUFFICES ASSUME Init PROVE IInv
  OBVIOUS
<1>1. headers \in Seq(Headers({Input})) /\ arrived = headers
  BY IncomingAssumption DEF Init
<1>2. headers \in Seq(AnyHeader)
  BY <1>1, InputHeaders, SeqMore
<1>3. \A i \in DOMAIN headers : headers[i].view = Input
  <2>1. \A i \in DOMAIN headers : headers[i] \in Headers({Input})
    BY <1>1, SeqIs
  <2> QED
    BY <2>1 DEF Headers
<1>4. Typed
  <2>1. /\ from_parsed = <<>> /\ dmarc_from = NoAddress /\ aborted = FALSE
        /\ assigned = [s \in Strings |-> 0]
    BY DEF Init
  <2>2. assigned \in [Strings -> Nat] /\ assigned["ar_str"] = 0
    BY <2>1 DEF Strings
  <2>3. from_parsed \in Seq(Addresses)
    BY <2>1
  <2>4. dmarc_from.ok <=> assigned["ar_str"] > 0
    <3>1. dmarc_from.ok = FALSE
      BY <2>1 DEF NoAddress
    <3>2. ~(assigned["ar_str"] > 0)
      BY <2>2
    <3> QED
      BY <3>1, <3>2
  <2> QED
    BY <1>1, <1>2, <2>1, <2>2, <2>3, <2>4 DEF Typed
<1>5. Changes(arrived, headers, Gone(called), Put)
  <2>1. Changes(headers, headers, {}, Put)
    BY <1>2, ChangesNot
  <2>2. {} \subseteq Gone(called) /\ Put \subseteq Put
    OBVIOUS
  <2> QED
    BY <1>1, <2>1, <2>2, ChangesMore
<1>6. Live(headers, assigned)
  BY <1>3 DEF Live
<1>7. Once /\ OneOwn /\ Rewritten /\ SealedIsOwn
  <2>1. \A s \in Strings : ~(assigned[s] > 0)
    <3>1. \A s \in Strings : assigned[s] = 0
      BY DEF Init
    <3> QED
      BY <3>1
  <2>2. called = {} /\ sealed = ""
    BY DEF Init
  <2> QED
    BY <2>1, <2>2 DEF Once, OneOwn, Rewritten, SealedIsOwn, Did, Strings
<1> QED
  BY <1>4, <1>5, <1>6, <1>7 DEF IInv

\* Each operation preserves it.
LEMMA MessageStep == IInv /\ [Next]_vars => IInv'
<1> SUFFICES ASSUME IInv, [Next]_vars PROVE IInv'
  OBVIOUS
<1>1. CASE \E sender \in Servers, status \in Statuses, made \in BOOLEAN : Authentication(sender, status, made)
  BY <1>1, AuthenticationStep
<1>2. CASE \E sender \in Servers, made \in BOOLEAN : ArcSign(sender, made)
  BY <1>2, ArcSignStep
<1>3. CASE RemoveDeliveryHeaders
  BY <1>3, RemoveDeliveryHeadersStep
<1>4. CASE DkimSign
  BY <1>4, DkimSignStep
<1>5. CASE \E mail_from, reply_to \in Given : RewriteFromTo(mail_from, reply_to)
  BY <1>5, RewriteFromToStep
<1>6. CASE UNCHANGED vars
  <2>1. Typed' /\ Once' /\ OneOwn' /\ Rewritten' /\ SealedIsOwn'
    BY <1>6 DEF vars, IInv, Typed, Once, OneOwn, Rewritten, SealedIsOwn, Did
  <2>2. Changes(arrived, headers, Gone(called), Put)' /\ Live(headers, assigned)'
    BY <1>6 DEF vars, IInv, Put
  <2> QED
    BY <2>1, <2>2 DEF IInv
<1> QED
  BY <1>1, <1>2, <1>3, <1>4, <1>5, <1>6 DEF Next

\* So it holds whatever operations are called, and in whatever order.
LEMMA MessageSafe == Spec => []IInv
<1> QED
  BY MessageInit, MessageStep, PTL DEF Spec

-----------------------------------------------------------------------------
(***************************************************************************)
(* What follows from the invariant.                                        *)
(***************************************************************************)
\* The types, and that the views are live, follow from the invariant.
LEMMA TypesHold == IInv => TypeOK /\ ViewsAreLive
<1> SUFFICES ASSUME IInv PROVE TypeOK /\ ViewsAreLive
  OBVIOUS
<1>1. Typed /\ Live(headers, assigned)
  BY DEF IInv
<1>2. ASSUME NEW i \in DOMAIN headers
      PROVE  /\ IsHeader(headers[i])
             /\ headers[i].view = Input \/ headers[i].view[2] = assigned[headers[i].view[1]]
  <2> DEFINE h == headers[i]
  <2>1. h \in AnyHeader
    BY <1>1, SeqIs DEF Typed
  <2>2. h.view # Input => assigned[h.view[1]] > 0 /\ h.view[2] = assigned[h.view[1]]
    BY <1>1 DEF Live
  <2> HIDE DEF h
  <2>3. /\ h.name \in Texts /\ h.by \in Texts /\ h.addresses \in Seq(Addresses)
        /\ h.view # Input => h.view[1] \in Strings /\ h.view[2] \in Nat
    BY <2>1, AnyHeaders
  <2>4. \A k \in DOMAIN h.addresses : h.addresses[k].ok \in BOOLEAN
    <3>1. \A k \in DOMAIN h.addresses : h.addresses[k] \in Addresses
      BY <2>3, SeqIs
    <3> QED
      BY <3>1 DEF Addresses
  <2>5. h.view # Input => h.view[2] \in 1 .. assigned[h.view[1]]
    <3>1. \A s \in Strings : assigned[s] \in Nat
      BY <1>1 DEF Typed
    <3> QED
      BY <2>2, <2>3, <3>1
  <2> QED
    BY <2>2, <2>3, <2>4, <2>5 DEF IsHeader, h
<1>3. \A i \in DOMAIN from_parsed : from_parsed[i].ok \in BOOLEAN
  <2>1. \A i \in DOMAIN from_parsed : from_parsed[i] \in Addresses
    BY <1>1, SeqIs DEF Typed
  <2> QED
    BY <2>1 DEF Addresses
<1> QED
  BY <1>1, <1>2, <1>3 DEF TypeOK, ViewsAreLive, Typed

\* No operation assigns a string that a header of the message still views: what as_string writes
\* and the signatures cover is what was parsed, in whatever order the operations are called.
THEOREM MessageViewsAreLive == Spec => []ViewsAreLive
BY MessageSafe, TypesHold, PTL

\* A set whose members are all the same has at most one.
LEMMA FewOf ==
  ASSUME NEW S, \A i, j \in S : i = j
  PROVE  Cardinality(S) <= 1 /\ (S # {} => Cardinality(S) = 1)
<1>1. CASE S = {}
  BY <1>1, FS_EmptySet
<1>2. CASE S # {}
  <2>1. PICK i \in S : TRUE
    BY <1>2
  <2>2. S = {i}
    BY <2>1
  <2>3. Cardinality(S) = 1
    BY <2>2, FS_Singleton
  <2> QED
    BY <2>3
<1> QED
  BY <1>1, <1>2

\* OneOwnResult follows from the invariant.
LEMMA OneOwnHolds == IInv => OneOwnResult
<1> SUFFICES ASSUME IInv, Did("authentication"), ~aborted,
                    NEW own, own = {i \in DOMAIN headers : headers[i].name = "Authentication-Results"
                                                         /\ headers[i].by = server}
             PROVE  Cardinality(own) <= 1 /\ \A i \in own : headers[i].view # Input
  BY DEF OneOwnResult
<1>1. AtMostOne(headers, Own(server)) /\ None(headers, Own(server) \cap Headers({Input}))
  BY DEF IInv, OneOwn
<1>2. \A i \in DOMAIN headers : headers[i] \in AnyHeader
  BY SeqIs DEF IInv, Typed
<1>3. \A i \in own : i \in DOMAIN headers /\ headers[i] \in AnyHeader /\ headers[i] \in Own(server)
  BY <1>2 DEF Own
<1>4. \A i, j \in own : i = j
  BY <1>1, <1>3 DEF AtMostOne
<1>5. ASSUME NEW i \in own PROVE headers[i].view # Input
  <2>1. headers[i] \notin Headers({Input})
    BY <1>1, <1>3 DEF None
  <2> QED
    BY <1>3, <2>1, AnyHeaders
<1> QED
  BY <1>4, <1>5, FewOf

\* RewrittenOnce follows from the invariant.
LEMMA RewrittenHolds == IInv => RewrittenOnce
<1> SUFFICES ASSUME IInv, Did("rewrite_from_to"), ~aborted
             PROVE  /\ Count(headers, LAMBDA h : h.name \in {"Return-Path", "Delivered-To"}) = 0
                    /\ \A s \in {"from_str", "reply_to_str"} :
                         assigned[s] > 0 =>
                           Count(headers, LAMBDA h : h.name = IF s = "from_str" THEN "From" ELSE "Reply-To") = 1
  BY DEF RewrittenOnce
<1>1. Rewritten
  BY DEF IInv
<1>2. \A i \in DOMAIN headers : headers[i] \in AnyHeader
  BY SeqIs DEF IInv, Typed
<1>3. Count(headers, LAMBDA h : h.name \in {"Return-Path", "Delivered-To"}) = 0
  <2>1. None(headers, Delivery)
    BY <1>1 DEF Rewritten
  <2>2. {i \in DOMAIN headers : headers[i].name \in {"Return-Path", "Delivered-To"}} = {}
    BY <1>2, <2>1 DEF None, Delivery, Called
  <2> QED
    BY <2>2, FS_EmptySet DEF Count
<1>4. ASSUME NEW name, Some(headers, Called(name)), AtMostOne(headers, Called(name))
      PROVE  Cardinality({i \in DOMAIN headers : headers[i].name = name}) = 1
  <2> DEFINE S == {i \in DOMAIN headers : headers[i].name = name}
  <2>1. \A i \in DOMAIN headers : i \in S <=> headers[i] \in Called(name)
    BY <1>2 DEF Called
  <2>2. \A i \in S : i \in DOMAIN headers
    OBVIOUS
  <2> HIDE DEF S
  <2>3. \A i, j \in S : i = j
    BY <1>4, <2>1, <2>2 DEF AtMostOne
  <2>4. S # {}
    BY <1>4, <2>1 DEF Some
  <2>5. Cardinality(S) = 1
    BY <2>3, <2>4, FewOf
  <2> QED
    BY <2>5 DEF S
<1>5. ASSUME assigned["from_str"] > 0 PROVE Count(headers, LAMBDA h : h.name = "From") = 1
  <2>1. Some(headers, Called("From")) /\ AtMostOne(headers, Called("From"))
    BY <1>1, <1>5 DEF Rewritten
  <2> QED
    BY <1>4, <2>1 DEF Count
<1>6. ASSUME assigned["reply_to_str"] > 0 PROVE Count(headers, LAMBDA h : h.name = "Reply-To") = 1
  <2>1. Some(headers, Called("Reply-To")) /\ AtMostOne(headers, Called("Reply-To"))
    BY <1>1, <1>6 DEF Rewritten
  <2> QED
    BY <1>4, <2>1 DEF Count
<1>7. ASSUME NEW s \in {"from_str", "reply_to_str"}, assigned[s] > 0
      PROVE  Count(headers, LAMBDA h : h.name = IF s = "from_str" THEN "From" ELSE "Reply-To") = 1
  <2>1. CASE s = "from_str"
    BY <1>5, <1>7, <2>1 DEF Count
  <2>2. CASE s = "reply_to_str"
    BY <1>6, <1>7, <2>2 DEF Count
  <2> QED
    BY <2>1, <2>2
<1> QED
  BY <1>3, <1>7

\* SealedAreOwn follows from the invariant.
LEMMA SealedHolds == IInv => SealedAreOwn
<1> SUFFICES ASSUME IInv, sealed \notin {"", "None"}
             PROVE  /\ sealed = server
                    /\ \E i \in DOMAIN headers :
                         headers[i].name = "Authentication-Results" /\ headers[i].by \in {sealed, ""}
  BY DEF SealedAreOwn
<1>1. sealed = server /\ Some(headers, Own(sealed) \cup Own(""))
  BY DEF IInv, SealedIsOwn
<1>2. PICK i \in DOMAIN headers : headers[i] \in Own(sealed) \cup Own("")
  BY <1>1 DEF Some
<1>3. headers[i].name = "Authentication-Results" /\ headers[i].by \in {sealed, ""}
  BY <1>2 DEF Own
<1> QED
  BY <1>1, <1>3

\* NothingElseErased follows from the invariant.
LEMMA NothingElseHolds == IInv => NothingElseErased
<1> SUFFICES ASSUME IInv, NEW i \in DOMAIN arrived, ~ \E k \in DOMAIN headers : headers[k] = arrived[i]
             PROVE  \/ arrived[i].name = "Authentication-Results" /\ arrived[i].by \in Servers /\ Did("authentication")
                    \/ arrived[i].name \in {"Return-Path", "Delivered-To"}
                         /\ (Did("remove_delivery_headers") \/ Did("rewrite_from_to"))
                    \/ arrived[i].name \in {"From", "Reply-To"} /\ Did("rewrite_from_to")
  BY DEF NothingElseErased
<1>1. arrived \in Seq(AnyHeader) /\ headers \in Seq(AnyHeader)
  <2>1. arrived \in Seq(Headers({Input}))
    BY DEF IInv, Typed
  <2> QED
    BY <2>1, InputHeaders, SeqMore DEF IInv, Typed
<1>2. PICK e : /\ Derives(arrived, headers, e)
               /\ \A l \in DOMAIN arrived : arrived[l] \notin Gone(called) => \E k \in DOMAIN headers : e[k] = l
  BY DEF IInv, Changes
<1>3. arrived[i] \in Gone(called)
  <2> SUFFICES ASSUME arrived[i] \notin Gone(called) PROVE FALSE
    OBVIOUS
  <2>1. PICK k \in DOMAIN headers : e[k] = i
    BY <1>2
  <2>2. i # 0
    BY <1>1
  <2>3. headers[k] = arrived[i]
    BY <1>2, <2>1, <2>2 DEF Derives
  <2> QED
    BY <2>3
<1> QED
  BY <1>3 DEF Gone, Own, Delivery, Called, Did

\* A set of numbers that is not empty has a least one.
LEMMA Least ==
  ASSUME NEW S \in SUBSET Nat, NEW s \in S
  PROVE  \E m \in S : \A n \in S : m <= n
<1> DEFINE before == {p \in Nat \X Nat : p[1] < p[2]}
<1>1. IsWellFoundedOn(before, Nat)
  BY NatLessThanWellFounded DEF OpToRel
<1>2. PICK m \in S : \A n \in S : <<n, m>> \notin before
  <2> HIDE DEF before
  <2> QED
    BY <1>1, WFMin
<1>3. ASSUME NEW n \in S PROVE m <= n
  <2>1. <<n, m>> \in Nat \X Nat /\ ~(n < m)
    BY <1>2
  <2> QED
    BY <2>1
<1> QED
  BY <1>3

\* There is a place below which the headers are those that arrived, and above which they are new.
LEMMA OldBegin ==
  ASSUME NEW S, NEW old \in Seq(S), NEW new \in Seq(S), NEW e, Derives(old, new, e)
  PROVE  \E n \in 0 .. Len(new) :
           /\ \A k \in 1 .. n : e[k] = 0
           /\ \A k \in n + 1 .. Len(new) : e[k] # 0
<1> DEFINE olds == {k \in DOMAIN new : e[k] # 0}
<1>1. DOMAIN new = 1 .. Len(new) /\ Len(new) \in Nat /\ DOMAIN old = 1 .. Len(old) /\ Len(old) \in Nat
  OBVIOUS
<1>2. CASE olds = {}
  <2>1. Len(new) \in 0 .. Len(new)
    BY <1>1
  <2>2. \A k \in 1 .. Len(new) : e[k] = 0
    BY <1>1, <1>2
  <2>3. \A k \in Len(new) + 1 .. Len(new) : e[k] # 0
    BY <1>1
  <2> QED
    BY <2>1, <2>2, <2>3
<1>3. CASE olds # {}
  <2>1. PICK s \in olds : TRUE
    BY <1>3
  <2>2. olds \in SUBSET Nat
    BY <1>1
  <2> HIDE DEF olds
  <2>3. PICK m \in olds : \A k \in olds : m <= k
    BY <2>1, <2>2, Least
  <2>4. m \in DOMAIN new /\ e[m] # 0
    BY <2>3 DEF olds
  <2>5. m \in 1 .. Len(new) /\ m - 1 \in 0 .. Len(new)
    BY <1>1, <2>4
  <2>6. ASSUME NEW k \in 1 .. m - 1 PROVE e[k] = 0
    <3>1. k \in DOMAIN new /\ k < m /\ k \in Nat /\ m \in Nat
      BY <1>1, <2>5
    <3>2. k \notin olds
      BY <2>3, <3>1
    <3> QED
      BY <3>1, <3>2 DEF olds
  <2>7. ASSUME NEW k \in m .. Len(new) PROVE e[k] # 0
    <3>1. CASE k = m
      BY <2>4, <3>1
    <3>2. CASE k # m
      <4>1. k \in DOMAIN new /\ m < k
        BY <1>1, <2>5, <3>2
      <4>2. e[m] < e[k] /\ e[m] \in 0 .. Len(old) /\ e[k] \in 0 .. Len(old)
        BY <2>4, <4>1 DEF Derives
      <4> QED
        BY <1>1, <2>4, <4>2
    <3> QED
      BY <3>1, <3>2
  <2>8. (m - 1) + 1 = m
    BY <2>5
  <2> QED
    BY <2>5, <2>6, <2>7, <2>8
<1> QED
  BY <1>2, <1>3

\* NewAboveOld follows from the invariant: the positions that the old headers arrived at are the
\* ones kept.
LEMMA NewAboveOldHolds == IInv => NewAboveOld
<1> SUFFICES ASSUME IInv PROVE NewAboveOld
  OBVIOUS
<1>1. /\ arrived \in Seq(AnyHeader) /\ headers \in Seq(AnyHeader)
      /\ \A i \in DOMAIN arrived : arrived[i].view = Input
  <2>1. arrived \in Seq(Headers({Input}))
    BY DEF IInv, Typed
  <2>2. \A i \in DOMAIN arrived : arrived[i] \in Headers({Input})
    BY <2>1, SeqIs
  <2>3. \A i \in DOMAIN arrived : arrived[i].view = Input
    BY <2>2 DEF Headers
  <2> QED
    BY <2>1, <2>3, InputHeaders, SeqMore DEF IInv, Typed
<1>2. PICK e : Derives(arrived, headers, e)
  BY DEF IInv, Changes
<1>3. PICK n \in 0 .. Len(headers) :
        /\ \A k \in 1 .. n : e[k] = 0
        /\ \A k \in n + 1 .. Len(headers) : e[k] # 0
  BY <1>1, <1>2, OldBegin
<1> DEFINE m == Len(headers) - n
           kept == {e[k] : k \in n + 1 .. Len(headers)}
           g == [k \in 1 .. m |-> e[n + k]]
<1>4. /\ DOMAIN headers = 1 .. Len(headers) /\ Len(headers) \in Nat /\ n \in Nat /\ m \in Nat
      /\ DOMAIN arrived = 1 .. Len(arrived) /\ Len(arrived) \in Nat
      /\ m = Len(headers) - n
  BY <1>1
<1>5. ASSUME NEW k \in n + 1 .. Len(headers)
      PROVE  /\ k \in DOMAIN headers /\ e[k] \in DOMAIN arrived /\ headers[k] = arrived[e[k]]
  BY <1>2, <1>3, <1>4 DEF Derives
<1>6. kept \in SUBSET (DOMAIN arrived) /\ kept \in SUBSET Nat
  BY <1>4, <1>5
<1>7. \A k \in 1 .. m : n + k \in n + 1 .. Len(headers)
  BY <1>4
<1>8. g \in [1 .. m -> kept]
  BY <1>7
<1>9. \A k, l \in 1 .. m : k < l => g[k] < g[l]
  <2> SUFFICES ASSUME NEW k \in 1 .. m, NEW l \in 1 .. m, k < l PROVE e[n + k] < e[n + l]
    BY DEF g
  <2>1. n + k \in n + 1 .. Len(headers) /\ n + l \in n + 1 .. Len(headers)
    BY <1>7
  <2>2. n + k < n + l
    BY <1>4
  <2>3. e[n + k] # 0 /\ n + k \in DOMAIN headers /\ n + l \in DOMAIN headers
    BY <1>3, <1>5, <2>1
  <2> QED
    BY <1>2, <2>2, <2>3 DEF Derives
<1>10. \A i \in kept : \E k \in 1 .. m : g[k] = i
  <2> SUFFICES ASSUME NEW j \in n + 1 .. Len(headers) PROVE \E k \in 1 .. m : g[k] = e[j]
    BY DEF kept
  <2>1. j - n \in 1 .. m /\ n + (j - n) = j
    BY <1>4
  <2>2. g[j - n] = e[j]
    BY <2>1
  <2> QED
    BY <2>1, <2>2
<1>11. \A k \in 1 .. m : g[k] = e[n + k]
  OBVIOUS
<1> HIDE DEF m, kept, g
<1>12. Cardinality(kept) = m /\ \A k \in 1 .. m : InOrder(kept)[k] = g[k]
  BY <1>4, <1>6, <1>8, <1>9, <1>10, InOrderIsOnly
<1> DEFINE seq == SubSeq(headers, n + 1, Len(headers))
           part == Part(arrived, kept)
<1>13. part = [k \in 1 .. m |-> headers[n + k]]
  <2>1. \A k \in 1 .. m : arrived[InOrder(kept)[k]] = headers[n + k]
    BY <1>5, <1>7, <1>11, <1>12
  <2> QED
    BY <1>12, <2>1 DEF Part
<1>14. seq = [k \in 1 .. m |-> headers[n + k]]
  <2>1. \A i \in n + 1 .. Len(headers) : headers[i] \in AnyHeader
    BY <1>1, <1>5, SeqIs
  <2>2. n + 1 \in Int /\ Len(headers) \in Int
    BY <1>4
  <2>3. /\ seq \in Seq(AnyHeader)
        /\ Len(seq) = IF n + 1 <= Len(headers) THEN Len(headers) - (n + 1) + 1 ELSE 0
        /\ \A i \in 1 .. Len(headers) - (n + 1) + 1 : seq[i] = headers[(n + 1) + i - 1]
    BY <2>1, <2>2, SubSeqProperties
  <2> HIDE DEF seq
  <2>4. Len(seq) = m /\ Len(headers) - (n + 1) + 1 = m
    <3>1. n <= Len(headers)
      BY <1>3, <1>4
    <3>2. \A a, b \in Nat : b <= a => /\ (IF b + 1 <= a THEN a - (b + 1) + 1 ELSE 0) = a - b
                                     /\ a - (b + 1) + 1 = a - b
      OBVIOUS
    <3> QED
      BY <1>4, <2>3, <3>1, <3>2
  <2>5. \A i \in 1 .. m : seq[i] = headers[n + i]
    <3> SUFFICES ASSUME NEW i \in 1 .. m PROVE seq[i] = headers[n + i]
      OBVIOUS
    <3>1. (n + 1) + i - 1 = n + i
      BY <1>4
    <3> QED
      BY <2>3, <2>4, <3>1
  <2>6. seq = [k \in 1 .. m |-> seq[k]]
    BY <2>3, <2>4
  <2> QED
    BY <2>5, <2>6
<1>15. seq = part
  BY <1>13, <1>14
<1>16. \A i \in 1 .. n : headers[i].view # Input
  <2> SUFFICES ASSUME NEW i \in 1 .. n PROVE headers[i].view # Input
    OBVIOUS
  <2>1. i \in DOMAIN headers
    BY <1>4
  <2> QED
    BY <1>2, <1>3, <2>1 DEF Derives
<1>17. \A i \in n + 1 .. Len(headers) : headers[i].view = Input
  BY <1>1, <1>5
<1>18. kept \in SUBSET (DOMAIN arrived)
  BY <1>6
<1> QED
  BY <1>15, <1>16, <1>17, <1>18 DEF NewAboveOld

\* After any sequence of operations on any message, one result at most passes for one of this
\* server and it is not one that arrived; what is new is on top, and what is old is in its old
\* order; nothing is lost that the operations called are not said to replace; a rewritten message
\* has one author; a seal is made over results of the sealing server.
THEOREM MessageResultsAreOurs == Spec => []ResultsAreOurs
<1>1. IInv => ResultsAreOurs
  BY TypesHold, OneOwnHolds, NewAboveOldHolds, NothingElseHolds, RewrittenHolds, SealedHolds DEF ResultsAreOurs
<1> QED
  BY <1>1, MessageSafe, PTL

-----------------------------------------------------------------------------
(***************************************************************************)
(* What DMARC is told.                                                     *)
(***************************************************************************)
\* DMARC is told by one authentication, so that what it is told stays of one server.
ToldByOne == ~Did("authentication") => spf_stored = <<>>

\* authentication reports each domain once, and tells DMARC of a helo domain only where a field
\* says that it was checked.
LEMMA SpfKept ==
  ASSUME IInv, SpfIsOfTheDomain, ToldByOne, NEW sender \in Servers, NEW status, NEW made,
         Authentication(sender, status, made)
  PROVE  SpfIsOfTheDomain'
<1> DEFINE kept == OwnResultsErased(headers, sender)
           spf == SpfReported(kept, sender)
<1>1. CASE headers = <<>>
  <2>1. UNCHANGED <<spf_results, spf_stored, arrived>> /\ spf_stored = <<>>
    BY <1>1 DEF Authentication, Abort, ToldByOne
  <2>2. DOMAIN spf_stored' = {}
    BY <2>1
  <2> QED
    BY <2>1, <2>2 DEF SpfIsOfTheDomain
<1>2. CASE headers # <<>>
  <2>1. /\ arrived' = arrived /\ spf_stored' = SpfStored(spf) /\ server' = sender
        /\ spf_results' = spf_results \/ spf_results' = [i \in DOMAIN spf |-> SpfResult(spf[i])]
    BY <1>2 DEF Authentication
  <2>2. headers \in Seq(AnyHeader)
    BY DEF IInv, Typed
  <2>3. kept \in Seq(AnyHeader) /\ Changes(headers, kept, Own(sender), {})
    BY <2>2, OwnErased
  <2> HIDE DEF kept
  <2>4. /\ spf \in Seq(SpfFields)
        /\ \A i \in DOMAIN spf :
             /\ Usable(spf[i], sender)
             /\ \E k \in DOMAIN kept : kept[k].name = "Received-SPF" /\ kept[k].spf = spf[i]
        /\ \A i, j \in DOMAIN spf : spf[i].efrom.domain = spf[j].efrom.domain => i = j
    BY <2>3, SpfReportedIs
  <2> HIDE DEF spf
  <2>5. ASSUME NEW k \in DOMAIN kept, kept[k].name = "Received-SPF"
        PROVE  \E j \in DOMAIN arrived : arrived[j] = kept[k]
    <3>1. Some(headers, {kept[k]})
      BY <2>2, <2>3, ChangesFrom
    <3>2. PICK l \in DOMAIN headers : headers[l] = kept[k]
      BY <3>1 DEF Some
    <3>3. arrived \in Seq(AnyHeader) /\ Changes(arrived, headers, Gone(called), Put)
      <4>1. arrived \in Seq(Headers({Input}))
        BY DEF IInv, Typed
      <4> QED
        BY <4>1, InputHeaders, SeqMore DEF IInv
    <3>4. headers[l] \in Put \/ Some(arrived, {headers[l]})
      BY <2>2, <3>3, ChangesFrom
    <3>5. headers[l] \notin Put
      BY <2>5, <3>2 DEF Put
    <3> QED
      BY <3>2, <3>4, <3>5 DEF Some
  <2>6. \A i, j \in DOMAIN spf_results' : spf_results'[i].domain = spf_results'[j].domain => i = j
    <3>1. CASE spf_results' = spf_results
      BY <3>1 DEF SpfIsOfTheDomain
    <3>2. CASE spf_results' = [i \in DOMAIN spf |-> SpfResult(spf[i])]
      <4>1. \A i \in DOMAIN spf : SpfResult(spf[i]).domain = spf[i].efrom.domain
        BY DEF SpfResult
      <4> QED
        BY <2>4, <3>2, <4>1
    <3> QED
      BY <2>1, <3>1, <3>2
  <2>7. ASSUME NEW i \in DOMAIN spf_stored'
        PROVE  \E k \in DOMAIN arrived' :
                 /\ arrived'[k].name = "Received-SPF" /\ arrived'[k].spf.by = server'
                 /\ Counts(arrived'[k].spf.result)
                 /\ ToldOf(arrived'[k].spf, spf_stored'[i])
    <3>1. PICK j \in DOMAIN spf : Counts(spf[j].result) /\ spf_stored'[i] = SpfResultToDmarc(spf[j])
      BY <2>1, <2>4, SpfStoredIs
    <3>2. PICK k \in DOMAIN kept : kept[k].name = "Received-SPF" /\ kept[k].spf = spf[j]
      BY <2>4
    <3>3. PICK l \in DOMAIN arrived : arrived[l] = kept[k]
      BY <2>5, <3>2
    <3>4. arrived'[l].spf = spf[j] /\ arrived'[l].name = "Received-SPF" /\ l \in DOMAIN arrived'
      BY <2>1, <3>2, <3>3
    <3>5. spf[j].by = server' /\ spf[j].efrom.ok /\ spf[j].helo.ok
      BY <2>1, <2>4 DEF Usable
    <3>6. ToldOf(spf[j], spf_stored'[i])
      BY <3>1, <3>5 DEF SpfResultToDmarc, ToldOf
    <3> QED
      BY <3>1, <3>4, <3>5, <3>6
  <2> QED
    BY <2>6, <2>7 DEF SpfIsOfTheDomain
<1> QED
  BY <1>1, <1>2

\* No domain is reported with two spf results, and what DMARC is told was found by this server and
\* is told of the domain it was found for, however many Received-SPF fields a message brings.
THEOREM MessageSpfIsOfTheDomain == Spec => []SpfIsOfTheDomain
<1>1. Init => SpfIsOfTheDomain /\ ToldByOne
  <2> SUFFICES ASSUME Init PROVE SpfIsOfTheDomain /\ ToldByOne
    OBVIOUS
  <2>1. spf_results = <<>> /\ spf_stored = <<>>
    BY DEF Init
  <2>2. DOMAIN spf_results = {} /\ DOMAIN spf_stored = {}
    BY <2>1
  <2> QED
    BY <2>1, <2>2 DEF SpfIsOfTheDomain, ToldByOne
<1>2. IInv /\ SpfIsOfTheDomain /\ ToldByOne /\ [Next]_vars => SpfIsOfTheDomain' /\ ToldByOne'
  <2> SUFFICES ASSUME IInv, SpfIsOfTheDomain, ToldByOne, [Next]_vars
               PROVE  SpfIsOfTheDomain' /\ ToldByOne'
    OBVIOUS
  <2>1. CASE \E sender \in Servers, status \in Statuses, made \in BOOLEAN :
               Authentication(sender, status, made)
    <3>1. SpfIsOfTheDomain'
      BY <2>1, SpfKept
    <3>2. Did("authentication")'
      BY <2>1 DEF Authentication, Did
    <3> QED
      BY <3>1, <3>2 DEF ToldByOne
  <2>2. CASE \E sender \in Servers, made \in BOOLEAN : ArcSign(sender, made)
    <3>1. UNCHANGED <<spf_results, spf_stored, arrived>> /\ spf_stored = <<>>
      BY <2>2 DEF ArcSign, Abort, ToldByOne
    <3>2. DOMAIN spf_stored' = {}
      BY <3>1
    <3> QED
      BY <3>1, <3>2 DEF SpfIsOfTheDomain, ToldByOne
  <2>3. CASE UNCHANGED <<spf_results, spf_stored, arrived, server>> /\ called \subseteq called'
    BY <2>3 DEF SpfIsOfTheDomain, ToldByOne, Did
  <2>4. CASE RemoveDeliveryHeaders
    BY <2>3, <2>4 DEF RemoveDeliveryHeaders
  <2>5. CASE DkimSign
    BY <2>3, <2>5 DEF DkimSign, Abort
  <2>6. CASE \E mail_from, reply_to \in Given : RewriteFromTo(mail_from, reply_to)
    BY <2>3, <2>6 DEF RewriteFromTo, Abort
  <2>7. CASE UNCHANGED vars
    BY <2>3, <2>7 DEF vars
  <2> QED
    BY <2>1, <2>2, <2>4, <2>5, <2>6, <2>7 DEF Next
<1> QED
  BY <1>1, <1>2, MessageSafe, PTL DEF Spec
=============================================================================
