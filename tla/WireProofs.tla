------------------------------ MODULE WireProofs ------------------------------
(***************************************************************************)
(* What holds of every connection of the server, for any time-outs, any    *)
(* limit, any room in the socket and any number of requests: the octets    *)
(* the stream is handed stay below the limit, a call keeps its deadline,   *)
(* the server never waits for input with something left to say, and what   *)
(* the peer hears is what was said, in order.                              *)
(***************************************************************************)
EXTENDS Wire, SequenceTheorems, TLAPS

-----------------------------------------------------------------------------
(***************************************************************************)
(* The inductive invariant.                                                *)
(***************************************************************************)
\* What was handed on since the limit was set was read since then.
Metered == since <= octets /\ since < Limit

\* Only a write is called by another call; but for flushes in a write there is one call, or
\* the flush that the wait of a read began.
Nested ==
  /\ \A i \in 1 .. Len(stack) : stack[i].op # "write" => i = Len(stack)
  /\ ~reentered => Len(stack) <= 1 \/ (Len(stack) = 2 /\ stack[2].op = "read")

\* When a call under way has to end, at the latest.
Deadline(f) == f.age + f.left

\* A call waits for what is left of its time, but a read is held up by the flush above it.
Timed ==
  ~reentered =>
    /\ \A i \in 1 .. Len(stack) : stack[i].op # "read" => Deadline(stack[i]) <= Timeout(stack[i])
    /\ Len(stack) = 1 /\ stack[1].op = "read" =>
         Deadline(stack[1]) <= ReadTimeout + WriteTimeout
    /\ Len(stack) = 2 => Deadline(stack[2]) <= ReadTimeout + stack[1].age

\* Nothing is left to flush, or a flush has just failed.
Spent == obuf = <<>> \/ LeftOver \/ bad

\* A read on top that waits for input has nothing under it to flush.
Flushed == stack # <<>> /\ Top.op = "read" /\ Top.at = "in" => Spent

\* How many replies the peer has read or can read.
Out == Len(heard) + Len(line)

\* The call on top is a write.
OnWrite == stack # <<>> /\ Top.op = "write"

\* How many of those in the output stream are among them.
Done == IF OnWrite THEN Top.done ELSE 0

\* What is in the output stream is the rest of what was said, and what a write still has to
\* write is the rest of that.
InOrder ==
  ~reentered /\ ~failed =>
    /\ Out <= said
    /\ \A i \in 1 .. Len(heard) : heard[i] = i
    /\ \A i \in 1 .. Len(line) : line[i] = Len(heard) + i
    /\ Len(obuf) = said - Out + Done
    /\ \A i \in 1 .. Len(obuf) : obuf[i] = Out - Done + i
    /\ OnWrite => Top.data = obuf /\ Top.done <= Len(obuf)

\* What holds of the calls under way.
Stacked == stack \in Seq(Frame) /\ Nested /\ Timed /\ Flushed

IInv == TypeOK /\ Metered /\ Stacked /\ InOrder
-----------------------------------------------------------------------------
(***************************************************************************)
(* Stacks of calls: another call on top, one more, one less.               *)
(***************************************************************************)
\* The top replaced.
LEMMA Replaced ==
  ASSUME NEW S, NEW s \in Seq(S), s # <<>>, NEW f \in S
  PROVE  LET t == <<f>> \o Tail(s) IN
         /\ t \in Seq(S) /\ t # <<>> /\ Len(t) = Len(s) /\ Len(s) \in Nat /\ Len(s) >= 1
         /\ Head(t) = f /\ t[1] = f
         /\ \A i \in 2 .. Len(s) : t[i] = s[i]
<1> DEFINE t == <<f>> \o Tail(s)
           r == Tail(s)
<1>1. /\ r \in Seq(S) /\ Len(r) = Len(s) - 1 /\ Len(s) \in Nat /\ Len(s) >= 1
      /\ \A i \in 1 .. Len(r) : r[i] = s[i + 1]
  <2>1. Len(s) \in Nat /\ Len(s) # 0
    BY EmptySeq, LenProperties
  <2> QED
    BY <2>1, HeadTailProperties
<1> HIDE DEF r
<1>2. <<f>> \in Seq(S) /\ Len(<<f>>) = 1 /\ <<f>>[1] = f
  OBVIOUS
<1>3. /\ <<f>> \o r \in Seq(S)
      /\ Len(<<f>> \o r) = 1 + Len(r)
      /\ \A i \in 1 .. 1 + Len(r) :
           (<<f>> \o r)[i] = IF i <= 1 THEN <<f>>[i] ELSE r[i - 1]
  BY <1>1, <1>2, ConcatProperties
<1>4. Len(<<f>> \o r) = Len(s) /\ (<<f>> \o r)[1] = f
  BY <1>1, <1>2, <1>3
<1>5. \A i \in 2 .. Len(s) : (<<f>> \o r)[i] = s[i]
  <2>1. ASSUME NEW i \in 2 .. Len(s) PROVE (<<f>> \o r)[i] = s[i]
    <3>1. (<<f>> \o r)[i] = r[i - 1] /\ i - 1 \in 1 .. Len(r) /\ i - 1 + 1 = i
      BY <1>1, <1>3
    <3>2. r[i - 1] = s[i - 1 + 1]
      BY <1>1, <3>1
    <3> QED
      BY <3>1, <3>2
  <2> QED
    BY <2>1
<1>6. <<f>> \o r # <<>> /\ Head(<<f>> \o r) = f
  BY <1>1, <1>3, <1>4
<1> QED
  BY <1>1, <1>3, <1>4, <1>5, <1>6 DEF r

\* One more on top.
LEMMA Pushed ==
  ASSUME NEW S, NEW s \in Seq(S), NEW f \in S
  PROVE  LET t == <<f>> \o s IN
         /\ t \in Seq(S) /\ t # <<>> /\ Len(t) = Len(s) + 1 /\ Len(s) \in Nat
         /\ Head(t) = f /\ t[1] = f
         /\ \A i \in 1 .. Len(s) : t[i + 1] = s[i]
<1>1. <<f>> \in Seq(S) /\ Len(<<f>>) = 1 /\ <<f>>[1] = f /\ Len(s) \in Nat
  OBVIOUS
<1>2. /\ <<f>> \o s \in Seq(S)
      /\ Len(<<f>> \o s) = 1 + Len(s)
      /\ \A i \in 1 .. 1 + Len(s) :
           (<<f>> \o s)[i] = IF i <= 1 THEN <<f>>[i] ELSE s[i - 1]
  BY <1>1, ConcatProperties
<1>3. Len(<<f>> \o s) = Len(s) + 1 /\ (<<f>> \o s)[1] = f
  BY <1>1, <1>2
<1>4. ASSUME NEW i \in 1 .. Len(s) PROVE (<<f>> \o s)[i + 1] = s[i]
  <2>1. (<<f>> \o s)[i + 1] = s[i + 1 - 1] /\ i + 1 - 1 = i
    BY <1>1, <1>2
  <2> QED
    BY <2>1
<1>5. <<f>> \o s # <<>> /\ Head(<<f>> \o s) = f
  BY <1>1, <1>2, <1>3
<1> QED
  BY <1>1, <1>2, <1>3, <1>4, <1>5

\* One more on top of one.
LEMMA Two ==
  ASSUME NEW S, NEW s \in Seq(S), Len(s) = 1, NEW f \in S, NEW g \in S
  PROVE  <<f>> \o (<<g>> \o Tail(s)) = <<f, g>>
<1>1. Tail(s) \in Seq(S) /\ Len(Tail(s)) = 0
  BY HeadTailProperties
<1>2. Tail(s) = <<>>
  BY <1>1, EmptySeq
<1>3. <<g>> \in Seq(S) /\ <<g>> \o <<>> = <<g>>
  BY ConcatEmptySeq
<1>4. <<f>> \o <<g>> = <<f, g>>
  <2> DEFINE t == <<f>> \o <<g>>
  <2>1. <<f>> \in Seq(S) /\ <<g>> \in Seq(S) /\ Len(<<f>>) = 1 /\ Len(<<g>>) = 1
        /\ <<f, g>> \in Seq(S) /\ Len(<<f, g>>) = 2
    OBVIOUS
  <2>2. t \in Seq(S) /\ Len(t) = 2 /\ t[1] = f /\ t[2] = g
    <3>1. /\ t \in Seq(S) /\ Len(t) = Len(<<f>>) + Len(<<g>>)
          /\ \A i \in 1 .. Len(<<f>>) + Len(<<g>>) :
               t[i] = IF i <= Len(<<f>>) THEN <<f>>[i] ELSE <<g>>[i - Len(<<f>>)]
      BY <2>1, ConcatProperties
    <3> HIDE DEF t
    <3>2. Len(t) = 2 /\ t[1] = <<f>>[1] /\ t[2] = <<g>>[1]
      BY <2>1, <3>1
    <3> QED
      BY <3>1, <3>2
  <2> HIDE DEF t
  <2>3. \A i \in 1 .. Len(t) : t[i] = <<f, g>>[i]
    <3>1. \A i \in 1 .. Len(t) : i = 1 \/ i = 2
      BY <2>2
    <3> QED
      BY <2>2, <3>1
  <2>4. t = <<f, g>>
    BY <2>1, <2>2, <2>3, SeqEqual
  <2> QED
    BY <2>4 DEF t
<1> QED
  BY <1>2, <1>3, <1>4

\* One less.
LEMMA Popped ==
  ASSUME NEW S, NEW s \in Seq(S), s # <<>>
  PROVE  /\ Tail(s) \in Seq(S) /\ Len(Tail(s)) = Len(s) - 1 /\ Len(s) \in Nat /\ Len(s) >= 1
         /\ Head(s) \in S /\ Head(s) = s[1]
         /\ \A i \in 1 .. Len(s) - 1 : Tail(s)[i] = s[i + 1]
<1>1. Len(s) \in Nat /\ Len(s) # 0
  BY EmptySeq, LenProperties
<1> QED
  BY <1>1, HeadTailProperties

\* A stack of one, and what is on top of a stack.
LEMMA Single ==
  ASSUME NEW S, NEW f \in S
  PROVE  <<f>> \in Seq(S) /\ <<f>> # <<>> /\ Len(<<f>>) = 1 /\ <<f>>[1] = f /\ Head(<<f>>) = f
  OBVIOUS

LEMMA OnTop ==
  ASSUME NEW S, NEW s \in Seq(S)
  PROVE  /\ Len(s) \in Nat
         /\ s # <<>> <=> Len(s) >= 1
         /\ s # <<>> => Head(s) = s[1] /\ s[1] \in S
<1>1. Len(s) \in Nat /\ (s = <<>> <=> Len(s) = 0)
  BY EmptySeq, LenProperties
<1>2. s # <<>> => Head(s) = s[1] /\ s[1] \in S
  BY Popped
<1> QED
  BY <1>1, <1>2
-----------------------------------------------------------------------------
(***************************************************************************)
(* Calls.                                                                  *)
(***************************************************************************)
LEMMA TimeoutType ==
  ASSUME NEW f PROVE Timeout(f) \in Nat
  BY WireAssumption DEF Timeout

\* A call begins.
LEMMA CallType ==
  ASSUME NEW op \in {"read", "write", "handshake"}, NEW data \in Seq(Nat)
  PROVE  /\ Call(op, data) \in Frame
         /\ Call(op, data).op = op /\ Call(op, data).at = "try" /\ Call(op, data).age = 0
         /\ Call(op, data).left = 0 /\ Call(op, data).data = data /\ Call(op, data).done = 0
  BY DEF Call, Frame

\* The parts of a call.
LEMMA FrameParts ==
  ASSUME NEW f \in Frame
  PROVE  /\ f.op \in {"read", "write", "handshake"} /\ f.at \in {"try", "in", "out"}
         /\ f.age \in Nat /\ f.left \in Nat /\ f.data \in Seq(Nat) /\ f.done \in Nat
  BY DEF Frame

\* A call that has time left waits for just that time.
LEMMA WaitForType ==
  ASSUME NEW f \in Frame, NEW how \in {"in", "out"}, ~TimeIsUp(f)
  PROVE  LET g == WaitFor(f, how) IN
         /\ g \in Frame /\ g.at = how /\ Timeout(g) = Timeout(f) /\ Deadline(g) = Timeout(f)
         /\ g.op = f.op /\ g.age = f.age /\ g.data = f.data /\ g.done = f.done
<1> DEFINE l == Timeout(f) - f.age
           g == WaitFor(f, how)
<1>1. f.age \in Nat /\ Timeout(f) \in Nat
  BY FrameParts, TimeoutType
<1>2. l \in Nat /\ f.age + l = Timeout(f)
  BY <1>1 DEF TimeIsUp
<1>3. g = [f EXCEPT !.at = how, !.left = l]
  BY DEF WaitFor
<1> HIDE DEF l, g
<1>4. /\ g \in Frame /\ g.at = how /\ g.left = l
      /\ g.op = f.op /\ g.age = f.age /\ g.data = f.data /\ g.done = f.done
  <2>1. g \in Frame
    BY <1>2, <1>3 DEF Frame
  <2> QED
    BY <1>2, <1>3, <2>1 DEF Frame
<1>5. Timeout(g) = Timeout(f)
  BY <1>4 DEF Timeout
<1>6. Deadline(g) = Timeout(f)
  BY <1>2, <1>4 DEF Deadline
<1> QED
  BY <1>4, <1>5, <1>6 DEF g

\* A write has passed on n replies more, or begins again.
LEMMA ProgressType ==
  ASSUME NEW f \in Frame, NEW n \in Nat, NEW g, g = [f EXCEPT !.done = n]
  PROVE  /\ g \in Frame /\ g.done = n
         /\ g.op = f.op /\ g.at = f.at /\ g.age = f.age /\ g.left = f.left /\ g.data = f.data
<1>1. g \in Frame
  BY DEF Frame
<1> QED
  BY <1>1 DEF Frame
-----------------------------------------------------------------------------
(***************************************************************************)
(* What a step can do to the calls under way.                              *)
(***************************************************************************)
\* Nothing.
LEMMA StackStays ==
  ASSUME Stacked, UNCHANGED <<stack, obuf>>, bad => bad', reentered => reentered'
  PROVE  Stacked'
<1>1. Nested' /\ Timed'
  BY DEF Stacked, Nested, Timed, Deadline, Timeout
<1>2. Flushed'
  BY DEF Stacked, Flushed, Spent, LeftOver, Top
<1> QED
  BY <1>1, <1>2 DEF Stacked

\* A call begins with no other under way.
LEMMA StackBegins ==
  ASSUME NEW op \in {"read", "write", "handshake"}, NEW data \in Seq(Nat),
         stack' = <<Call(op, data)>>
  PROVE  Stacked' /\ stack' # <<>> /\ Top' = Call(op, data)
<1> DEFINE c == Call(op, data)
<1>1. /\ c \in Frame /\ c.at = "try" /\ c.age = 0 /\ c.left = 0
  BY CallType
<1>2. stack' = <<c>>
  OBVIOUS
<1> HIDE DEF c
<1>3. /\ stack' \in Seq(Frame) /\ stack' # <<>> /\ Len(stack') = 1 /\ stack'[1] = c
      /\ Top' = c
  BY <1>1, <1>2, Single DEF Top
<1>4. Nested'
  BY <1>3 DEF Nested
<1>5. Timed'
  <2>1. Deadline(c) = 0 /\ Timeout(c) \in Nat
    BY <1>1, TimeoutType DEF Deadline
  <2>2. ReadTimeout + WriteTimeout \in Nat
    BY WireAssumption
  <2>3. \A i \in 1 .. Len(stack') : stack'[i] = c
    BY <1>3
  <2> QED
    BY <1>3, <2>1, <2>2, <2>3 DEF Timed
<1>6. Flushed'
  BY <1>1, <1>3 DEF Flushed
<1> QED
  BY <1>3, <1>4, <1>5, <1>6 DEF Stacked, c

\* What is on top.
LEMMA TopType ==
  ASSUME Stacked, stack # <<>>
  PROVE  /\ stack \in Seq(Frame) /\ Len(stack) \in Nat /\ Len(stack) >= 1
         /\ Top \in Frame /\ Top = stack[1]
         /\ Top.op # "write" => Len(stack) = 1
<1>1. stack \in Seq(Frame)
  BY DEF Stacked
<1>2. Len(stack) \in Nat /\ Len(stack) >= 1 /\ Head(stack) = stack[1] /\ stack[1] \in Frame
  BY <1>1, OnTop
<1>3. 1 \in 1 .. Len(stack)
  BY <1>2
<1>4. stack[1].op # "write" => 1 = Len(stack)
  BY <1>3 DEF Stacked, Nested
<1> QED
  BY <1>1, <1>2, <1>4 DEF Top

\* The call on top goes on, in time.
LEMMA StackGoesOn ==
  ASSUME Stacked, stack # <<>>, NEW g \in Frame, stack' = <<g>> \o Tail(stack),
         g.op = Top.op, g.age = Top.age, reentered' = reentered,
         Deadline(g) <= Timeout(g) \/ Deadline(g) <= Deadline(Top),
         g.op = "read" /\ g.at = "in" => Spent'
  PROVE  Stacked' /\ stack' # <<>> /\ Top' = g
<1>1. /\ stack \in Seq(Frame) /\ Len(stack) \in Nat /\ Len(stack) >= 1
      /\ Top \in Frame /\ Top = stack[1]
  BY TopType
<1>2. /\ stack' \in Seq(Frame) /\ stack' # <<>> /\ Len(stack') = Len(stack)
      /\ Top' = g /\ stack'[1] = g
      /\ \A i \in 2 .. Len(stack) : stack'[i] = stack[i]
  BY <1>1, Replaced DEF Top
<1>3. Nested'
  <2>1. \A i \in 1 .. Len(stack) : stack'[i].op = stack[i].op
    BY <1>1, <1>2
  <2>2. \A i \in 1 .. Len(stack') : stack'[i].op # "write" => i = Len(stack')
    BY <1>2, <2>1 DEF Stacked, Nested
  <2>3. ~reentered' => Len(stack') <= 1 \/ (Len(stack') = 2 /\ stack'[2].op = "read")
    <3>1. ~reentered => Len(stack) <= 1 \/ (Len(stack) = 2 /\ stack[2].op = "read")
      BY DEF Stacked, Nested
    <3>2. Len(stack) = 2 => stack'[2] = stack[2]
      BY <1>1, <1>2
    <3> QED
      BY <1>2, <3>1, <3>2
  <2> QED
    BY <2>2, <2>3 DEF Nested
<1>4. Timed'
  <2>1. SUFFICES ASSUME ~reentered PROVE
          /\ \A i \in 1 .. Len(stack') :
               stack'[i].op # "read" => Deadline(stack'[i]) <= Timeout(stack'[i])
          /\ Len(stack') = 1 /\ stack'[1].op = "read" =>
               Deadline(stack'[1]) <= ReadTimeout + WriteTimeout
          /\ Len(stack') = 2 => Deadline(stack'[2]) <= ReadTimeout + stack'[1].age
    BY DEF Timed, Deadline, Timeout
  <2>2. /\ \A i \in 1 .. Len(stack) :
             stack[i].op # "read" => Deadline(stack[i]) <= Timeout(stack[i])
        /\ Len(stack) = 1 /\ stack[1].op = "read" =>
             Deadline(stack[1]) <= ReadTimeout + WriteTimeout
        /\ Len(stack) = 2 => Deadline(stack[2]) <= ReadTimeout + stack[1].age
    BY <2>1 DEF Stacked, Timed
  <2>3. Deadline(g) \in Nat /\ Deadline(Top) \in Nat /\ Timeout(g) \in Nat
    BY <1>1, FrameParts, TimeoutType DEF Deadline
  <2>4. Timeout(g) = Timeout(Top)
    BY DEF Timeout
  <2>5. ASSUME NEW i \in 1 .. Len(stack'), stack'[i].op # "read"
        PROVE  Deadline(stack'[i]) <= Timeout(stack'[i])
    <3>1. CASE i = 1
      BY <1>1, <1>2, <2>2, <2>3, <2>4, <2>5, <3>1
    <3>2. CASE i # 1
      <4>1. i \in 2 .. Len(stack) /\ i \in 1 .. Len(stack) /\ stack'[i] = stack[i]
        BY <1>1, <1>2, <3>2
      <4> QED
        BY <2>2, <2>5, <4>1
    <3> QED
      BY <3>1, <3>2
  <2>6. ASSUME Len(stack') = 1, stack'[1].op = "read"
        PROVE  Deadline(stack'[1]) <= ReadTimeout + WriteTimeout
    <3>1. Timeout(g) = ReadTimeout /\ ReadTimeout \in Nat /\ WriteTimeout \in Nat
      BY <1>2, <2>6, WireAssumption DEF Timeout
    <3>2. Deadline(Top) <= ReadTimeout + WriteTimeout
      BY <1>1, <1>2, <2>2, <2>6
    <3> QED
      BY <1>2, <2>3, <3>1, <3>2
  <2>7. Len(stack') = 2 => Deadline(stack'[2]) <= ReadTimeout + stack'[1].age
    <3>1. stack'[1].age = stack[1].age
      BY <1>1, <1>2
    <3>2. Len(stack) = 2 => stack'[2] = stack[2]
      BY <1>1, <1>2
    <3> QED
      BY <1>2, <2>2, <3>1, <3>2
  <2> QED
    BY <2>5, <2>6, <2>7
<1>5. Flushed'
  BY <1>2 DEF Flushed
<1> QED
  BY <1>2, <1>3, <1>4, <1>5 DEF Stacked

\* The call on top is done.
LEMMA StackEnds ==
  ASSUME Stacked, stack # <<>>, NEW s \in {Tail(stack), Resumed}, stack' = s,
         reentered' = reentered, Top.op = "write" => Spent'
  PROVE  /\ Stacked'
         /\ Top.op # "write" => stack' = <<>>
         /\ ~reentered /\ stack' # <<>> => Top'.op = "read"
<1> DEFINE t == Tail(stack)
<1>1. /\ stack \in Seq(Frame) /\ Len(stack) \in Nat /\ Len(stack) >= 1
      /\ Top \in Frame /\ Top = stack[1] /\ (Top.op # "write" => Len(stack) = 1)
  BY TopType
<1>2. /\ t \in Seq(Frame) /\ Len(t) = Len(stack) - 1
      /\ \A i \in 1 .. Len(stack) - 1 : t[i] = stack[i + 1]
  BY <1>1, Popped
<1> HIDE DEF t
<1>3. /\ s \in Seq(Frame) /\ Len(s) = Len(t)
      /\ ~reentered => s = t
      /\ \A i \in 1 .. Len(t) : s[i].op = t[i].op
  <2>1. CASE s = t
    BY <1>2, <2>1
  <2>2. CASE s # t
    <3>1. /\ Len(stack) > 1 /\ stack[2].op = "write"
          /\ s = [t EXCEPT ![1] = [t[1] EXCEPT !.done = 0]]
      BY <2>2 DEF t, Resumed
    <3> DEFINE g == [t[1] EXCEPT !.done = 0]
    <3>2. t[1] \in Frame /\ 1 \in 1 .. Len(t)
      BY <1>1, <1>2, <3>1, ElementOfSeq
    <3>3. g \in Frame /\ g.op = t[1].op
      <4>1. PICK f \in Frame : f = t[1]
        BY <3>2
      <4>2. [f EXCEPT !.done = 0] \in Frame
        BY DEF Frame
      <4>3. [f EXCEPT !.done = 0].op = f.op
        BY <4>2 DEF Frame
      <4>4. g = [f EXCEPT !.done = 0]
        BY <4>1
      <4> QED
        BY <4>1, <4>2, <4>3, <4>4
    <3> HIDE DEF g
    <3>4. s \in Seq(Frame) /\ Len(s) = Len(t)
          /\ \A i \in 1 .. Len(t) : s[i] = IF i = 1 THEN g ELSE t[i]
      <4>1. s = [t EXCEPT ![1] = g]
        BY <3>1 DEF g
      <4>2. t \in Seq(Frame) /\ DOMAIN t = 1 .. Len(t)
        BY <1>2
      <4>3. [t EXCEPT ![1] = g] \in Seq(Frame)
        BY <1>2, <3>2, <3>3, ExceptSeq
      <4>4. \A i \in 1 .. Len(t) : [t EXCEPT ![1] = g][i] = IF i = 1 THEN g ELSE t[i]
        BY <4>2
      <4>5. Len([t EXCEPT ![1] = g]) = Len(t)
        BY <1>2, <3>2, <3>3, ExceptSeq
      <4> QED
        BY <4>1, <4>3, <4>4, <4>5
    <3>5. reentered
      BY <1>1, <3>1 DEF Stacked, Nested
    <3> QED
      BY <3>3, <3>4, <3>5
  <2> QED
    BY <2>1, <2>2
<1>4. Nested'
  <2>1. ASSUME NEW i \in 1 .. Len(s), s[i].op # "write" PROVE i = Len(s)
    <3>1. s[i].op = stack[i + 1].op /\ i + 1 \in 1 .. Len(stack)
      BY <1>1, <1>2, <1>3
    <3> QED
      BY <1>1, <1>2, <1>3, <2>1, <3>1 DEF Stacked, Nested
  <2>2. ~reentered => Len(s) <= 1
    BY <1>1, <1>2, <1>3 DEF Stacked, Nested
  <2> QED
    BY <2>1, <2>2 DEF Nested
<1>5. ~reentered /\ Len(s) = 1 => s[1] = stack[2] /\ stack[2].op = "read" /\ Len(stack) = 2
  BY <1>1, <1>2, <1>3 DEF Stacked, Nested
<1>6. Len(s) \in Nat /\ (s # <<>> <=> Len(s) >= 1) /\ (s # <<>> => Head(s) = s[1])
  BY <1>3, OnTop
<1> DEFINE n == Len(s)
<1>6a. n \in Nat
  BY <1>6
<1>7. Timed'
  <2>1. SUFFICES ASSUME ~reentered, Len(s) = 1
                 PROVE  s[1].op = "read" /\ Deadline(s[1]) <= ReadTimeout + WriteTimeout
    BY <1>1, <1>2, <1>3, <1>6 DEF Stacked, Nested, Timed, Deadline, Timeout
  <2>2. /\ s[1] = stack[2] /\ stack[2].op = "read" /\ Len(stack) = 2
        /\ stack[1] \in Frame /\ stack[2] \in Frame
    BY <1>1, <1>5, <2>1, ElementOfSeq
  <2>3. Top.op = "write"
    BY <1>1, <2>2
  <2>4. Deadline(Top) <= WriteTimeout
    BY <1>1, <2>1, <2>3 DEF Stacked, Timed, Timeout
  <2>5. Top.age <= WriteTimeout
    BY <1>1, <2>4, FrameParts, WireAssumption DEF Deadline
  <2>6. Deadline(stack[2]) <= ReadTimeout + Top.age
    BY <1>1, <2>1, <2>2 DEF Stacked, Timed
  <2>7. Deadline(stack[2]) \in Nat /\ Top.age \in Nat /\ ReadTimeout \in Nat /\ WriteTimeout \in Nat
    BY <1>1, <2>2, FrameParts, WireAssumption DEF Deadline
  <2> QED
    BY <2>2, <2>5, <2>6, <2>7
<1>8. Top.op # "write" => s = <<>>
  BY <1>1, <1>2, <1>3, <1>6
<1>9. Flushed'
  BY <1>8 DEF Flushed
<1>10. ~reentered /\ stack' # <<>> => Top'.op = "read"
  <2>1. SUFFICES ASSUME ~reentered, s # <<>> PROVE s[1].op = "read"
    BY <1>6 DEF Top
  <2>2. Len(s) <= 1 /\ Len(s) >= 1
    BY <1>1, <1>2, <1>3, <1>6, <2>1 DEF Stacked, Nested
  <2>3. n = 1
    <3>1. n <= 1 /\ n >= 1
      BY <2>2
    <3> HIDE DEF n
    <3> QED
      BY <1>6a, <3>1
  <2> QED
    BY <1>5, <2>1, <2>3
<1> QED
  BY <1>3, <1>4, <1>7, <1>8, <1>9, <1>10 DEF Stacked

\* The wait of a read begins with a flush.
LEMMA StackFlushes ==
  ASSUME Stacked, stack # <<>>, Top.op = "read", NEW data \in Seq(Nat), NEW g \in Frame,
         g.op = "read", g.age = Top.age, Deadline(g) = ReadTimeout, reentered' = reentered,
         stack' = <<Call("write", data)>> \o (<<g>> \o Tail(stack))
  PROVE  Stacked' /\ stack' # <<>> /\ Top' = Call("write", data)
<1> DEFINE c == Call("write", data)
<1>1. stack \in Seq(Frame) /\ Len(stack) = 1
  BY TopType
<1>2. c \in Frame /\ c.op = "write" /\ c.at = "try" /\ c.age = 0 /\ c.left = 0
  BY CallType
<1>4. stack' = <<c>> \o (<<g>> \o Tail(stack))
  OBVIOUS
<1> HIDE DEF c
<1>5. /\ stack' \in Seq(Frame) /\ stack' # <<>> /\ Len(stack') = 2 /\ Top' = c
      /\ stack'[1] = c /\ stack'[2] = g
  <2>1. stack' = <<c, g>>
    <3>1. <<c>> \o (<<g>> \o Tail(stack)) = <<c, g>>
      BY <1>1, <1>2, Two
    <3> QED
      BY <1>4, <3>1
  <2> QED
    <3> DEFINE t == <<c, g>>
    <3>1. /\ t \in Seq(Frame) /\ t # <<>> /\ Len(t) = 2 /\ Head(t) = c
          /\ t[1] = c /\ t[2] = g
      BY <1>2
    <3>2. stack' = t
      BY <2>1
    <3> HIDE DEF t
    <3> QED
      BY <3>1, <3>2 DEF Top
<1>6. \A i \in 1 .. Len(stack') : i = 1 \/ i = 2
  BY <1>5
<1>7. Nested'
  BY <1>2, <1>5, <1>6 DEF Nested
<1>8. Timed'
  <2>1. Deadline(c) = 0 /\ Timeout(c) \in Nat /\ ReadTimeout \in Nat
    BY <1>2, TimeoutType, WireAssumption DEF Deadline
  <2>2. \A i \in 1 .. Len(stack') :
          stack'[i].op # "read" => Deadline(stack'[i]) <= Timeout(stack'[i])
    BY <1>2, <1>5, <1>6, <2>1
  <2>3. Deadline(stack'[2]) <= ReadTimeout + stack'[1].age
    BY <1>2, <1>5, <2>1
  <2> QED
    BY <1>5, <2>2, <2>3 DEF Timed, Deadline, Timeout
<1>9. Flushed'
  BY <1>2, <1>5 DEF Flushed
<1> QED
  BY <1>5, <1>7, <1>8, <1>9 DEF Stacked, c

\* A call a tick later; the one on top waits.
Older(f, i) == [f EXCEPT !.age = @ + 1, !.left = IF i = 1 THEN @ - 1 ELSE @]

LEMMA OlderType ==
  ASSUME NEW f \in Frame, NEW i, i = 1 => f.left > 0
  PROVE  /\ Older(f, i) \in Frame
         /\ Older(f, i).op = f.op /\ Older(f, i).at = f.at
         /\ Older(f, i).data = f.data /\ Older(f, i).done = f.done
         /\ Older(f, i).age = f.age + 1
         /\ i = 1 => Deadline(Older(f, i)) = Deadline(f)
         /\ i # 1 => Deadline(Older(f, i)) = Deadline(f) + 1
<1> DEFINE a == f.age + 1
           l == IF i = 1 THEN f.left - 1 ELSE f.left
           g == Older(f, i)
<1>1. f.age \in Nat /\ f.left \in Nat
  BY FrameParts
<1>2. /\ a \in Nat /\ l \in Nat /\ a = f.age + 1
      /\ i = 1 => a + l = f.age + f.left
      /\ i # 1 => a + l = f.age + f.left + 1
  BY <1>1
<1>3. g = [f EXCEPT !.age = a, !.left = l]
  BY DEF Older
<1> HIDE DEF a, l, g
<1>4. g \in Frame
  BY <1>2, <1>3 DEF Frame
<1>5. /\ g.age = a /\ g.left = l
      /\ g.op = f.op /\ g.at = f.at /\ g.data = f.data /\ g.done = f.done
  BY <1>3, <1>4 DEF Frame
<1>6. i = 1 => Deadline(g) = Deadline(f)
  BY <1>2, <1>5 DEF Deadline
<1>7. i # 1 => Deadline(g) = Deadline(f) + 1
  BY <1>2, <1>5 DEF Deadline
<1>8. g.age = f.age + 1
  BY <1>2, <1>5
<1> QED
  BY <1>4, <1>5, <1>6, <1>7, <1>8 DEF g

\* Time passes.
LEMMA StackAges ==
  ASSUME Stacked, stack # <<>>, Top.left > 0, UNCHANGED <<obuf, bad, reentered>>,
         stack' = [i \in DOMAIN stack |-> Older(stack[i], i)]
  PROVE  /\ Stacked' /\ stack' # <<>>
         /\ Top'.op = Top.op /\ Top'.data = Top.data /\ Top'.done = Top.done
<1>1. /\ stack \in Seq(Frame) /\ Len(stack) \in Nat /\ Len(stack) >= 1
      /\ Top \in Frame /\ Top = stack[1] /\ DOMAIN stack = 1 .. Len(stack)
  BY TopType
<1>2. ASSUME NEW i \in 1 .. Len(stack)
      PROVE  /\ stack'[i] \in Frame
             /\ stack'[i].op = stack[i].op /\ stack'[i].at = stack[i].at
             /\ stack'[i].data = stack[i].data /\ stack'[i].done = stack[i].done
             /\ stack'[i].age = stack[i].age + 1
             /\ i = 1 => Deadline(stack'[i]) = Deadline(stack[i])
             /\ i # 1 => Deadline(stack'[i]) = Deadline(stack[i]) + 1
  <2>1. stack[i] \in Frame
    BY <1>1, ElementOfSeq
  <2>2. stack'[i] = Older(stack[i], i) /\ (i = 1 => stack[i].left > 0)
    BY <1>1
  <2> QED
    BY <2>1, <2>2, OlderType
<1>3. stack' \in Seq(Frame) /\ Len(stack') = Len(stack)
  <2>1. stack' \in [1 .. Len(stack) -> Frame]
    BY <1>1, <1>2
  <2> QED
    BY <1>1, <2>1
<1>4. stack' # <<>> /\ Top' = stack'[1]
  BY <1>1, <1>3, OnTop DEF Top
<1>5. Top'.op = Top.op /\ Top'.at = Top.at /\ Top'.data = Top.data /\ Top'.done = Top.done
  BY <1>1, <1>2, <1>4
<1>6. Nested'
  <2>1. \A i \in 1 .. Len(stack') : stack'[i].op # "write" => i = Len(stack')
    <3>1. \A i \in 1 .. Len(stack) : stack[i].op # "write" => i = Len(stack)
      BY DEF Stacked, Nested
    <3>2. \A i \in 1 .. Len(stack) : stack'[i].op = stack[i].op
      BY <1>2
    <3> QED
      BY <1>3, <3>1, <3>2
  <2>2. ~reentered => Len(stack) <= 1 \/ (Len(stack) = 2 /\ stack[2].op = "read")
    BY DEF Stacked, Nested
  <2>3. Len(stack) = 2 => stack'[2].op = stack[2].op
    BY <1>2
  <2> QED
    BY <1>3, <2>1, <2>2, <2>3 DEF Nested
<1>7. Timed'
  <2>1. SUFFICES ASSUME ~reentered PROVE
          /\ \A i \in 1 .. Len(stack) :
               stack'[i].op # "read" => Deadline(stack'[i]) <= Timeout(stack'[i])
          /\ Len(stack) = 1 /\ stack'[1].op = "read" =>
               Deadline(stack'[1]) <= ReadTimeout + WriteTimeout
          /\ Len(stack) = 2 => Deadline(stack'[2]) <= ReadTimeout + stack'[1].age
    BY <1>3 DEF Timed, Deadline, Timeout
  <2>2. /\ \A i \in 1 .. Len(stack) :
             stack[i].op # "read" => Deadline(stack[i]) <= Timeout(stack[i])
        /\ Len(stack) = 1 /\ stack[1].op = "read" =>
             Deadline(stack[1]) <= ReadTimeout + WriteTimeout
        /\ Len(stack) = 2 => Deadline(stack[2]) <= ReadTimeout + stack[1].age
    BY <2>1 DEF Stacked, Timed
  <2>3. \A i \in 1 .. Len(stack) : stack[i].op # "read" => i = 1
    <3>1. Len(stack) <= 1 \/ (Len(stack) = 2 /\ stack[2].op = "read")
      BY <2>1 DEF Stacked, Nested
    <3> QED
      BY <1>1, <3>1
  <2>4. ASSUME NEW i \in 1 .. Len(stack), stack'[i].op # "read"
        PROVE  Deadline(stack'[i]) <= Timeout(stack'[i])
    <3>1. /\ stack[i].op # "read" /\ Deadline(stack'[i]) = Deadline(stack[i])
          /\ stack'[i].op = stack[i].op
      BY <1>2, <2>3, <2>4
    <3>2. Timeout(stack'[i]) = Timeout(stack[i])
      BY <3>1 DEF Timeout
    <3> QED
      BY <2>2, <3>1, <3>2
  <2>5. Len(stack) = 1 /\ stack'[1].op = "read" =>
          Deadline(stack'[1]) <= ReadTimeout + WriteTimeout
    BY <1>2, <2>2
  <2>6. ASSUME Len(stack) = 2 PROVE Deadline(stack'[2]) <= ReadTimeout + stack'[1].age
    <3>1. /\ Deadline(stack'[2]) = Deadline(stack[2]) + 1 /\ stack'[1].age = stack[1].age + 1
          /\ Deadline(stack[2]) <= ReadTimeout + stack[1].age
      BY <1>2, <2>2, <2>6
    <3>2. Deadline(stack[2]) \in Nat /\ stack[1].age \in Nat /\ ReadTimeout \in Nat
      <4>1. stack[1] \in Frame /\ stack[2] \in Frame
        BY <1>1, <2>6, ElementOfSeq
      <4>2. /\ stack[2].age \in Nat /\ stack[2].left \in Nat /\ stack[1].age \in Nat
            /\ ReadTimeout \in Nat
        BY <4>1, FrameParts, WireAssumption
      <4> QED
        BY <4>2 DEF Deadline
    <3> QED
      BY <3>1, <3>2
  <2> QED
    BY <2>4, <2>5, <2>6
<1>8. Flushed'
  BY <1>4, <1>5 DEF Stacked, Flushed, Spent, LeftOver
<1> QED
  BY <1>3, <1>4, <1>5, <1>6, <1>7, <1>8 DEF Stacked

\* A write of TLS is interrupted by another.
LEMMA StackReenters ==
  ASSUME Stacked, OnWrite, NEW c \in Frame, NEW g \in Frame, c.op = "write", g.op = "write",
         stack' = <<c>> \o (<<g>> \o Tail(stack)), reentered'
  PROVE  Stacked'
<1>1. /\ stack \in Seq(Frame) /\ Len(stack) \in Nat /\ Len(stack) >= 1 /\ stack # <<>>
      /\ Top = stack[1]
  BY TopType DEF OnWrite
<1>2. PICK s \in Seq(Frame) :
        /\ s = <<g>> \o Tail(stack) /\ Len(s) = Len(stack) /\ s[1] = g
        /\ \A i \in 2 .. Len(stack) : s[i] = stack[i]
  <2> DEFINE u == <<g>> \o Tail(stack)
  <2>1. /\ u \in Seq(Frame) /\ Len(u) = Len(stack) /\ u[1] = g
        /\ \A i \in 2 .. Len(stack) : u[i] = stack[i]
    BY <1>1, Replaced
  <2>2. u = <<g>> \o Tail(stack)
    OBVIOUS
  <2> HIDE DEF u
  <2> QED
    BY <2>1, <2>2
<1>3. PICK t \in Seq(Frame) :
        /\ t = <<c>> \o s /\ t # <<>> /\ Len(t) = Len(s) + 1 /\ Head(t) = c /\ t[1] = c
        /\ \A i \in 1 .. Len(s) : t[i + 1] = s[i]
  <2> DEFINE u == <<c>> \o s
  <2>1. /\ u \in Seq(Frame) /\ u # <<>> /\ Len(u) = Len(s) + 1 /\ Head(u) = c /\ u[1] = c
        /\ \A i \in 1 .. Len(s) : u[i + 1] = s[i]
    BY Pushed
  <2>2. u = <<c>> \o s
    OBVIOUS
  <2> HIDE DEF u
  <2> QED
    BY <2>1, <2>2
<1>4. stack' = t
  BY <1>2, <1>3
<1>5. ASSUME NEW i \in 1 .. Len(t), t[i].op # "write" PROVE i = Len(t)
  <2>1. i # 1
    BY <1>3, <1>5
  <2>2. PICK j \in 1 .. Len(s) : i = j + 1
    <3>1. i - 1 \in 1 .. Len(s) /\ i = (i - 1) + 1
      BY <1>1, <1>2, <1>3, <2>1
    <3> QED
      BY <3>1
  <2>3. t[i] = s[j] /\ s[j].op # "write"
    BY <1>3, <1>5, <2>2
  <2>4. j # 1
    BY <1>2, <2>3
  <2>5. j \in 2 .. Len(stack) /\ stack[j].op # "write" /\ j \in 1 .. Len(stack)
    BY <1>1, <1>2, <2>3, <2>4
  <2>6. j = Len(stack)
    BY <2>5 DEF Stacked, Nested
  <2> QED
    BY <1>1, <1>2, <1>3, <2>2, <2>6
<1>6. Nested'
  BY <1>4, <1>5 DEF Nested
<1>7. Timed'
  BY DEF Timed
<1>8. Flushed'
  BY <1>3, <1>4 DEF Flushed, Top
<1> QED
  BY <1>3, <1>4, <1>6, <1>7, <1>8 DEF Stacked

\* A write of TLS waits for input, with or without a flush before it.
LEMMA StackReplaced ==
  ASSUME Stacked, OnWrite, NEW g \in Frame, g.op = "write", g.age = Top.age,
         Deadline(g) <= Timeout(g), stack' = <<g>> \o Tail(stack), reentered => reentered',
         {reentered, reentered'} \subseteq BOOLEAN
  PROVE  Stacked' /\ stack' # <<>> /\ Top' = g
<1>1. CASE reentered' = reentered
  BY <1>1, StackGoesOn DEF OnWrite
<1>2. CASE reentered'
  <2>1. stack \in Seq(Frame) /\ Len(stack) \in Nat /\ stack # <<>> /\ Top = stack[1]
    BY TopType DEF OnWrite
  <2>2. /\ stack' \in Seq(Frame) /\ stack' # <<>> /\ Len(stack') = Len(stack)
        /\ Top' = g /\ stack'[1] = g
        /\ \A i \in 2 .. Len(stack) : stack'[i] = stack[i]
    BY <2>1, Replaced DEF Top
  <2>3. \A i \in 1 .. Len(stack) : stack'[i].op = stack[i].op
    BY <2>1, <2>2 DEF OnWrite
  <2>4. Nested'
    BY <1>2, <2>2, <2>3 DEF Stacked, Nested
  <2>5. Timed' /\ Flushed'
    BY <1>2, <2>2 DEF Timed, Flushed
  <2> QED
    BY <2>2, <2>4, <2>5 DEF Stacked
<1> QED
  BY <1>1, <1>2
-----------------------------------------------------------------------------
(***************************************************************************)
(* What a step can do to the order of the replies.                         *)
(***************************************************************************)
\* Nothing: the write on top, if there is one, is where it was.
LEMMA OrderStays ==
  ASSUME InOrder, UNCHANGED <<heard, line, obuf, failed, said, reentered>>, OnWrite' <=> OnWrite,
         OnWrite => Top'.data = Top.data /\ Top'.done = Top.done
  PROVE  InOrder'
<1>1. Out' = Out /\ Done' = Done
  BY DEF Out, Done
<1> QED
  BY <1>1 DEF InOrder

\* A flush begins.
LEMMA OrderFlushed ==
  ASSUME InOrder, UNCHANGED <<heard, line, obuf, failed, said, reentered>>, ~OnWrite,
         obuf \in Seq(Nat), OnWrite', Top'.data = obuf, Top'.done = 0
  PROVE  InOrder'
<1>1. Out' = Out /\ Done' = 0 /\ Done = 0
  BY DEF Out, Done
<1>2. 0 <= Len(obuf)
  BY LenProperties
<1> QED
  BY <1>1, <1>2 DEF InOrder

\* One reply more is said.
LEMMA OrderSaid ==
  ASSUME InOrder, TypeOK, ~OnWrite, Done = 0, Done' = 0, said' = said + 1,
         obuf' = Append(obuf, said + 1), UNCHANGED <<heard, line, failed, reentered>>,
         OnWrite' => Top'.data = obuf' /\ Top'.done = 0
  PROVE  InOrder'
<1>1. SUFFICES ASSUME ~reentered, ~failed PROVE InOrder'
  BY DEF InOrder
<1>2. /\ obuf \in Seq(Nat) /\ said \in Nat /\ said + 1 \in Nat
      /\ Out \in Nat /\ Out' = Out
  BY LenProperties DEF TypeOK, Out
<1>3. /\ Len(obuf') = Len(obuf) + 1 /\ Len(obuf) \in Nat
      /\ obuf'[Len(obuf) + 1] = said + 1
      /\ \A i \in 1 .. Len(obuf) : obuf'[i] = obuf[i]
  BY <1>2, AppendProperties
<1>4. /\ Out <= said
      /\ \A i \in 1 .. Len(heard) : heard[i] = i
      /\ \A i \in 1 .. Len(line) : line[i] = Len(heard) + i
      /\ Len(obuf) = said - Out + 0
      /\ \A i \in 1 .. Len(obuf) : obuf[i] = Out - 0 + i
  BY <1>1 DEF InOrder
<1>5. Out <= said'
  BY <1>2, <1>4
<1>6. Len(obuf') = said' - Out + 0
  BY <1>2, <1>3, <1>4
<1>7. ASSUME NEW i \in 1 .. Len(obuf') PROVE obuf'[i] = Out - 0 + i
  <2>1. CASE i \in 1 .. Len(obuf)
    BY <1>3, <1>4, <2>1
  <2>2. CASE i = Len(obuf) + 1
    BY <1>2, <1>3, <1>4, <2>2
  <2> QED
    BY <1>3, <2>1, <2>2
<1>8. OnWrite' => Top'.data = obuf' /\ Top'.done <= Len(obuf')
  BY <1>3
<1> QED
  BY <1>2, <1>4, <1>5, <1>6, <1>7, <1>8 DEF InOrder

\* Once a write has failed, or another has begun inside it, anything may happen to it.
LEMMA OrderGivenUp ==
  ASSUME failed' \/ reentered' PROVE InOrder'
  BY DEF InOrder
-----------------------------------------------------------------------------
(***************************************************************************)
(* Most steps touch neither the limit nor the peer.                        *)
(***************************************************************************)
LEMMA RestStays ==
  ASSUME IInv, Stacked', InOrder', UNCHANGED <<ibuf, said, limits, logging, rx, peer>>,
         tls' \in {"off", "on", "shut"}, obuf' \in Seq(Nat), line' \in Seq(Nat),
         {ibad', bad', failed', reentered'} \subseteq BOOLEAN,
         state' \in {"running", "fatal", "thrown"}, odd' \in 0 .. MaxOdd
  PROVE  IInv'
<1>1. TypeOK'
  BY DEF IInv, TypeOK, Stacked, limits, peer
<1>2. Metered'
  BY DEF IInv, Metered, limits
<1> QED
  BY <1>1, <1>2 DEF IInv

LEMMA InitIInv == Init => IInv
<1> SUFFICES ASSUME Init PROVE IInv
  OBVIOUS
<1> USE WireAssumption DEF Init
<1>1. <<>> \in Seq(Frame) /\ <<>> \in Seq(Nat) /\ Len(<<>>) = 0
  OBVIOUS
<1>2. TypeOK
  <2>1. sent \in 0 .. Requests /\ odd \in 0 .. MaxOdd
    OBVIOUS
  <2>2. stack \in Seq(Frame) /\ obuf \in Seq(Nat) /\ line \in Seq(Nat) /\ heard \in Seq(Nat)
    BY <1>1
  <2> QED
    BY <2>1, <2>2 DEF TypeOK
<1>3. Metered
  BY DEF Metered
<1>4. Stacked
  BY <1>1 DEF Stacked, Nested, Timed, Flushed
<1>5. InOrder
  <2>1. Out = 0 /\ Done = 0 /\ ~OnWrite
    BY DEF Out, Done, OnWrite
  <2> QED
    BY <2>1 DEF InOrder
<1> QED
  BY <1>2, <1>3, <1>4, <1>5 DEF IInv
-----------------------------------------------------------------------------
(***************************************************************************)
(* The invariant is inductive: the server between two calls.               *)
(***************************************************************************)
LEMMA ServeStep == IInv /\ Serve => IInv'
<1> SUFFICES ASSUME IInv, Serve PROVE IInv'
  OBVIOUS
<1>1. /\ stack = <<>> /\ ibuf > 0 /\ ibuf' = ibuf - 1 /\ said' = said + 1
      /\ obuf' = Append(obuf, said + 1)
      /\ UNCHANGED <<stack, tls, ibad, bad, limits, state, logging, rx, line, peer, odd, failed,
                     reentered>>
  BY DEF Serve, Idle
<1>2. TypeOK /\ obuf \in Seq(Nat) /\ said \in Nat /\ said + 1 \in Nat /\ ibuf \in Nat
      /\ ibuf' \in Nat
  BY <1>1 DEF IInv, TypeOK
<1>3. /\ obuf' \in Seq(Nat) /\ Len(obuf') = Len(obuf) + 1 /\ Len(obuf) \in Nat
      /\ obuf'[Len(obuf) + 1] = said + 1
      /\ \A i \in 1 .. Len(obuf) : obuf'[i] = obuf[i]
  BY <1>1, <1>2, AppendProperties
<1>4. TypeOK'
  BY <1>1, <1>2, <1>3 DEF TypeOK, limits, peer
<1>5. Metered' /\ Stacked'
  BY <1>1 DEF IInv, Metered, Stacked, Nested, Timed, Flushed, limits
<1>6. InOrder'
  <2>1. ~OnWrite /\ ~OnWrite' /\ Done = 0 /\ Done' = 0 /\ Out' = Out
    BY <1>1 DEF OnWrite, Done, Out, peer
  <2> QED
    BY <1>1, <2>1, OrderSaid DEF IInv, peer
<1> QED
  BY <1>4, <1>5, <1>6 DEF IInv

LEMMA FlushStep == IInv /\ Flush => IInv'
<1> SUFFICES ASSUME IInv, Flush PROVE IInv'
  OBVIOUS
<1>1. /\ stack = <<>> /\ stack' = <<Call("write", obuf)>>
      /\ UNCHANGED <<tls, stream, limits, state, logging, rx, line, peer, odd, failed, reentered>>
  BY DEF Flush, Idle
<1>2. TypeOK /\ obuf \in Seq(Nat)
  BY DEF IInv, TypeOK
<1>3. Stacked' /\ stack' # <<>> /\ Top' = Call("write", obuf)
  BY <1>1, <1>2, StackBegins
<1>4. InOrder'
  <2>1. ~OnWrite /\ OnWrite' /\ Top'.data = obuf /\ Top'.done = 0
    BY <1>1, <1>2, <1>3, CallType DEF OnWrite
  <2> QED
    BY <1>1, <1>2, <2>1, OrderFlushed DEF IInv, stream, peer
<1> QED
  BY <1>1, <1>2, <1>3, <1>4, RestStays DEF TypeOK, stream

LEMMA TransferErrorStep == IInv /\ TransferError => IInv'
<1> SUFFICES ASSUME IInv, TransferError PROVE IInv'
  OBVIOUS
<1>1. /\ stack = <<>> /\ stack' = <<Call("write", obuf')>>
      /\ said' = said + 1 /\ obuf' = Append(obuf, said + 1)
      /\ ibad' = FALSE /\ bad' = FALSE /\ odd < MaxOdd /\ odd' = odd + 1
      /\ UNCHANGED <<tls, ibuf, limits, state, logging, rx, line, peer, failed, reentered>>
  BY DEF TransferError, Idle, Odd
<1>2. TypeOK /\ obuf \in Seq(Nat) /\ said' \in Nat /\ said + 1 \in Nat
  BY <1>1 DEF IInv, TypeOK
<1>3. obuf' \in Seq(Nat)
  BY <1>1, <1>2, AppendProperties
<1>4. Stacked' /\ stack' # <<>> /\ Top' = Call("write", obuf')
  BY <1>1, <1>3, StackBegins
<1>5. odd' \in 0 .. MaxOdd
  BY <1>1, <1>2, WireAssumption DEF TypeOK
<1>6. TypeOK'
  BY <1>1, <1>2, <1>3, <1>4, <1>5 DEF TypeOK, Stacked, limits, peer
<1>7. Metered'
  BY <1>1 DEF IInv, Metered, limits
<1>8. InOrder'
  <2>1. Top'.data = obuf' /\ Top'.done = 0
    BY <1>3, <1>4, CallType
  <2>2. ~OnWrite /\ Done = 0 /\ Done' = 0
    BY <1>1, <2>1 DEF OnWrite, Done
  <2> QED
    BY <1>1, <1>2, <2>1, <2>2, OrderSaid DEF IInv, peer
<1> QED
  BY <1>4, <1>6, <1>7, <1>8 DEF IInv

LEMMA ParserThrowsStep == IInv /\ ParserThrows => IInv'
<1> SUFFICES ASSUME IInv, ParserThrows PROVE IInv'
  OBVIOUS
<1>1. /\ state' = "thrown"
      /\ UNCHANGED <<stack, tls, stream, limits, logging, rx, line, peer, odd, failed, reentered>>
  BY DEF ParserThrows
<1>2. Stacked'
  BY <1>1, StackStays DEF IInv, stream
<1>3. InOrder'
  BY <1>1, OrderStays DEF IInv, stream, peer, OnWrite, Top
<1> QED
  BY <1>1, <1>2, <1>3, RestStays DEF IInv, TypeOK, stream

LEMMA SetMaxReadStep == IInv /\ SetMaxRead => IInv'
<1> SUFFICES ASSUME IInv, SetMaxRead PROVE IInv'
  OBVIOUS
<1>1. /\ octets' = 0 /\ since' = 0
      /\ UNCHANGED <<stack, tls, stream, state, logging, rx, line, peer, odd, failed, reentered>>
  BY DEF SetMaxRead
<1>2. TypeOK'
  BY <1>1 DEF IInv, TypeOK, stream, peer
<1>3. Metered'
  BY <1>1, WireAssumption DEF Metered
<1>4. Stacked'
  BY <1>1, StackStays DEF IInv, stream
<1>5. InOrder'
  BY <1>1, OrderStays DEF IInv, stream, peer, OnWrite, Top
<1> QED
  BY <1>2, <1>3, <1>4, <1>5 DEF IInv

\* A call that is not a write begins.
LEMMA OtherBegins ==
  ASSUME IInv, NEW op \in {"read", "handshake"}, stack = <<>>, stack' = <<Call(op, <<>>)>>,
         UNCHANGED <<heard, line, obuf, bad, failed, said, reentered>>
  PROVE  Stacked' /\ InOrder'
<1>1. <<>> \in Seq(Nat) /\ op \in {"read", "write", "handshake"}
  OBVIOUS
<1>2. Stacked' /\ stack' # <<>> /\ Top' = Call(op, <<>>)
  BY <1>1, StackBegins
<1>3. ~OnWrite /\ ~OnWrite'
  BY <1>1, <1>2, CallType DEF OnWrite
<1> QED
  BY <1>2, <1>3, OrderStays DEF IInv

LEMMA UnderflowStep == IInv /\ Underflow => IInv'
<1> SUFFICES ASSUME IInv, Underflow PROVE IInv'
  OBVIOUS
<1>1. /\ stack = <<>> /\ ibad' \in BOOLEAN
      /\ stack' = stack \/ stack' = <<Call("read", <<>>)>>
      /\ UNCHANGED <<tls, ibuf, obuf, bad, said, limits, state, logging, rx, line, peer,
                     odd, failed, reentered>>
  BY DEF Underflow, Idle, IInv, TypeOK
<1>2. TypeOK
  BY DEF IInv
<1>3. Stacked' /\ InOrder'
  <2>1. CASE stack' = stack
    BY <1>1, <2>1, StackStays, OrderStays DEF IInv, OnWrite, Top, peer
  <2>2. CASE stack' = <<Call("read", <<>>)>>
    BY <1>1, <2>2, OtherBegins DEF peer
  <2> QED
    BY <1>1, <2>1, <2>2
<1> QED
  BY <1>1, <1>2, <1>3, RestStays DEF TypeOK

LEMMA StarttlsStep == IInv /\ Starttls => IInv'
<1> SUFFICES ASSUME IInv, Starttls PROVE IInv'
  OBVIOUS
<1>1. /\ stack = <<>> /\ stack' = <<Call("handshake", <<>>)>>
      /\ UNCHANGED <<tls, stream, limits, state, logging, rx, line, peer, odd, failed, reentered>>
  BY DEF Starttls, Idle
<1>2. TypeOK
  BY DEF IInv
<1>3. Stacked' /\ InOrder'
  BY <1>1, OtherBegins DEF peer, stream
<1> QED
  BY <1>1, <1>2, <1>3, RestStays DEF TypeOK, stream
-----------------------------------------------------------------------------
(***************************************************************************)
(* The ways a call goes on or ends.                                        *)
(***************************************************************************)
\* Odd events are counted up to their bound.
LEMMA OddType ==
  ASSUME IInv, odd' = odd \/ Odd PROVE odd' \in 0 .. MaxOdd
<1>1. odd \in 0 .. MaxOdd /\ MaxOdd \in Nat
  BY WireAssumption DEF IInv, TypeOK
<1> QED
  BY <1>1 DEF Odd

\* A read or a handshake is over.
LEMMA OtherEnds ==
  ASSUME IInv, stack # <<>>, Top.op # "write", stack' = Tail(stack),
         UNCHANGED <<heard, line, obuf, failed, said, reentered>>
  PROVE  Stacked' /\ InOrder'
<1>1. Stacked' /\ stack' = <<>>
  BY StackEnds DEF IInv
<1>2. ~OnWrite /\ ~OnWrite'
  BY <1>1 DEF OnWrite
<1> QED
  BY <1>1, <1>2, OrderStays DEF IInv

\* A call waits for what is left of its time.
LEMMA CallWaits ==
  ASSUME IInv, stack # <<>>, ~TimeIsUp(Top), NEW how \in {"in", "out"},
         stack' = <<WaitFor(Top, how)>> \o Tail(stack),
         Top.op = "read" /\ how = "in" => Spent,
         UNCHANGED <<heard, line, obuf, bad, failed, said, reentered>>
  PROVE  Stacked' /\ InOrder'
<1> DEFINE g == WaitFor(Top, how)
<1>1. Stacked /\ Top \in Frame
  BY TopType DEF IInv
<1>2. /\ g \in Frame /\ g.at = how /\ Timeout(g) = Timeout(Top) /\ Deadline(g) = Timeout(Top)
      /\ g.op = Top.op /\ g.age = Top.age /\ g.data = Top.data /\ g.done = Top.done
  BY <1>1, WaitForType
<1>3. stack' = <<g>> \o Tail(stack)
  OBVIOUS
<1> HIDE DEF g
<1>4. Deadline(g) <= Timeout(g)
  BY <1>2, TimeoutType
<1>5. Spent' <=> Spent
  BY DEF Spent, LeftOver
<1>6. Stacked' /\ stack' # <<>> /\ Top' = g
  BY <1>1, <1>2, <1>3, <1>4, <1>5, StackGoesOn
<1>7. OnWrite' <=> OnWrite
  BY <1>2, <1>6 DEF OnWrite
<1> QED
  BY <1>2, <1>6, <1>7, OrderStays DEF IInv

\* A read waits, and what was said is flushed first.
LEMMA ReadHooked ==
  ASSUME IInv, stack # <<>>, Top.op = "read", ~TimeIsUp(Top), GoOn("in", TRUE),
         UNCHANGED <<heard, line, obuf, bad, failed, said, reentered>>
  PROVE  Stacked' /\ InOrder'
<1> DEFINE g == WaitFor(Top, "in")
<1>1. Stacked /\ InOrder /\ Top \in Frame /\ obuf \in Seq(Nat)
  BY TopType DEF IInv, TypeOK
<1>2. CASE stack' = <<Call("write", obuf)>> \o (<<g>> \o Tail(stack))
  <2>1. stack' = <<Call("write", obuf)>> \o (<<g>> \o Tail(stack))
    BY <1>2
  <2>2. /\ g \in Frame /\ Deadline(g) = Timeout(Top)
        /\ g.op = Top.op /\ g.age = Top.age
    BY <1>1, WaitForType
  <2>3. Timeout(Top) = ReadTimeout
    BY DEF Timeout
  <2> HIDE DEF g
  <2>4. Stacked' /\ stack' # <<>> /\ Top' = Call("write", obuf)
    BY <1>1, <2>1, <2>2, <2>3, StackFlushes
  <2>5. ~OnWrite /\ OnWrite' /\ Top'.data = obuf /\ Top'.done = 0
    BY <1>1, <2>4, CallType DEF OnWrite
  <2> QED
    BY <1>1, <1>2, <2>4, <2>5, OrderFlushed
<1>3. CASE stack' = <<g>> \o Tail(stack) /\ (obuf = <<>> \/ bad)
  <2>1. Spent
    BY <1>3 DEF Spent
  <2> QED
    BY <1>3, <2>1, CallWaits
<1> QED
  BY <1>2, <1>3 DEF GoOn, Hooked

\* The program ends in a call.
LEMMA DiesStep ==
  ASSUME IInv, Dies, UNCHANGED <<unread, reentered>>, odd' \in 0 .. MaxOdd
  PROVE  IInv'
<1>1. /\ state' = "fatal"
      /\ UNCHANGED <<stack, ibad, bad, tls, ibuf, obuf, said, limits, logging, rx, line, peer,
                     failed, reentered>>
  BY DEF Dies, sound, unread
<1>2. TypeOK
  BY DEF IInv
<1>3. Stacked' /\ InOrder'
  <2>1. Top' = Top /\ (OnWrite' <=> OnWrite)
    BY <1>1 DEF OnWrite, Top
  <2> QED
    BY <1>1, <2>1, StackStays, OrderStays DEF IInv, peer
<1> QED
  BY <1>1, <1>2, <1>3, RestStays DEF TypeOK
-----------------------------------------------------------------------------
(***************************************************************************)
(* The invariant is inductive: reading.                                    *)
(***************************************************************************)
LEMMA ReadDataStep == IInv /\ ReadData => IInv'
<1> SUFFICES ASSUME IInv, ReadData PROVE IInv'
  OBVIOUS
<1>1. /\ stack # <<>> /\ Top.op = "read" /\ stack' = Tail(stack)
      /\ UNCHANGED <<tls, obuf, bad, said, state, logging, line, peer, odd, failed, reentered>>
  BY DEF ReadData, Trying
<1>2. PICK n \in 1 .. rx :
        /\ rx' = rx - n /\ octets' = octets + n
        /\ IF MaxedOut(octets + n) THEN ibad' = TRUE /\ UNCHANGED <<ibuf, since>>
           ELSE ibuf' = ibuf + n /\ since' = since + n /\ UNCHANGED ibad
  BY DEF ReadData
<1>3. TypeOK /\ rx \in Nat /\ octets \in Nat /\ since \in Nat /\ ibuf \in Nat
      /\ since <= octets /\ since < Limit /\ Limit \in Nat
  BY WireAssumption DEF IInv, TypeOK, Metered
<1>4. Stacked' /\ InOrder'
  BY <1>1, OtherEnds DEF peer
<1>5. rx' \in Nat /\ octets' \in Nat /\ since' \in Nat /\ ibuf' \in Nat /\ ibad' \in BOOLEAN
      /\ since' <= octets' /\ since' < Limit
  <2>0. rx' \in Nat /\ octets' \in Nat /\ n \in Nat /\ octets' = octets + n
    BY <1>2, <1>3
  <2>1. CASE MaxedOut(octets + n)
    <3>1. ibad' = TRUE /\ ibuf' = ibuf /\ since' = since
      BY <1>2, <2>1
    <3> QED
      BY <1>3, <2>0, <3>1
  <2>2. CASE ~MaxedOut(octets + n)
    <3>1. ibad' = ibad /\ ibuf' = ibuf + n /\ since' = since + n
      BY <1>2, <2>2
    <3>2. octets + n < Limit
      BY <1>3, <2>0, <2>2 DEF MaxedOut
    <3>3. ibad' \in BOOLEAN
      BY <1>3, <3>1 DEF TypeOK
    <3> QED
      BY <1>3, <2>0, <3>1, <3>2, <3>3
  <2> QED
    BY <2>1, <2>2
<1>6. TypeOK'
  BY <1>1, <1>3, <1>4, <1>5 DEF TypeOK, Stacked, peer
<1> QED
  BY <1>4, <1>5, <1>6 DEF IInv, Metered

LEMMA ReadEndStep == IInv /\ ReadEnd => IInv'
<1> SUFFICES ASSUME IInv, ReadEnd PROVE IInv'
  OBVIOUS
<1>1. CASE stack' = Tail(stack) /\ ibad' = TRUE /\ UNCHANGED <<state, obuf, bad, failed>>
  <2>1. /\ stack # <<>> /\ Top.op = "read"
        /\ UNCHANGED <<tls, ibuf, said, limits, logging, rx, line, peer, odd, reentered>>
    BY DEF ReadEnd, Trying, unread
  <2>2. Stacked' /\ InOrder'
    BY <1>1, <2>1, OtherEnds DEF peer
  <2> QED
    BY <1>1, <2>1, <2>2, RestStays DEF IInv, TypeOK
<1>2. CASE Dies
  BY <1>2, DiesStep DEF ReadEnd, IInv, TypeOK
<1> QED
  BY <1>1, <1>2 DEF ReadEnd

LEMMA ReadFailsStep ==
  ASSUME IInv, stack # <<>>, Top.op = "read", ReadFails, UNCHANGED <<unread, reentered, odd>>
  PROVE  IInv'
<1>1. /\ stack' = Tail(stack) /\ ibad' = TRUE /\ bad' \in BOOLEAN
      /\ UNCHANGED <<tls, ibuf, obuf, said, limits, logging, rx, line, peer, failed, state, odd,
                     reentered>>
  BY DEF IInv, TypeOK, ReadFails, unread
<1>2. Stacked' /\ InOrder'
  BY <1>1, OtherEnds DEF peer
<1> QED
  BY <1>1, <1>2, RestStays DEF IInv, TypeOK

LEMMA ReadResetStep == IInv /\ ReadReset => IInv'
  BY ReadFailsStep DEF ReadReset, Trying

LEMMA UseOfShutStep == IInv /\ UseOfShut => IInv'
  BY DiesStep DEF UseOfShut, IInv, TypeOK

LEMMA ReadWaitsStep == IInv /\ ReadWaits => IInv'
<1> SUFFICES ASSUME IInv, ReadWaits PROVE IInv'
  OBVIOUS
<1>1. /\ stack # <<>> /\ Top.op = "read"
      /\ UNCHANGED <<unread, reentered>>
  BY DEF ReadWaits, Trying
<1>2. CASE TimeIsUp(Top)
  BY <1>1, <1>2, ReadFailsStep DEF ReadWaits
<1>3. CASE ~TimeIsUp(Top)
  <2>1. /\ UNCHANGED <<ibad, state, tls, ibuf, obuf, said, limits, logging, rx, line, peer, bad,
                       failed, reentered>>
        /\ odd' \in 0 .. MaxOdd
        /\ GoOn("in", TRUE) \/ GoOn("out", FALSE)
    <3>1. /\ odd' = odd \/ Odd
          /\ GoOn("in", TRUE) \/ GoOn("out", FALSE)
          /\ UNCHANGED <<sound, state>>
      BY <1>3 DEF ReadWaits
    <3> QED
      BY <1>1, <3>1, OddType DEF unread, sound
  <2>2. Stacked' /\ InOrder'
    <3>1. CASE GoOn("in", TRUE)
      BY <1>1, <1>3, <2>1, <3>1, ReadHooked DEF peer
    <3>2. CASE GoOn("out", FALSE)
      <4>1. stack' = <<WaitFor(Top, "out")>> \o Tail(stack)
        BY <3>2 DEF GoOn
      <4> QED
        BY <1>1, <1>3, <2>1, <4>1, CallWaits DEF peer
    <3> QED
      BY <2>1, <3>1, <3>2
  <2> QED
    BY <2>1, <2>2, RestStays DEF IInv, TypeOK
<1> QED
  BY <1>2, <1>3
-----------------------------------------------------------------------------
(***************************************************************************)
(* The invariant is inductive: writing.                                    *)
(***************************************************************************)
\* The n elements of a sequence after the first d.
LEMMA PartOf ==
  ASSUME NEW S, NEW s \in Seq(S), NEW d \in Nat, NEW n \in Nat, d + n <= Len(s)
  PROVE  LET part == SubSeq(s, d + 1, d + n) IN
         /\ part \in Seq(S) /\ Len(part) = n
         /\ \A k \in 1 .. n : part[k] = s[d + k]
<1> DEFINE a == d + 1
           b == d + n
           part == SubSeq(s, a, b)
<1>1. a \in Int /\ b \in Int /\ b - a + 1 = n /\ (a <= b <=> n >= 1) /\ n \in Nat
  OBVIOUS
<1>2. \A i \in a .. b : s[i] \in S
  <2>1. \A i \in a .. b : i \in 1 .. Len(s)
    BY LenProperties
  <2> QED
    BY <2>1, ElementOfSeq
<1>3. \A k \in 1 .. n : a + k - 1 = d + k
  OBVIOUS
<1> HIDE DEF a, b
<1>4. /\ part \in Seq(S)
      /\ Len(part) = IF a <= b THEN b - a + 1 ELSE 0
      /\ \A k \in 1 .. b - a + 1 : part[k] = s[a + k - 1]
  BY <1>1, <1>2, SubSeqProperties
<1> HIDE DEF part
<1>5. Len(part) = n
  BY <1>1, <1>4
<1>6. \A k \in 1 .. n : part[k] = s[d + k]
  BY <1>1, <1>3, <1>4
<1> QED
  BY <1>4, <1>5, <1>6 DEF part, a, b

\* The elements of a sequence are the numbers after a.
Numbered(s, a) == \A i \in 1 .. Len(s) : s[i] = a + i

LEMMA NumberedAt ==
  ASSUME NEW s, NEW a, Numbered(s, a), NEW i \in 1 .. Len(s)
  PROVE  s[i] = a + i
  BY DEF Numbered

\* A line m is the line l and the n replies of data after the first d.
Taken(m, l, data, d, n) == m = l \o SubSeq(data, d + 1, d + n)

\* What that makes it.
LEMMA TakenLen ==
  ASSUME NEW data \in Seq(Nat), NEW d \in Nat, NEW n \in Nat, d + n <= Len(data),
         NEW l \in Seq(Nat), NEW m, Taken(m, l, data, d, n)
  PROVE  m \in Seq(Nat) /\ Len(m) = Len(l) + n /\ Len(l) \in Nat
<1> DEFINE part == SubSeq(data, d + 1, d + n)
<1>1. part \in Seq(Nat) /\ Len(part) = n
  BY PartOf
<1>2. m = l \o part
  BY DEF Taken
<1> HIDE DEF part
<1>3. l \o part \in Seq(Nat) /\ Len(l \o part) = Len(l) + Len(part) /\ Len(l) \in Nat
  BY <1>1, ConcatProperties, LenProperties
<1> QED
  BY <1>1, <1>2, <1>3

LEMMA TakenAt ==
  ASSUME NEW data \in Seq(Nat), NEW d \in Nat, NEW n \in Nat, d + n <= Len(data),
         NEW l \in Seq(Nat), NEW m, Taken(m, l, data, d, n), NEW i \in 1 .. Len(m)
  PROVE  \/ i \in 1 .. Len(l) /\ m[i] = l[i]
         \/ /\ i - Len(l) \in 1 .. n
            /\ d + (i - Len(l)) \in 1 .. Len(data)
            /\ m[i] = data[d + (i - Len(l))]
<1> DEFINE part == SubSeq(data, d + 1, d + n)
<1>1. part \in Seq(Nat) /\ Len(part) = n
  BY PartOf
<1>2. \A k \in 1 .. n : part[k] = data[d + k]
  BY PartOf
<1>3. m = l \o part
  BY DEF Taken
<1> HIDE DEF part
<1>4. \A j \in 1 .. Len(l) + Len(part) :
        (l \o part)[j] = IF j <= Len(l) THEN l[j] ELSE part[j - Len(l)]
  BY <1>1, ConcatProperties
<1>5. Len(m) = Len(l) + n /\ Len(l) \in Nat /\ Len(data) \in Nat
  BY TakenLen, LenProperties
<1>6. m[i] = IF i <= Len(l) THEN l[i] ELSE part[i - Len(l)]
  BY <1>1, <1>3, <1>4, <1>5
<1>7. CASE i <= Len(l)
  BY <1>5, <1>6, <1>7
<1>8. CASE ~(i <= Len(l))
  <2>1. PICK k \in 1 .. n : k = i - Len(l)
    <3>1. i - Len(l) \in 1 .. n
      BY <1>5, <1>8
    <3> QED
      BY <3>1, Zenon
  <2>2. m[i] = part[k] /\ part[k] = data[d + k]
    BY <1>2, <1>6, <1>8, <2>1
  <2>3. d + k \in 1 .. Len(data)
    BY <1>5
  <2> QED
    BY <2>1, <2>2, <2>3
<1> QED
  BY <1>7, <1>8

\* A line in order, h replies after the first, and more of them.
LEMMA LineGrows ==
  ASSUME NEW data \in Seq(Nat), NEW d \in Nat, NEW n \in Nat, d + n <= Len(data),
         NEW l \in Seq(Nat), NEW h \in Nat, NEW m, Taken(m, l, data, d, n),
         Numbered(l, h), Numbered(data, h + Len(l) - d)
  PROVE  Numbered(m, h)
<1>1. Len(m) = Len(l) + n /\ Len(l) \in Nat
  BY TakenLen
<1>2. ASSUME NEW i \in 1 .. Len(m) PROVE m[i] = h + i
  <2>1. CASE i \in 1 .. Len(l) /\ m[i] = l[i]
    BY <2>1, NumberedAt
  <2>2. CASE /\ i - Len(l) \in 1 .. n
             /\ d + (i - Len(l)) \in 1 .. Len(data)
             /\ m[i] = data[d + (i - Len(l))]
    <3>1. PICK k \in 1 .. Len(data) : k = d + (i - Len(l))
      BY <2>2
    <3>2. data[k] = h + Len(l) - d + k
      BY NumberedAt
    <3>3. m[i] = data[k]
      BY <2>2, <3>1
    <3>4. h + Len(l) - d + k = h + i
      BY <1>1, <3>1
    <3> QED
      BY <3>2, <3>3, <3>4
  <2> QED
    BY <2>1, <2>2, TakenAt
<1> QED
  BY <1>2 DEF Numbered

\* Replies n more of which the socket takes.
LEMMA PartTaken ==
  ASSUME IInv, OnWrite, NEW n \in Nat, Top.done + n <= Len(Top.data),
         Taken(line', line, Top.data, Top.done, n)
  PROVE  /\ Top \in Frame /\ Top.done \in Nat /\ Top.data \in Seq(Nat)
         /\ line' \in Seq(Nat) /\ Len(line') = Len(line) + n /\ Len(line) \in Nat
         /\ ~reentered /\ ~failed => Numbered(line', Len(heard))
<1>1. /\ Top \in Frame /\ Top.data \in Seq(Nat) /\ Top.done \in Nat
      /\ line \in Seq(Nat) /\ Len(line) \in Nat /\ Len(heard) \in Nat
  BY TopType, FrameParts, LenProperties DEF IInv, TypeOK, OnWrite
<1>2. line' \in Seq(Nat) /\ Len(line') = Len(line) + n
  BY <1>1, TakenLen
<1>3. ASSUME ~reentered, ~failed PROVE Numbered(line', Len(heard))
  <2>1. InOrder
    BY DEF IInv
  <2>2. Numbered(line, Len(heard))
    BY <1>3, <2>1 DEF InOrder, Numbered
  <2>3. Top.data = obuf
    BY <1>3, <2>1 DEF InOrder
  <2>4. Numbered(obuf, Out - Done)
    BY <1>3, <2>1, <2>3 DEF InOrder, Numbered
  <2>5. Out - Done = Len(heard) + Len(line) - Top.done
    <3>1. Done = Top.done
      BY Zenon DEF Done
    <3> QED
      BY <1>1, <3>1 DEF Out
  <2>6. Numbered(Top.data, Len(heard) + Len(line) - Top.done)
    BY <2>3, <2>4, <2>5
  <2> QED
    BY <1>1, <2>2, <2>6, LineGrows
<1> QED
  BY <1>1, <1>2, <1>3

\* The order after that: the write has failed, has ended, or goes on with the rest.
LEMMA OrderTaken ==
  ASSUME IInv, OnWrite, NEW n \in Nat, Top.done + n <= Len(Top.data),
         Taken(line', line, Top.data, Top.done, n), UNCHANGED <<heard, said, failed, reentered>>,
         ~reentered =>
           \/ obuf' = <<>> /\ ~OnWrite' /\ Top.done + n = Len(Top.data)
           \/ /\ UNCHANGED obuf /\ OnWrite'
              /\ Top'.data = Top.data /\ Top'.done = Top.done + n
  PROVE  InOrder'
<1>1. SUFFICES ASSUME ~reentered, ~failed PROVE InOrder'
  BY DEF InOrder
<1>2. /\ Top.done \in Nat /\ Len(line') = Len(line) + n /\ Len(line) \in Nat
      /\ Numbered(line', Len(heard))
  BY <1>1, PartTaken
<1>3. Len(heard) \in Nat /\ said \in Nat /\ Len(obuf) \in Nat
  BY LenProperties DEF IInv, TypeOK
<1>4. InOrder
  BY DEF IInv
<1>5. Top.data = obuf
  BY <1>1, <1>4 DEF InOrder
<1>6. /\ Len(obuf) = said - Out + Done
      /\ \A i \in 1 .. Len(obuf) : obuf[i] = Out - Done + i
      /\ \A i \in 1 .. Len(heard) : heard[i] = i
  BY <1>1, <1>4, <1>5 DEF InOrder
<1>7. Done = Top.done
  BY Zenon DEF Done
<1>8. Out \in Nat /\ Out' \in Nat /\ Out' = Out + n
  BY <1>2, <1>3 DEF Out
<1>9. Top.done + n <= Len(obuf)
  BY <1>5
<1>10. Out' <= said
  BY <1>2, <1>3, <1>6, <1>7, <1>8, <1>9
<1>11. \A i \in 1 .. Len(line') : line'[i] = Len(heard) + i
  BY <1>2 DEF Numbered
<1>12. CASE obuf' = <<>> /\ ~OnWrite' /\ Top.done + n = Len(Top.data)
  <2>1. Done' = 0 /\ Len(obuf') = 0 /\ ~OnWrite'
    BY <1>12 DEF Done
  <2>2. Out' = said
    BY <1>2, <1>3, <1>5, <1>6, <1>7, <1>8, <1>12
  <2>3. Len(obuf') = said' - Out' + Done'
    BY <1>3, <1>8, <2>1, <2>2
  <2>4. \A i \in 1 .. Len(obuf') : obuf'[i] = Out' - Done' + i
    BY <2>1
  <2> QED
    BY <1>6, <1>10, <1>11, <2>1, <2>3, <2>4 DEF InOrder
<1>13. CASE /\ UNCHANGED obuf /\ OnWrite'
            /\ Top'.data = Top.data /\ Top'.done = Top.done + n
  <2>1. Done' = Top.done + n
    BY <1>13, Zenon DEF Done
  <2>2. Out' - Done' = Out - Done
    BY <1>2, <1>7, <1>8, <2>1
  <2>3. Len(obuf') = said' - Out' + Done'
    <3>1. obuf' = obuf /\ said' = said /\ Out' = Out + n /\ Done' = Done + n
      BY <1>7, <1>8, <1>13, <2>1
    <3>2. said - Out + Done = said - (Out + n) + (Done + n)
      BY <1>2, <1>3, <1>7, <1>8
    <3> QED
      BY <1>6, <3>1, <3>2
  <2>4. \A i \in 1 .. Len(obuf') : obuf'[i] = Out' - Done' + i
    BY <1>6, <1>13, <2>2
  <2>5. Top'.data = obuf' /\ Top'.done <= Len(obuf')
    BY <1>5, <1>9, <1>13
  <2> QED
    BY <1>6, <1>10, <1>11, <2>3, <2>4, <2>5 DEF InOrder
<1> QED
  BY <1>1, <1>12, <1>13

\* A write gives up, when the socket has taken none or some.
LEMMA WriteFailsStep ==
  ASSUME IInv, stack # <<>>, Top.op = "write", WriteFails, line' \in Seq(Nat),
         UNCHANGED <<tls, ibuf, said, limits, logging, rx, peer, reentered, odd>>
  PROVE  IInv'
<1>1. /\ stack' = Tail(stack) /\ failed' = TRUE /\ bad' = (bad \/ logging)
      /\ obuf' = IF logging \/ LeftOver THEN obuf ELSE <<0>> \o obuf
      /\ UNCHANGED <<ibad, state>>
  BY DEF WriteFails
<1>2. TypeOK /\ obuf \in Seq(Nat) /\ bad' \in BOOLEAN /\ 0 \in Nat
  BY <1>1 DEF IInv, TypeOK
<1>3. obuf' \in Seq(Nat) /\ Spent'
  <2>1. CASE logging
    BY <1>1, <1>2, <2>1 DEF Spent
  <2>2. CASE LeftOver
    BY <1>1, <1>2, <2>2 DEF Spent, LeftOver
  <2>3. CASE ~logging /\ ~LeftOver
    <3>1. obuf' = <<0>> \o obuf
      BY <1>1, <2>3
    <3>2. obuf' \in Seq(Nat) /\ obuf' # <<>> /\ Head(obuf') = 0
      BY <1>2, <3>1, Pushed
    <3> QED
      BY <3>2 DEF Spent, LeftOver
  <2> QED
    BY <2>1, <2>2, <2>3
<1>4. Stacked'
  BY <1>1, <1>3, StackEnds DEF IInv
<1>5. InOrder'
  BY <1>1, OrderGivenUp
<1>6. TypeOK'
  BY <1>1, <1>2, <1>3, <1>4 DEF TypeOK, Stacked, limits, peer
<1>7. Metered'
  BY DEF IInv, Metered, limits
<1> QED
  BY <1>4, <1>5, <1>6, <1>7 DEF IInv

LEMMA WriteDataStep == IInv /\ WriteData => IInv'
<1> SUFFICES ASSUME IInv, WriteData PROVE IInv'
  OBVIOUS
<1>1. /\ stack # <<>> /\ Top.op = "write"
      /\ UNCHANGED <<tls, ibuf, said, limits, logging, rx, peer, odd, reentered>>
  BY DEF WriteData, Trying
<1>2. OnWrite /\ TypeOK /\ Stacked /\ line \in Seq(Nat) /\ Len(line) \in Nat /\ Room \in Nat
  BY <1>1, LenProperties, WireAssumption DEF OnWrite, IInv, TypeOK
<1>3. PICK n \in 1 .. Room - Len(line) :
        /\ Top.done + n <= Len(Top.data)
        /\ Taken(line', line, Top.data, Top.done, n)
        /\ IF Top.done + n = Len(Top.data)
           THEN stack' = Resumed /\ obuf' = <<>> /\ UNCHANGED <<ibad, bad, failed, state>>
           ELSE IF TimeIsUp(Top) THEN WriteFails
           ELSE /\ stack' = <<WaitFor(Progress(n), "out")>> \o Tail(stack)
                /\ UNCHANGED <<sound, state>>
  BY Zenon DEF WriteData, Taken
<1>4. n \in Nat
  BY <1>2
<1>5. Top \in Frame /\ Top.done \in Nat /\ line' \in Seq(Nat)
  BY <1>2, <1>3, <1>4, PartTaken
<1>6. CASE Top.done + n = Len(Top.data)
  <2>1. stack' = Resumed /\ obuf' = <<>> /\ UNCHANGED <<ibad, bad, failed, state>>
    BY <1>3, <1>6
  <2>2. Stacked' /\ (~reentered => ~OnWrite')
    <3>1. Stacked' /\ (~reentered /\ stack' # <<>> => Top'.op = "read")
      BY <1>1, <1>2, <2>1, StackEnds DEF Spent
    <3> QED
      BY <3>1 DEF OnWrite
  <2>3. InOrder'
    BY <1>1, <1>2, <1>3, <1>4, <1>6, <2>1, <2>2, OrderTaken DEF peer
  <2>4. obuf' \in Seq(Nat)
    BY <2>1
  <2> QED
    BY <1>1, <1>2, <1>5, <2>1, <2>2, <2>3, <2>4, RestStays DEF TypeOK
<1>7. CASE Top.done + n # Len(Top.data) /\ TimeIsUp(Top)
  <2>1. WriteFails
    BY <1>3, <1>7
  <2> QED
    BY <1>1, <1>2, <1>5, <2>1, WriteFailsStep
<1>8. CASE Top.done + n # Len(Top.data) /\ ~TimeIsUp(Top)
  <2> DEFINE p == Progress(n)
             g == WaitFor(p, "out")
  <2>1. stack' = <<g>> \o Tail(stack) /\ UNCHANGED <<ibad, bad, failed, state, obuf>>
    BY <1>3, <1>8 DEF sound
  <2>2. /\ p \in Frame /\ p.op = Top.op /\ p.age = Top.age /\ p.data = Top.data
        /\ p.done = Top.done + n
    <3>1. PICK f \in Frame, k \in Nat : f = Top /\ k = Top.done + n
      BY <1>4, <1>5
    <3>2. p = [f EXCEPT !.done = k]
      BY <3>1, Zenon DEF Progress
    <3> HIDE DEF p
    <3>3. /\ p \in Frame /\ p.done = k
          /\ p.op = f.op /\ p.at = f.at /\ p.age = f.age /\ p.left = f.left /\ p.data = f.data
      BY <3>2, ProgressType
    <3> QED
      BY <3>1, <3>3
  <2> HIDE DEF p
  <2>3. ~TimeIsUp(p)
    BY <1>8, <2>2 DEF TimeIsUp, Timeout
  <2>4. /\ g \in Frame /\ g.at = "out" /\ Timeout(g) = Timeout(p) /\ Deadline(g) = Timeout(p)
        /\ g.op = p.op /\ g.age = p.age /\ g.data = p.data /\ g.done = p.done
    BY <2>2, <2>3, WaitForType
  <2> HIDE DEF g
  <2>5. Deadline(g) <= Timeout(g)
    BY <2>4, TimeoutType
  <2>6. g.op = Top.op /\ g.age = Top.age /\ g.data = Top.data /\ g.done = Top.done + n
    BY <2>2, <2>4
  <2>7. Stacked' /\ stack' # <<>> /\ Top' = g
    BY <1>1, <1>2, <2>1, <2>4, <2>5, <2>6, StackGoesOn
  <2>8. OnWrite' /\ Top'.data = Top.data /\ Top'.done = Top.done + n
    BY <1>1, <2>6, <2>7 DEF OnWrite
  <2>9. InOrder'
    BY <1>1, <1>2, <1>3, <1>4, <2>1, <2>8, OrderTaken DEF peer
  <2> QED
    BY <1>1, <1>2, <1>5, <2>1, <2>7, <2>9, RestStays DEF TypeOK
<1> QED
  BY <1>6, <1>7, <1>8

LEMMA WriteWaitsStep == IInv /\ WriteWaits => IInv'
<1> SUFFICES ASSUME IInv, WriteWaits PROVE IInv'
  OBVIOUS
<1>1. stack # <<>> /\ Top.op = "write" /\ UNCHANGED <<unread, reentered>>
  BY DEF WriteWaits, Trying
<1>2. CASE TimeIsUp(Top)
  BY <1>1, <1>2, WriteFailsStep DEF WriteWaits, unread, IInv, TypeOK
<1>3. CASE ~TimeIsUp(Top)
  <2>1. /\ UNCHANGED <<ibad, state, tls, ibuf, obuf, said, limits, logging, rx, line, peer, bad,
                       failed, reentered>>
        /\ odd' \in 0 .. MaxOdd
        /\ stack' = <<WaitFor(Top, "out")>> \o Tail(stack)
    <3>1. /\ odd' = odd \/ Odd
          /\ GoOn("out", FALSE)
          /\ UNCHANGED <<sound, state>>
      BY <1>3 DEF WriteWaits
    <3> QED
      BY <1>1, <3>1, OddType DEF unread, sound, GoOn
  <2>2. Stacked' /\ InOrder'
    BY <1>1, <1>3, <2>1, CallWaits DEF peer
  <2> QED
    BY <2>1, <2>2, RestStays DEF IInv, TypeOK
<1> QED
  BY <1>2, <1>3

\* A call with another count of what is done.
LEMMA InnerType ==
  ASSUME TypeOK, Top \in Frame
  PROVE  /\ Inner \in Frame /\ Inner.op = "write" /\ Inner.data = obuf
         /\ Inner.done = IF obuf = Top.data THEN Top.done ELSE 0
<1>1. PICK f \in Frame, k \in Nat :
        /\ f = Call("write", obuf) /\ k = Top.done
        /\ f.op = "write" /\ f.data = obuf /\ f.done = 0
  <2> DEFINE c == Call("write", obuf)
  <2>1. c \in Frame /\ c.op = "write" /\ c.data = obuf /\ c.done = 0
    BY CallType DEF TypeOK
  <2>2. Top.done \in Nat
    BY FrameParts
  <2> QED
    BY <2>1, <2>2
<1>2. CASE obuf = Top.data
  <2> DEFINE c == Inner
  <2>1. c = [f EXCEPT !.done = k]
    BY <1>1, <1>2, Zenon DEF Inner
  <2> HIDE DEF c
  <2>2. c \in Frame /\ c.op = "write" /\ c.data = obuf /\ c.done = k
    BY <1>1, <2>1, ProgressType
  <2> QED
    BY <1>1, <1>2, <2>2 DEF c
<1>3. CASE obuf # Top.data
  BY <1>1, <1>3, Zenon DEF Inner
<1> QED
  BY <1>2, <1>3

\* What becomes of the calls when a write of TLS has to read first.
LEMMA ReenteredCases ==
  ASSUME WriteReenters
  PROVE  LET g == WaitFor(Top, "in") IN
         \/ /\ stack' = <<Inner>> \o (<<g>> \o Tail(stack)) /\ obuf # <<>>
            /\ reentered' = TRUE /\ UNCHANGED <<sound, state>>
         \/ /\ stack' = <<g>> \o Tail(stack)
            /\ obuf = <<>> \/ bad
            /\ reentered' = (reentered \/ obuf # <<>>) /\ UNCHANGED <<sound, state>>
         \/ Dies /\ UNCHANGED reentered
  BY DEF WriteReenters

LEMMA WriteReentersStep == IInv /\ WriteReenters => IInv'
<1> SUFFICES ASSUME IInv, WriteReenters PROVE IInv'
  OBVIOUS
<1> DEFINE g == WaitFor(Top, "in")
<1>1. /\ stack # <<>> /\ Top.op = "write" /\ ~TimeIsUp(Top) /\ UNCHANGED unread
  BY DEF WriteReenters, Trying
<1>2. odd' \in 0 .. MaxOdd 
  BY OddType DEF WriteReenters
<1>3. OnWrite /\ Stacked /\ TypeOK /\ Top \in Frame
  BY <1>1, TopType DEF IInv, OnWrite
<1>4. CASE /\ stack' = <<Inner>> \o (<<g>> \o Tail(stack))
           /\ reentered' = TRUE /\ UNCHANGED <<sound, state>>
  <2>1. g \in Frame /\ g.op = "write"
    BY <1>1, <1>3, WaitForType
  <2>2. Inner \in Frame /\ Inner.op = "write"
    BY <1>3, InnerType
  <2> HIDE DEF g
  <2>3. Stacked' /\ InOrder'
    BY <1>3, <1>4, <2>1, <2>2, StackReenters, OrderGivenUp
  <2> QED
    BY <1>1, <1>2, <1>3, <1>4, <2>3, RestStays DEF TypeOK, unread, sound
<1>5. CASE /\ stack' = <<g>> \o Tail(stack)
           /\ reentered' = (reentered \/ obuf # <<>>) /\ UNCHANGED <<sound, state>>
  <2>1. Stacked'
    <3>1. /\ g \in Frame /\ g.op = "write" /\ g.age = Top.age
          /\ Deadline(g) = Timeout(g) /\ Timeout(g) \in Nat
      BY <1>1, <1>3, WaitForType, TimeoutType
    <3> HIDE DEF g
    <3>2. Deadline(g) <= Timeout(g) /\ {reentered, reentered'} \subseteq BOOLEAN
      BY <1>3, <1>5, <3>1 DEF TypeOK
    <3> QED
      BY <1>3, <1>5, <3>1, <3>2, StackReplaced
  <2>2. InOrder'
    <3>1. CASE reentered'
      BY <3>1, OrderGivenUp
    <3>2. CASE ~reentered'
      <4>1. reentered' = reentered
        BY <1>3, <1>5, <3>2 DEF TypeOK
      <4> QED
        BY <1>1, <1>5, <4>1, CallWaits DEF peer, unread, sound
    <3> QED
      BY <3>1, <3>2
  <2>3. reentered' \in BOOLEAN
    BY <1>3, <1>5 DEF TypeOK
  <2> QED
    BY <1>1, <1>2, <1>3, <1>5, <2>1, <2>2, <2>3, RestStays DEF TypeOK, unread, sound
<1>6. CASE Dies /\ UNCHANGED reentered
  BY <1>1, <1>2, <1>6, DiesStep
<1> QED
  BY <1>4, <1>5, <1>6, ReenteredCases

LEMMA WriteResetStep == IInv /\ WriteReset => IInv'
<1> SUFFICES ASSUME IInv, WriteReset PROVE IInv'
  OBVIOUS
<1>1. CASE WriteFails
  BY <1>1, WriteFailsStep DEF WriteReset, Trying, unread, IInv, TypeOK
<1>2. CASE Dies
  BY <1>2, DiesStep DEF WriteReset, IInv, TypeOK
<1> QED
  BY <1>1, <1>2 DEF WriteReset
-----------------------------------------------------------------------------
(***************************************************************************)
(* The invariant is inductive: the handshake, and waiting.                 *)
(***************************************************************************)
LEMMA HandshakeEndsStep == IInv /\ HandshakeEnds => IInv'
<1> SUFFICES ASSUME IInv, HandshakeEnds PROVE IInv'
  OBVIOUS
<1>1. /\ stack # <<>> /\ Top.op = "handshake"
      /\ UNCHANGED <<ibuf, said, limits, logging, rx, line, peer, odd, reentered>>
  BY DEF HandshakeEnds, Trying
<1>2. CASE tls' \in {"on", "shut"} /\ stack' = Tail(stack) /\ UNCHANGED <<state, sound>>
  <2>1. Stacked' /\ InOrder'
    BY <1>1, <1>2, OtherEnds DEF peer, sound
  <2> QED
    BY <1>1, <1>2, <2>1, RestStays DEF IInv, TypeOK, sound
<1>3. CASE Dies /\ UNCHANGED tls
  BY <1>1, <1>3, DiesStep DEF unread, IInv, TypeOK
<1> QED
  BY <1>2, <1>3 DEF HandshakeEnds

LEMMA HandshakeWaitsStep == IInv /\ HandshakeWaits => IInv'
<1> SUFFICES ASSUME IInv, HandshakeWaits PROVE IInv'
  OBVIOUS
<1>1. stack # <<>> /\ Top.op = "handshake" /\ UNCHANGED <<unread, reentered>>
  BY DEF HandshakeWaits, Trying
<1>2. CASE Top.age >= TlsTimeout
  BY <1>1, <1>2, DiesStep DEF HandshakeWaits, IInv, TypeOK
<1>3. CASE ~(Top.age >= TlsTimeout)
  <2>1. Odd /\ (\E how \in {"in", "out"} : GoOn(how, FALSE)) /\ UNCHANGED <<state, sound>>
    BY <1>3 DEF HandshakeWaits
  <2>2. PICK how \in {"in", "out"} : stack' = <<WaitFor(Top, how)>> \o Tail(stack)
    BY <2>1 DEF GoOn
  <2>3. ~TimeIsUp(Top)
    <3>1. Top.age \in Nat /\ Timeout(Top) = TlsTimeout /\ TlsTimeout \in Nat
      BY <1>1, TopType, FrameParts, WireAssumption DEF IInv, Timeout
    <3> QED
      BY <1>3, <3>1 DEF TimeIsUp
  <2>4. Stacked' /\ InOrder'
    BY <1>1, <2>1, <2>2, <2>3, CallWaits DEF peer, unread, sound
  <2> QED
    BY <1>1, <2>1, <2>4, OddType, RestStays DEF IInv, TypeOK, unread, sound
<1> QED
  BY <1>2, <1>3

LEMMA SelectReadyStep == IInv /\ SelectReady => IInv'
<1> SUFFICES ASSUME IInv, SelectReady PROVE IInv'
  OBVIOUS
<1> DEFINE g == [Top EXCEPT !.at = "try", !.left = 0]
<1>1. /\ stack # <<>> /\ stack' = <<g>> \o Tail(stack)
      /\ UNCHANGED <<unread, sound, state, odd, reentered>>
  BY DEF SelectReady, Selecting
<1>2. Stacked /\ TypeOK /\ Top \in Frame
  BY <1>1, TopType DEF IInv
<1>3. /\ g \in Frame /\ g.at = "try" /\ g.left = 0
      /\ g.op = Top.op /\ g.age = Top.age /\ g.data = Top.data /\ g.done = Top.done
  <2>1. PICK f \in Frame : f = Top
    BY <1>2
  <2>2. g = [f EXCEPT !.at = "try", !.left = 0]
    BY <2>1
  <2> HIDE DEF g
  <2>3. g \in Frame
    BY <2>2 DEF Frame
  <2>4. /\ g.at = "try" /\ g.left = 0
        /\ g.op = f.op /\ g.age = f.age /\ g.data = f.data /\ g.done = f.done
    BY <2>2, <2>3 DEF Frame
  <2> QED
    BY <2>1, <2>3, <2>4
<1> HIDE DEF g
<1>4. Deadline(g) <= Deadline(Top)
  <2>1. Top.age \in Nat /\ Top.left \in Nat
    BY <1>2, FrameParts
  <2> QED
    BY <1>3, <2>1 DEF Deadline
<1>5. Stacked' /\ stack' # <<>> /\ Top' = g
  BY <1>1, <1>2, <1>3, <1>4, StackGoesOn DEF sound
<1>6. OnWrite' <=> OnWrite
  BY <1>1, <1>3, <1>5 DEF OnWrite
<1>7. InOrder'
  BY <1>1, <1>3, <1>5, <1>6, OrderStays DEF IInv, peer, unread, sound
<1> QED
  BY <1>1, <1>2, <1>5, <1>7, RestStays DEF TypeOK, unread, sound

LEMMA TickStep == IInv /\ Tick => IInv'
<1> SUFFICES ASSUME IInv, Tick PROVE IInv'
  OBVIOUS
<1>1. /\ stack # <<>> /\ Top.left > 0
      /\ UNCHANGED <<unread, sound, state, odd, reentered>>
  BY DEF Tick, Selecting
<1>2. stack' = [i \in DOMAIN stack |-> Older(stack[i], i)]
  BY Zenon DEF Tick, Older
<1>3. TypeOK /\ Stacked
  BY DEF IInv
<1>4. /\ Stacked' /\ stack' # <<>>
      /\ Top'.op = Top.op /\ Top'.data = Top.data /\ Top'.done = Top.done
  BY <1>1, <1>2, <1>3, StackAges DEF sound
<1>5. OnWrite' <=> OnWrite
  BY <1>1, <1>4 DEF OnWrite
<1>6. InOrder'
  BY <1>1, <1>4, <1>5, OrderStays DEF IInv, peer, unread, sound
<1> QED
  BY <1>1, <1>3, <1>4, <1>6, RestStays DEF TypeOK, unread, sound

LEMMA SelectExpiresStep == IInv /\ SelectExpires => IInv'
<1> SUFFICES ASSUME IInv, SelectExpires PROVE IInv'
  OBVIOUS
<1>1. stack # <<>> /\ UNCHANGED <<unread, odd, reentered>>
  BY DEF SelectExpires, Selecting
<1>2. Top.op \in {"read", "write", "handshake"}
  BY <1>1, TopType, FrameParts DEF IInv
<1>3. CASE Top.op = "read"
  BY <1>1, <1>3, ReadFailsStep DEF SelectExpires
<1>4. CASE Top.op = "write"
  BY <1>1, <1>4, WriteFailsStep DEF SelectExpires, unread, IInv, TypeOK
<1>5. CASE Top.op = "handshake"
  BY <1>1, <1>5, DiesStep DEF SelectExpires, IInv, TypeOK
<1> QED
  BY <1>2, <1>3, <1>4, <1>5
-----------------------------------------------------------------------------
(***************************************************************************)
(* The invariant is inductive: the peer.                                   *)
(***************************************************************************)
LEMMA PeerSendsStep == IInv /\ PeerSends => IInv'
<1> SUFFICES ASSUME IInv, PeerSends PROVE IInv'
  OBVIOUS
<1>1. /\ sent < Requests /\ sent' = sent + 1 /\ rx' = rx + 1
      /\ UNCHANGED <<stack, tls, stream, limits, state, logging, line, closed, heard, odd,
                     failed, reentered>>
  BY DEF PeerSends, server
<1>2. TypeOK /\ sent \in 0 .. Requests /\ Requests \in Nat /\ rx \in Nat
  BY WireAssumption DEF IInv, TypeOK
<1>3. sent' \in 0 .. Requests /\ rx' \in Nat
  BY <1>1, <1>2
<1>4. TypeOK'
  BY <1>1, <1>2, <1>3 DEF TypeOK, stream, limits
<1>5. Metered'
  BY <1>1 DEF IInv, Metered, limits
<1>6. Stacked'
  BY <1>1, StackStays DEF IInv, stream
<1>7. InOrder'
  BY <1>1, OrderStays DEF IInv, stream, OnWrite, Top
<1> QED
  BY <1>4, <1>5, <1>6, <1>7 DEF IInv

LEMMA PeerReadsStep == IInv /\ PeerReads => IInv'
<1> SUFFICES ASSUME IInv, PeerReads PROVE IInv'
  OBVIOUS
<1>1. /\ line # <<>> /\ heard' = Append(heard, Head(line)) /\ line' = Tail(line)
      /\ UNCHANGED <<stack, tls, stream, limits, state, logging, rx, closed, sent, odd,
                     failed, reentered>>
  BY DEF PeerReads, server
<1>2. TypeOK /\ line \in Seq(Nat) /\ heard \in Seq(Nat) /\ Len(heard) \in Nat
  BY LenProperties DEF IInv, TypeOK
<1>3. /\ line' \in Seq(Nat) /\ Len(line') = Len(line) - 1 /\ Len(line) \in Nat /\ Len(line) >= 1
      /\ Head(line) = line[1] /\ Head(line) \in Nat
      /\ \A i \in 1 .. Len(line) - 1 : line'[i] = line[i + 1]
  BY <1>1, <1>2, Popped
<1>4. PICK h \in Nat : h = Head(line)
  BY <1>3
<1>5. heard' = Append(heard, h)
  BY <1>1, <1>4
<1>6. /\ heard' \in Seq(Nat) /\ Len(heard') = Len(heard) + 1 /\ heard'[Len(heard) + 1] = h
      /\ \A i \in 1 .. Len(heard) : heard'[i] = heard[i]
  BY <1>2, <1>5, AppendProperties
<1>7. TypeOK'
  BY <1>1, <1>2, <1>3, <1>6 DEF TypeOK, stream, limits
<1>8. Metered'
  BY <1>1 DEF IInv, Metered, limits
<1>9. Stacked'
  BY <1>1, StackStays DEF IInv, stream
<1>10. InOrder'
  <2>1. SUFFICES ASSUME ~reentered, ~failed PROVE InOrder'
    BY <1>1 DEF InOrder
  <2>2. Out' = Out
    BY <1>2, <1>3, <1>6 DEF Out
  <2>3. Done' = Done /\ (OnWrite' <=> OnWrite) /\ Top' = Top
    BY <1>1 DEF Done, OnWrite, Top
  <2>4. InOrder
    BY DEF IInv
  <2>5. \A i \in 1 .. Len(line) : line[i] = Len(heard) + i
    BY <2>1, <2>4 DEF InOrder
  <2>6. ASSUME NEW i \in 1 .. Len(heard') PROVE heard'[i] = i
    <3>1. CASE i \in 1 .. Len(heard)
      <4>1. heard[i] = i
        BY <2>1, <2>4, <3>1 DEF InOrder
      <4> QED
        BY <1>6, <3>1, <4>1
    <3>2. CASE i = Len(heard) + 1
      <4>1. line[1] = Len(heard) + 1
        BY <1>3, <2>5
      <4> QED
        BY <1>3, <1>4, <1>6, <3>2, <4>1
    <3> QED
      BY <1>2, <1>6, <3>1, <3>2
  <2>7. ASSUME NEW i \in 1 .. Len(line') PROVE line'[i] = Len(heard') + i
    <3>1. line'[i] = line[i + 1] /\ i + 1 \in 1 .. Len(line)
      BY <1>3
    <3>2. line[i + 1] = Len(heard) + (i + 1)
      BY <2>5, <3>1
    <3> QED
      BY <1>2, <1>6, <3>1, <3>2
  <2>8. Out <= said
    BY <2>1, <2>4 DEF InOrder
  <2>9. /\ Len(obuf) = said - Out + Done
        /\ \A i \in 1 .. Len(obuf) : obuf[i] = Out - Done + i
    BY <2>1, <2>4 DEF InOrder
  <2>10. OnWrite => Top.data = obuf /\ Top.done <= Len(obuf)
    BY <2>1, <2>4 DEF InOrder
  <2>11. UNCHANGED <<obuf, said>>
    BY <1>1 DEF stream
  <2> QED
    BY <2>2, <2>3, <2>6, <2>7, <2>8, <2>9, <2>10, <2>11 DEF InOrder
<1> QED
  BY <1>7, <1>8, <1>9, <1>10 DEF IInv

LEMMA PeerClosesStep == IInv /\ PeerCloses => IInv'
<1> SUFFICES ASSUME IInv, PeerCloses PROVE IInv'
  OBVIOUS
<1>1. /\ closed' = TRUE
      /\ UNCHANGED <<stack, tls, stream, limits, state, logging, rx, line, sent, heard, odd,
                     failed, reentered>>
  BY DEF PeerCloses, server
<1>2. TypeOK'
  BY <1>1 DEF IInv, TypeOK, stream, limits
<1>3. Metered'
  BY <1>1 DEF IInv, Metered, limits
<1>4. Stacked'
  BY <1>1, StackStays DEF IInv, stream
<1>5. InOrder'
  BY <1>1, OrderStays DEF IInv, stream, OnWrite, Top
<1> QED
  BY <1>2, <1>3, <1>4, <1>5 DEF IInv

LEMMA StutterStep == IInv /\ UNCHANGED vars => IInv'
<1> SUFFICES ASSUME IInv, UNCHANGED vars PROVE IInv'
  OBVIOUS
<1>1. UNCHANGED <<stack, tls, stream, limits, state, logging, rx, line, peer, odd, failed,
                  reentered>>
  BY DEF vars
<1>2. Stacked'
  BY <1>1, StackStays DEF IInv, stream
<1>3. InOrder'
  BY <1>1, OrderStays DEF IInv, stream, peer, OnWrite, Top
<1> QED
  BY <1>1, <1>2, <1>3, RestStays DEF IInv, TypeOK, stream

\* No step leaves the invariant.
LEMMA NextIInv == IInv /\ [Next]_vars => IInv'
<1> SUFFICES ASSUME IInv, [Next]_vars PROVE IInv'
  OBVIOUS
<1>1. CASE Session
  BY <1>1, ServeStep, FlushStep, TransferErrorStep, ParserThrowsStep, SetMaxReadStep,
     UnderflowStep, StarttlsStep DEF Session
<1>2. CASE Reading
  BY <1>2, ReadDataStep, ReadEndStep, ReadResetStep, UseOfShutStep, ReadWaitsStep DEF Reading
<1>3. CASE Writing
  BY <1>3, WriteDataStep, WriteWaitsStep, WriteReentersStep, WriteResetStep DEF Writing
<1>4. CASE Handshake
  BY <1>4, HandshakeEndsStep, HandshakeWaitsStep DEF Handshake
<1>5. CASE Waiting
  BY <1>5, SelectReadyStep, TickStep, SelectExpiresStep DEF Waiting
<1>6. CASE Peer
  BY <1>6, PeerSendsStep, PeerReadsStep, PeerClosesStep DEF Peer
<1>7. CASE UNCHANGED vars
  BY <1>7, StutterStep
<1> QED
  BY <1>1, <1>2, <1>3, <1>4, <1>5, <1>6, <1>7 DEF Next

\* The invariant holds of every connection.
LEMMA AlwaysIInv == Spec => []IInv
<1>1. Init => IInv
  BY InitIInv
<1>2. IInv /\ [Next]_vars => IInv'
  BY NextIInv
<1> QED
  BY <1>1, <1>2, PTL DEF Spec
-----------------------------------------------------------------------------
(***************************************************************************)
(* Nothing is left out: a second invariant, which holds also after a write *)
(* that has failed and with flushes inside writes.                         *)
(***************************************************************************)
\* Nothing comes before it, or what comes before it is in seen.
Preceded(n, seen) == n <= 1 \/ n - 1 \in seen

\* Each is preceded, by what is seen or by the one before it.
Chained(s, seen) ==
  \A k \in 1 .. Len(s) : Preceded(s[k], seen) \/ (k > 1 /\ s[k - 1] = s[k] - 1)

\* What comes after n will be preceded, once s is seen.
Ended(s, n, seen) == Preceded(n + 1, seen) \/ (s # <<>> /\ s[Len(s)] = n)

\* A write may go on from where it is.
Sound(f, n, seen) ==
  /\ Chained(f.data, seen) /\ Ended(f.data, n, seen)
  /\ f.done >= 1 => f.data[f.done] \in seen

\* So may all the writes under way.
Kept(t, n, seen) == \A i \in 1 .. Len(t) : t[i].op = "write" => Sound(t[i], n, seen)

Seen == Range(Wired)

Whole == /\ NothingLeftOut
         /\ Chained(obuf, Seen) /\ Ended(obuf, said, Seen) /\ Kept(stack, said, Seen)

\* To have seen more does no harm.
LEMMA SeesMore ==
  ASSUME NEW seen, NEW more, seen \subseteq more, NEW s, NEW t, NEW n
  PROVE  /\ Chained(s, seen) => Chained(s, more)
         /\ Ended(s, n, seen) => Ended(s, n, more)
         /\ Kept(t, n, seen) => Kept(t, n, more)
<1>1. \A u : Chained(u, seen) => Chained(u, more)
  BY DEF Chained, Preceded
<1>2. \A u : Ended(u, n, seen) => Ended(u, n, more)
  BY DEF Ended, Preceded
<1>3. \A f : Sound(f, n, seen) => Sound(f, n, more)
  BY <1>1, <1>2 DEF Sound
<1> QED
  BY <1>1, <1>2, <1>3 DEF Kept

\* One more in front of the others, or after them.
LEMMA ChainedInFront ==
  ASSUME NEW seen, NEW s \in Seq(Nat), NEW n, Chained(s, seen), Ended(s, n, seen)
  PROVE  Chained(<<0>> \o s, seen) /\ Ended(<<0>> \o s, n, seen)
<1> DEFINE t == <<0>> \o s
<1>1. 0 \in Nat
  OBVIOUS
<1>2. /\ t \in Seq(Nat) /\ t # <<>> /\ Len(t) = Len(s) + 1 /\ Len(s) \in Nat /\ t[1] = 0
      /\ \A i \in 1 .. Len(s) : t[i + 1] = s[i]
  BY <1>1, Pushed
<1> HIDE DEF t
<1>3. ASSUME NEW k \in 1 .. Len(t)
      PROVE  Preceded(t[k], seen) \/ (k > 1 /\ t[k - 1] = t[k] - 1)
  <2>1. CASE k = 1
    BY <1>2, <2>1 DEF Preceded
  <2>2. CASE k # 1
    <3>1. PICK j \in 1 .. Len(s) : k = j + 1
      <4>1. k - 1 \in 1 .. Len(s) /\ k = (k - 1) + 1
        BY <1>2, <2>2
      <4> QED
        BY <4>1
    <3>2. Preceded(s[j], seen) \/ (j > 1 /\ s[j - 1] = s[j] - 1)
      BY DEF Chained
    <3>3. t[k] = s[j] /\ k > 1
      BY <1>2, <3>1
    <3>4. CASE j > 1 /\ s[j - 1] = s[j] - 1
      <4>1. j - 1 \in 1 .. Len(s) /\ (j - 1) + 1 = k - 1
        BY <1>2, <3>1, <3>4
      <4>2. t[k - 1] = s[j - 1]
        BY <1>2, <4>1
      <4> QED
        BY <3>3, <3>4, <4>2
    <3> QED
      BY <3>2, <3>3, <3>4
  <2> QED
    BY <2>1, <2>2
<1>4. Ended(t, n, seen)
  <2>1. CASE s # <<>> /\ s[Len(s)] = n
    <3>1. Len(s) \in 1 .. Len(s)
      BY <2>1, OnTop
    <3>2. t[Len(t)] = s[Len(s)]
      BY <1>2, <3>1
    <3> QED
      BY <1>2, <2>1, <3>2 DEF Ended
  <2> QED
    BY <2>1 DEF Ended
<1> QED
  BY <1>3, <1>4 DEF Chained, t

LEMMA ChainedAfter ==
  ASSUME NEW seen, NEW s \in Seq(Nat), NEW n \in Nat, Chained(s, seen), Ended(s, n, seen)
  PROVE  Chained(Append(s, n + 1), seen) /\ Ended(Append(s, n + 1), n + 1, seen)
<1> DEFINE t == Append(s, n + 1)
<1>1. /\ t \in Seq(Nat) /\ Len(t) = Len(s) + 1 /\ Len(s) \in Nat /\ t[Len(s) + 1] = n + 1
      /\ \A i \in 1 .. Len(s) : t[i] = s[i]
  BY AppendProperties
<1> HIDE DEF t
<1>2. t # <<>>
  BY <1>1
<1>3. ASSUME NEW k \in 1 .. Len(t)
      PROVE  Preceded(t[k], seen) \/ (k > 1 /\ t[k - 1] = t[k] - 1)
  <2>1. CASE k \in 1 .. Len(s)
    <3>1. Preceded(s[k], seen) \/ (k > 1 /\ s[k - 1] = s[k] - 1)
      BY <2>1 DEF Chained
    <3>2. k > 1 => k - 1 \in 1 .. Len(s)
      BY <1>1, <2>1
    <3>3. t[k] = s[k] /\ (k > 1 => t[k - 1] = s[k - 1])
      BY <1>1, <2>1, <3>2
    <3> QED
      BY <3>1, <3>3
  <2>2. CASE k = Len(s) + 1
    <3>1. t[k] = n + 1
      BY <1>1, <2>2
    <3>2. CASE s # <<>> /\ s[Len(s)] = n
      <4>1. Len(s) \in 1 .. Len(s)
        BY <3>2, OnTop
      <4>2. t[k - 1] = n /\ k > 1
        BY <1>1, <2>2, <3>2, <4>1
      <4> QED
        BY <3>1, <4>2
    <3> QED
      BY <3>1, <3>2 DEF Ended
  <2> QED
    BY <1>1, <2>1, <2>2
<1>4. Ended(t, n + 1, seen)
  BY <1>1, <1>2 DEF Ended
<1> QED
  BY <1>3, <1>4 DEF Chained, t

\* A stack with another call on top, one more, one less.
LEMMA KeptReplaced ==
  ASSUME NEW s \in Seq(Frame), s # <<>>, NEW g \in Frame, NEW n, NEW seen, Kept(s, n, seen),
         g.op = "write" => Sound(g, n, seen)
  PROVE  Kept(<<g>> \o Tail(s), n, seen)
<1> DEFINE t == <<g>> \o Tail(s)
<1>1. /\ t \in Seq(Frame) /\ Len(t) = Len(s) /\ Len(s) \in Nat /\ Len(s) >= 1 /\ t[1] = g
      /\ \A i \in 2 .. Len(s) : t[i] = s[i]
  BY Replaced
<1> HIDE DEF t
<1>2. \A i \in 1 .. Len(t) : t[i] = g \/ (i \in 1 .. Len(s) /\ t[i] = s[i])
  BY <1>1
<1>3. Kept(t, n, seen)
  BY <1>2 DEF Kept
<1> QED
  BY <1>3 DEF t

\* The one on top, and another like it.
LEMMA KeptTop ==
  ASSUME NEW s \in Seq(Frame), s # <<>>, NEW n, NEW seen, Kept(s, n, seen), NEW g,
         g.op = Head(s).op, g.data = Head(s).data, g.done = Head(s).done
  PROVE  g.op = "write" => Sound(g, n, seen)
<1>1. Len(s) \in Nat /\ Len(s) >= 1 /\ Head(s) = s[1]
  BY OnTop
<1>2. Head(s).op = "write" => Sound(Head(s), n, seen)
  BY <1>1 DEF Kept
<1> QED
  BY <1>2 DEF Sound

LEMMA KeptPushed ==
  ASSUME NEW s \in Seq(Frame), NEW g \in Frame, NEW n, NEW seen, Kept(s, n, seen),
         Sound(g, n, seen)
  PROVE  Kept(<<g>> \o s, n, seen)
<1> DEFINE t == <<g>> \o s
<1>1. /\ t \in Seq(Frame) /\ Len(t) = Len(s) + 1 /\ Len(s) \in Nat /\ t[1] = g
      /\ \A i \in 1 .. Len(s) : t[i + 1] = s[i]
  BY Pushed
<1> HIDE DEF t
<1>2. ASSUME NEW i \in 1 .. Len(t), i # 1 PROVE i - 1 \in 1 .. Len(s) /\ t[i] = s[i - 1]
  <2>1. i - 1 \in 1 .. Len(s) /\ (i - 1) + 1 = i
    BY <1>1, <1>2
  <2> QED
    BY <1>1, <2>1
<1>3. Kept(t, n, seen)
  BY <1>1, <1>2 DEF Kept
<1> QED
  BY <1>3 DEF t

LEMMA KeptPopped ==
  ASSUME NEW s \in Seq(Frame), s # <<>>, NEW n, NEW seen, Kept(s, n, seen)
  PROVE  Kept(Tail(s), n, seen)
<1> DEFINE t == Tail(s)
<1>1. /\ Len(t) = Len(s) - 1 /\ Len(s) \in Nat
      /\ \A i \in 1 .. Len(s) - 1 : t[i] = s[i + 1]
  BY Popped
<1> HIDE DEF t
<1>2. \A i \in 1 .. Len(t) : i + 1 \in 1 .. Len(s) /\ t[i] = s[i + 1]
  BY <1>1
<1>3. Kept(t, n, seen)
  BY <1>2 DEF Kept
<1> QED
  BY <1>3 DEF t

\* A call alone, which is not a write or begins to write what is in the output stream.
LEMMA KeptAlone ==
  ASSUME NEW g \in Frame, NEW n, NEW seen, g.op = "write" => Sound(g, n, seen)
  PROVE  Kept(<<g>>, n, seen)
<1>1. Len(<<g>>) = 1 /\ <<g>>[1] = g
  OBVIOUS
<1> QED
  BY <1>1 DEF Kept

\* Nothing is heard, said or written.
LEMMA WholeStays ==
  ASSUME Whole, UNCHANGED <<heard, line, said, obuf>>, Kept(stack', said, Seen)
  PROVE  Whole'
<1>1. Seen' = Seen /\ NothingLeftOut'
  BY DEF Whole, NothingLeftOut, Wired, Seen
<1> QED
  BY <1>1 DEF Whole, Chained, Ended, Kept

LEMMA WholeUntouched ==
  ASSUME Whole, UNCHANGED <<heard, line, said, obuf, stack>> PROVE Whole'
  BY WholeStays DEF Whole

\* A call ends that has nothing to do with the output.
LEMMA WholePops ==
  ASSUME IInv, Whole, stack # <<>>, UNCHANGED <<heard, line, said, obuf>>, stack' = Tail(stack)
  PROVE  Whole'
<1>1. Kept(stack', said, Seen)
  BY KeptPopped DEF IInv, Stacked, Whole
<1> QED
  BY <1>1, WholeStays

\* The call on top waits, or tries again.
LEMMA WholeWaits ==
  ASSUME IInv, Whole, stack # <<>>, UNCHANGED <<heard, line, said, obuf>>, NEW g \in Frame,
         g.op = Top.op, g.data = Top.data, g.done = Top.done, stack' = <<g>> \o Tail(stack)
  PROVE  Whole'
<1>1. stack \in Seq(Frame) /\ Kept(stack, said, Seen)
  BY DEF IInv, Stacked, Whole
<1>2. g.op = "write" => Sound(g, said, Seen)
  BY <1>1, KeptTop DEF Top
<1>3. Kept(stack', said, Seen)
  BY <1>1, <1>2, KeptReplaced
<1> QED
  BY <1>3, WholeStays

\* What is in the output stream can be written.
LEMMA BeginsSound ==
  ASSUME NEW s, NEW n, NEW seen, Chained(s, seen), Ended(s, n, seen),
         NEW g, g.data = s, g.done = 0
  PROVE  Sound(g, n, seen)
  BY DEF Sound

LEMMA FlushIsSound ==
  ASSUME IInv, Whole, NEW g \in Frame, g.data = obuf, g.done = 0
  PROVE  Sound(g, said, Seen)
  BY BeginsSound DEF Whole

\* The call on top waits, and what was said is flushed first.
LEMMA WholeFlushes ==
  ASSUME IInv, Whole, stack # <<>>, UNCHANGED <<heard, line, said, obuf>>, NEW g \in Frame,
         g.op = Top.op, g.data = Top.data, g.done = Top.done, NEW c \in Frame,
         Sound(c, said, Seen), stack' = <<c>> \o (<<g>> \o Tail(stack))
  PROVE  Whole'
<1> DEFINE s == <<g>> \o Tail(stack)
<1>1. stack \in Seq(Frame) /\ Kept(stack, said, Seen)
  BY DEF IInv, Stacked, Whole
<1>2. Kept(s, said, Seen) /\ s \in Seq(Frame)
  <2>1. g.op = "write" => Sound(g, said, Seen)
    BY <1>1, KeptTop DEF Top
  <2> QED
    BY <1>1, <2>1, KeptReplaced, Replaced
<1> HIDE DEF s
<1>3. Kept(<<c>> \o s, said, Seen)
  BY <1>2, KeptPushed
<1> QED
  BY <1>3, WholeStays DEF s

\* The call on top goes on.
LEMMA WholeGoesOn ==
  ASSUME IInv, Whole, stack # <<>>, UNCHANGED <<heard, line, said, obuf>>, ~TimeIsUp(Top),
         NEW how \in {"in", "out"}, NEW hook \in BOOLEAN, GoOn(how, hook)
  PROVE  Whole'
<1> DEFINE g == WaitFor(Top, how)
           c == Call("write", obuf)
<1>1. Top \in Frame /\ obuf \in Seq(Nat)
  BY TopType DEF IInv, TypeOK
<1>2. g \in Frame /\ g.op = Top.op /\ g.data = Top.data /\ g.done = Top.done
  BY <1>1, WaitForType
<1>3. c \in Frame /\ c.data = obuf /\ c.done = 0
  BY <1>1, CallType
<1>4. stack' = <<g>> \o Tail(stack) \/ stack' = <<c>> \o (<<g>> \o Tail(stack))
  BY DEF GoOn, Hooked
<1> HIDE DEF g, c
<1>5. Sound(c, said, Seen)
  BY <1>3, FlushIsSound
<1> QED
  BY <1>2, <1>3, <1>4, <1>5, WholeWaits, WholeFlushes

\* A write gives up, when the peer has got none or some of it.
LEMMA WholeFails ==
  ASSUME IInv, Whole, stack # <<>>, WriteFails, said' = said,
         NothingLeftOut', Seen \subseteq Seen'
  PROVE  Whole'
<1>1. /\ stack \in Seq(Frame) /\ obuf \in Seq(Nat) /\ stack' = Tail(stack)
      /\ obuf' = obuf \/ obuf' = <<0>> \o obuf
  BY DEF IInv, TypeOK, WriteFails
<1>2. Chained(obuf, Seen') /\ Ended(obuf, said, Seen') /\ Kept(stack, said, Seen')
  BY SeesMore DEF Whole
<1>3. Chained(obuf', Seen') /\ Ended(obuf', said, Seen')
  BY <1>1, <1>2, ChainedInFront
<1>4. Kept(stack', said, Seen')
  BY <1>1, <1>2, KeptPopped
<1> QED
  BY <1>3, <1>4 DEF Whole, Chained, Ended, Kept

\* More of the data of the write on top goes out.
LEMMA HeardMore ==
  ASSUME IInv, Whole, OnWrite, NEW n \in Nat, n >= 1, Top.done + n <= Len(Top.data),
         Taken(line', line, Top.data, Top.done, n), heard' = heard
  PROVE  NothingLeftOut' /\ Seen \subseteq Seen' /\ Top.data[Top.done + n] \in Seen'
<1> DEFINE W == Wired
           part == SubSeq(Top.data, Top.done + 1, Top.done + n)
<1>1. PICK data \in Seq(Nat), d \in Nat : data = Top.data /\ d = Top.done
  BY TopType, FrameParts DEF IInv, OnWrite
<1>2. heard \in Seq(Nat) /\ line \in Seq(Nat) /\ W \in Seq(Nat)
  BY ConcatProperties DEF IInv, TypeOK, Wired
<1>3. PICK m : m = W' /\ Taken(m, W, data, d, n)
  <2>1. part \in Seq(Nat)
    BY <1>1, PartOf
  <2>2. line' = line \o part
    BY DEF Taken
  <2> HIDE DEF part
  <2>3. (heard \o line) \o part = heard \o (line \o part)
    BY <1>2, <2>1, ConcatAssociative
  <2>4. W' = heard \o (line \o part)
    BY <2>2, Zenon DEF Wired
  <2>5. W' = W \o part
    BY <2>3, <2>4, Zenon DEF Wired
  <2> QED
    BY <1>1, <2>5 DEF Taken, part
<1> DEFINE k == Len(W)
<1>4. m \in Seq(Nat) /\ Len(m) = k + n /\ k \in Nat
  BY <1>1, <1>2, <1>3, TakenLen
<1>5. \A x : x \in Seen <=> \E p \in 1 .. k : W[p] = x
  BY <1>2, LenProperties DEF Seen, Range
<1>6. \A x : x \in Seen' <=> \E p \in 1 .. k + n : m[p] = x
  <2>1. DOMAIN m = 1 .. k + n
    BY <1>4, LenProperties
  <2>2. Seen' = {m[p] : p \in DOMAIN m}
    BY <1>3 DEF Seen, Range
  <2> QED
    BY <2>1, <2>2
<1>7. NothingLeftOut
  BY DEF Whole
<1>8. \A p \in 1 .. k : W[p] > 1 => \E q \in 1 .. p - 1 : W[q] = W[p] - 1
  BY <1>7 DEF NothingLeftOut
<1>9. Chained(data, Seen) /\ (d >= 1 => data[d] \in Seen)
  <2>1. stack \in Seq(Frame) /\ Kept(stack, said, Seen)
    BY DEF IInv, Stacked, Whole
  <2>2. Sound(Top, said, Seen)
    BY <2>1, KeptTop DEF Top, OnWrite
  <2> QED
    BY <1>1, <2>2 DEF Sound
<1> HIDE DEF W, k
<1>10. ASSUME NEW i \in 1 .. k PROVE m[i] = W[i]
  <2>1. i \in 1 .. Len(m) /\ ~(i - Len(W) \in 1 .. n)
    BY <1>4 DEF k
  <2> QED
    BY <1>1, <1>2, <1>3, <2>1, TakenAt
<1>11. ASSUME NEW j \in 1 .. n PROVE m[k + j] = data[d + j]
  <2>1. PICK i \in 1 .. Len(m) : i = k + j
    BY <1>4
  <2>2. ~(i \in 1 .. Len(W)) /\ i - Len(W) = j
    BY <1>4, <2>1 DEF k
  <2>3. d + n <= Len(data)
    BY <1>1
  <2>4. \/ i \in 1 .. Len(W) /\ m[i] = W[i]
        \/ m[i] = data[d + (i - Len(W))]
    BY <1>2, <1>3, <2>3, TakenAt
  <2> QED
    BY <2>1, <2>2, <2>4
<1>12. ASSUME NEW i \in 1 .. k + n, m[i] > 1
       PROVE  \E q \in 1 .. i - 1 : m[q] = m[i] - 1
  <2>1. CASE i \in 1 .. k
    <3>1. m[i] = W[i]
      BY <1>10, <2>1
    <3>2. PICK q \in 1 .. i - 1 : W[q] = W[i] - 1
      BY <1>8, <1>12, <2>1, <3>1
    <3>3. q \in 1 .. k
      BY <1>4, <2>1
    <3>4. m[q] = W[q]
      BY <1>10, <3>3
    <3> QED
      BY <3>1, <3>2, <3>4
  <2>2. CASE i \notin 1 .. k
    <3>1. PICK j \in 1 .. n : i = k + j
      <4>1. i - k \in 1 .. n /\ i = k + (i - k)
        BY <1>4, <2>2
      <4> QED
        BY <4>1
    <3>2. m[i] = data[d + j] /\ d + j \in 1 .. Len(data)
      <4>1. m[k + j] = data[d + j]
        BY <1>11
      <4>2. d + n <= Len(data) /\ Len(data) \in Nat
        BY <1>1, LenProperties
      <4> QED
        BY <3>1, <4>1, <4>2
    <3>3. \/ data[d + j] <= 1 \/ data[d + j] - 1 \in Seen
          \/ d + j > 1 /\ data[(d + j) - 1] = data[d + j] - 1
      BY <1>9, <3>2 DEF Chained, Preceded
    <3>4. CASE m[i] - 1 \in Seen
      <4>1. PICK q \in 1 .. k : W[q] = m[i] - 1
        BY <1>5, <3>4
      <4>2. m[q] = W[q] /\ q \in 1 .. i - 1
        BY <1>4, <1>10, <3>1
      <4> QED
        BY <4>1, <4>2
    <3>5. CASE d + j > 1 /\ data[(d + j) - 1] = m[i] - 1
      <4>1. CASE j = 1
        <5>1. d >= 1 /\ (d + j) - 1 = d
          BY <3>5, <4>1
        <5>2. m[i] - 1 \in Seen
          BY <1>9, <3>5, <5>1
        <5> QED
          BY <3>4, <5>2
      <4>2. CASE j # 1
        <5>1. PICK h \in 1 .. n : h = j - 1
          BY <4>2
        <5>2. m[k + h] = data[d + h]
          BY <1>11
        <5>3. d + h = (d + j) - 1 /\ k + h = i - 1 /\ i - 1 \in 1 .. i - 1
          BY <1>4, <3>1, <5>1
        <5> QED
          BY <3>5, <5>2, <5>3
      <4> QED
        BY <4>1, <4>2
    <3>6. m[i] \in Nat
      BY <1>4, ElementOfSeq
    <3> QED
      BY <1>12, <3>2, <3>3, <3>4, <3>5, <3>6
  <2> QED
    BY <2>1, <2>2
<1>13. NothingLeftOut'
  <2>1. m = Wired' /\ Len(m) = k + n
    BY <1>3, <1>4 DEF W
  <2> QED
    BY <1>12, <2>1 DEF NothingLeftOut
<1>14. Seen \subseteq Seen'
  <2>1. ASSUME NEW x \in Seen PROVE x \in Seen'
    <3>1. PICK p \in 1 .. k : W[p] = x
      BY <1>5
    <3>2. m[p] = x /\ p \in 1 .. k + n
      BY <1>4, <1>10, <3>1
    <3> QED
      BY <1>6, <3>2
  <2> QED
    BY <2>1
<1>15. data[d + n] \in Seen'
  <2>1. m[k + n] = data[d + n] /\ k + n \in 1 .. k + n
    BY <1>4, <1>11
  <2> QED
    BY <1>6, <2>1
<1> QED
  BY <1>1, <1>13, <1>14, <1>15

\* The frames under a write that is done.
LEMMA KeptResumed ==
  ASSUME stack \in Seq(Frame), stack # <<>>, NEW n, NEW seen, Kept(stack, n, seen)
  PROVE  Kept(Resumed, n, seen)
<1> DEFINE t == Tail(stack)
<1>1. t \in Seq(Frame) /\ Len(t) = Len(stack) - 1 /\ Len(stack) \in Nat /\ Kept(t, n, seen)
  BY Popped, KeptPopped
<1>2. CASE Resumed = t
  BY <1>1, <1>2
<1>3. CASE Resumed # t
  <2> DEFINE g == [t[1] EXCEPT !.done = 0]
  <2>1. Len(stack) > 1 /\ Resumed = [t EXCEPT ![1] = g]
    BY <1>3 DEF Resumed
  <2> HIDE DEF t
  <2>2. 1 \in 1 .. Len(t) /\ t[1] \in Frame
    BY <1>1, <2>1, ElementOfSeq
  <2>3. g \in Frame /\ g.op = t[1].op /\ g.data = t[1].data /\ g.done = 0
    <3>1. PICK f \in Frame, k \in Nat : f = t[1] /\ k = 0
      BY <2>2
    <3>2. g = [f EXCEPT !.done = k]
      BY <3>1
    <3> HIDE DEF g
    <3> QED
      BY <3>1, <3>2, ProgressType
  <2> HIDE DEF g
  <2> DEFINE s == [t EXCEPT ![1] = g]
  <2>4. Len(s) = Len(t) /\ \A j \in 1 .. Len(t) : s[j] = IF j = 1 THEN g ELSE t[j]
    BY <1>1, <2>2, <2>3, ExceptSeq
  <2> HIDE DEF s
  <2>5. g.op = "write" => Sound(g, n, seen)
    <3>1. t[1].op = "write" => Sound(t[1], n, seen)
      BY <1>1, <2>2 DEF Kept
    <3> QED
      BY <2>3, <3>1 DEF Sound
  <2>6. Kept(s, n, seen)
    BY <1>1, <2>4, <2>5 DEF Kept
  <2> QED
    BY <2>1, <2>6 DEF s
<1> QED
  BY <1>2, <1>3

\* A tick changes nothing of a write.
LEMMA WholeAges ==
  ASSUME IInv, Whole, stack # <<>>, Top.left > 0, UNCHANGED <<heard, line, said, obuf>>,
         stack' = [i \in DOMAIN stack |-> Older(stack[i], i)]
  PROVE  Whole'
<1>1. /\ stack \in Seq(Frame) /\ Len(stack) \in Nat /\ Top = stack[1]
      /\ DOMAIN stack = 1 .. Len(stack)
  BY TopType, LenProperties DEF IInv
<1>2. ASSUME NEW i \in 1 .. Len(stack)
      PROVE  /\ stack'[i].op = stack[i].op /\ stack'[i].data = stack[i].data
             /\ stack'[i].done = stack[i].done
  <2>1. stack[i] \in Frame
    BY <1>1, ElementOfSeq
  <2>2. stack'[i] = Older(stack[i], i) /\ (i = 1 => stack[i].left > 0)
    BY <1>1
  <2> QED
    BY <2>1, <2>2, OlderType
<1>3. Len(stack') = Len(stack)
  BY <1>1
<1>4. Kept(stack, said, Seen)
  BY DEF Whole
<1>5. ASSUME NEW i \in 1 .. Len(stack), stack'[i].op = "write"
      PROVE  Sound(stack'[i], said, Seen)
  <2>1. Sound(stack[i], said, Seen)
    BY <1>2, <1>4, <1>5 DEF Kept
  <2> QED
    BY <1>2, <2>1 DEF Sound
<1>6. Kept(stack', said, Seen)
  BY <1>3, <1>5 DEF Kept
<1> QED
  BY <1>6, WholeStays

\* What the peer reads it has been sent.
LEMMA WiredStays ==
  ASSUME TypeOK, line # <<>>, heard' = Append(heard, Head(line)), line' = Tail(line)
  PROVE  Wired' = Wired
<1>1. /\ heard \in Seq(Nat) /\ line \in Seq(Nat) /\ Len(heard) \in Nat /\ Len(line) \in Nat
      /\ Len(line) >= 1 /\ Head(line) \in Nat /\ Head(line) = line[1]
      /\ Tail(line) \in Seq(Nat) /\ Len(Tail(line)) = Len(line) - 1
      /\ \A i \in 1 .. Len(line) - 1 : Tail(line)[i] = line[i + 1]
  BY Popped, LenProperties DEF TypeOK
<1>2. PICK h \in Nat, t \in Seq(Nat) : h = Head(line) /\ t = Tail(line)
  BY <1>1
<1>3. PICK u \in Seq(Nat) :
        /\ u = Append(heard, h) /\ Len(u) = Len(heard) + 1 /\ u[Len(heard) + 1] = h
        /\ \A i \in 1 .. Len(heard) : u[i] = heard[i]
  <2> DEFINE a == Append(heard, h)
  <2>1. /\ a \in Seq(Nat) /\ Len(a) = Len(heard) + 1 /\ a[Len(heard) + 1] = h
        /\ \A i \in 1 .. Len(heard) : a[i] = heard[i]
    BY <1>1, AppendProperties
  <2> QED
    BY <2>1
<1>4. /\ u \o t \in Seq(Nat) /\ Len(u \o t) = Len(u) + Len(t)
      /\ \A i \in 1 .. Len(u) + Len(t) : (u \o t)[i] = IF i <= Len(u) THEN u[i] ELSE t[i - Len(u)]
  BY ConcatProperties
<1>5. /\ heard \o line \in Seq(Nat) /\ Len(heard \o line) = Len(heard) + Len(line)
      /\ \A i \in 1 .. Len(heard) + Len(line) :
           (heard \o line)[i] = IF i <= Len(heard) THEN heard[i] ELSE line[i - Len(heard)]
  BY <1>1, ConcatProperties
<1>6. Len(u \o t) = Len(heard) + Len(line) /\ Len(u) + Len(t) = Len(heard) + Len(line)
  BY <1>1, <1>2, <1>3, <1>4
<1>7. ASSUME NEW i \in 1 .. Len(heard) + Len(line) PROVE (u \o t)[i] = (heard \o line)[i]
  <2>1. CASE i <= Len(heard)
    <3>1. i \in 1 .. Len(heard) /\ i <= Len(u)
      BY <1>1, <1>3, <2>1
    <3> QED
      BY <1>3, <1>4, <1>5, <1>6, <2>1, <3>1
  <2>2. CASE i = Len(heard) + 1
    <3>1. i <= Len(u) /\ ~(i <= Len(heard)) /\ i - Len(heard) = 1
      BY <1>1, <1>3, <2>2
    <3>2. (u \o t)[i] = h /\ (heard \o line)[i] = line[1]
      BY <1>3, <1>4, <1>5, <1>6, <2>2, <3>1
    <3> QED
      BY <1>1, <1>2, <3>2
  <2>3. CASE i > Len(heard) + 1
    <3>1. /\ ~(i <= Len(u)) /\ ~(i <= Len(heard))
          /\ i - Len(u) \in 1 .. Len(line) - 1 /\ (i - Len(u)) + 1 = i - Len(heard)
      BY <1>1, <1>3, <2>3
    <3>2. (u \o t)[i] = t[i - Len(u)] /\ (heard \o line)[i] = line[i - Len(heard)]
      BY <1>4, <1>5, <1>6, <3>1
    <3>3. t[i - Len(u)] = line[(i - Len(u)) + 1]
      BY <1>1, <1>2, <3>1
    <3> QED
      BY <3>1, <3>2, <3>3
  <2>4. i <= Len(heard) \/ i = Len(heard) + 1 \/ i > Len(heard) + 1
    <3>1. PICK k \in Nat, e \in Nat : k = Len(heard) /\ e = Len(line)
      BY <1>1
    <3>2. i \in 1 .. k + e
      BY <3>1
    <3>3. i <= k \/ i = k + 1 \/ i > k + 1
      BY <3>2
    <3> QED
      BY <3>1, <3>3
  <2> QED
    BY <2>1, <2>2, <2>3, <2>4
<1>8. u \o t = heard \o line
  BY <1>4, <1>5, <1>6, <1>7, SeqEqual
<1> QED
  BY <1>2, <1>3, <1>8 DEF Wired
-----------------------------------------------------------------------------
(***************************************************************************)
(* No step leaves the second invariant.                                    *)
(***************************************************************************)
LEMMA InitWhole == Init => Whole
<1> SUFFICES ASSUME Init PROVE Whole
  OBVIOUS
<1>1. stack = <<>> /\ obuf = <<>> /\ heard = <<>> /\ line = <<>> /\ said = 0
  BY DEF Init
<1>2. <<>> \in Seq(Nat) /\ Len(<<>>) = 0
  OBVIOUS
<1>3. Wired = <<>>
  BY <1>1, <1>2, ConcatEmptySeq DEF Wired
<1> QED
  BY <1>1, <1>2, <1>3 DEF Whole, NothingLeftOut, Chained, Ended, Preceded, Kept

\* A call that begins alone.
LEMMA WholeBegins ==
  ASSUME IInv, Whole, UNCHANGED <<heard, line, said, obuf>>,
         \/ stack' = <<Call("write", obuf)>>
         \/ \E op \in {"read", "handshake"} : stack' = <<Call(op, <<>>)>>
  PROVE  Whole'
<1>1. CASE stack' = <<Call("write", obuf)>>
  <2>1. PICK c \in Frame : c = Call("write", obuf) /\ c.data = obuf /\ c.done = 0
    <3> DEFINE g == Call("write", obuf)
    <3>1. g \in Frame /\ g.data = obuf /\ g.done = 0
      BY CallType DEF IInv, TypeOK
    <3> QED
      BY <3>1
  <2>2. Sound(c, said, Seen)
    BY <2>1, FlushIsSound
  <2> QED
    BY <1>1, <2>1, <2>2, KeptAlone, WholeStays
<1>2. ASSUME NEW op \in {"read", "handshake"}, stack' = <<Call(op, <<>>)>> PROVE Whole'
  <2>1. PICK c \in Frame : c = Call(op, <<>>) /\ c.op = op
    <3> DEFINE g == Call(op, <<>>)
    <3>1. PICK o \in {"read", "write", "handshake"}, d \in Seq(Nat) : o = op /\ d = <<>>
      BY EmptySeq
    <3>2. Call(o, d) \in Frame /\ Call(o, d).op = o
      BY CallType
    <3> QED
      BY <3>1, <3>2
  <2> QED
    BY <1>2, <2>1, KeptAlone, WholeStays
<1> QED
  BY <1>1, <1>2

\* A reply is put in the output stream, and may be flushed at once.
LEMMA WholeSaid ==
  ASSUME IInv, Whole, UNCHANGED <<heard, line>>, said' = said + 1, obuf' = Append(obuf, said + 1),
         stack' = <<>> \/ stack' = <<Call("write", obuf')>>
  PROVE  Whole'
<1>1. /\ obuf \in Seq(Nat) /\ said \in Nat /\ Chained(obuf, Seen) /\ Ended(obuf, said, Seen)
      /\ obuf' \in Seq(Nat)
  BY AppendProperties DEF IInv, TypeOK, Whole
<1>2. Seen' = Seen /\ NothingLeftOut'
  BY DEF Whole, NothingLeftOut, Wired, Seen
<1>3. Chained(obuf', Seen') /\ Ended(obuf', said', Seen')
  BY <1>1, <1>2, ChainedAfter
<1>4. Kept(stack', said', Seen')
  <2>1. CASE stack' = <<>>
    BY <2>1 DEF Kept
  <2>2. CASE stack' = <<Call("write", obuf')>>
    <3>1. PICK c \in Frame : c = Call("write", obuf') /\ c.data = obuf' /\ c.done = 0
      <4> DEFINE g == Call("write", obuf')
      <4>1. g \in Frame /\ g.data = obuf' /\ g.done = 0
        BY <1>1, CallType
      <4> QED
        BY <4>1
    <3>2. Sound(c, said', Seen')
      BY <1>3, <3>1, BeginsSound
    <3> QED
      BY <2>2, <3>1, <3>2, KeptAlone
  <2> QED
    BY <2>1, <2>2
<1> QED
  BY <1>2, <1>3, <1>4 DEF Whole, Chained, Ended, Kept

LEMMA SessionWhole == IInv /\ Whole /\ Session => Whole'
<1> SUFFICES ASSUME IInv, Whole, Session PROVE Whole'
  OBVIOUS
<1>1. CASE Serve
  BY <1>1, WholeSaid DEF Serve, Idle, peer
<1>2. CASE Flush
  BY <1>2, WholeBegins DEF Flush, stream, peer
<1>3. CASE TransferError
  BY <1>3, WholeSaid DEF TransferError, peer
<1>4. CASE ParserThrows
  BY <1>4, WholeUntouched DEF ParserThrows, stream, peer
<1>5. CASE SetMaxRead
  BY <1>5, WholeUntouched DEF SetMaxRead, stream, peer
<1>6. CASE Underflow
  <2>1. /\ UNCHANGED <<heard, line, said, obuf>>
        /\ stack' = stack \/ stack' = <<Call("read", <<>>)>>
    BY <1>6 DEF Underflow, peer
  <2> QED
    BY <2>1, WholeUntouched, WholeBegins
<1>7. CASE Starttls
  BY <1>7, WholeBegins DEF Starttls, stream, peer
<1> QED
  BY <1>1, <1>2, <1>3, <1>4, <1>5, <1>6, <1>7 DEF Session

\* The ways a call ends without writing.
LEMMA WholeDies ==
  ASSUME Whole, Dies, UNCHANGED unread PROVE Whole'
  BY WholeUntouched DEF Dies, sound, unread, peer

LEMMA WholeReadFails ==
  ASSUME IInv, Whole, stack # <<>>, ReadFails, UNCHANGED unread PROVE Whole'
  BY WholePops DEF ReadFails, unread, peer

LEMMA WholeWriteFails ==
  ASSUME IInv, Whole, stack # <<>>, WriteFails, UNCHANGED unread PROVE Whole'
<1>1. UNCHANGED <<heard, line, said>>
  BY DEF unread, peer
<1>2. Seen' = Seen /\ NothingLeftOut'
  BY <1>1 DEF Whole, NothingLeftOut, Wired, Seen
<1> QED
  BY <1>1, <1>2, WholeFails

LEMMA ReadingWhole == IInv /\ Whole /\ Reading => Whole'
<1> SUFFICES ASSUME IInv, Whole, Reading PROVE Whole'
  OBVIOUS
<1>1. CASE ReadData
  BY <1>1, WholePops DEF ReadData, Trying, peer
<1>2. CASE ReadEnd
  BY <1>2, WholePops, WholeDies DEF ReadEnd, Trying, unread, peer
<1>3. CASE ReadReset
  BY <1>3, WholeReadFails DEF ReadReset, Trying
<1>4. CASE UseOfShut
  BY <1>4, WholeDies DEF UseOfShut
<1>5. CASE ReadWaits
  <2>1. stack # <<>> /\ UNCHANGED unread
    BY <1>5 DEF ReadWaits, Trying
  <2>2. CASE TimeIsUp(Top)
    BY <1>5, <2>1, <2>2, WholeReadFails DEF ReadWaits
  <2>3. CASE ~TimeIsUp(Top)
    <3>1. (GoOn("in", TRUE) \/ GoOn("out", FALSE)) /\ UNCHANGED <<heard, line, said, obuf>>
      BY <1>5, <2>1, <2>3 DEF ReadWaits, sound, unread, peer
    <3> QED
      BY <2>1, <2>3, <3>1, WholeGoesOn
  <2> QED
    BY <2>2, <2>3
<1> QED
  BY <1>1, <1>2, <1>3, <1>4, <1>5 DEF Reading

LEMMA WriteDataWhole == IInv /\ Whole /\ WriteData => Whole'
<1> SUFFICES ASSUME IInv, Whole, WriteData PROVE Whole'
  OBVIOUS
<1>1. /\ stack # <<>> /\ Top.op = "write" /\ UNCHANGED <<heard, said>>
  BY DEF WriteData, Trying, peer
<1>2. OnWrite /\ stack \in Seq(Frame) /\ Kept(stack, said, Seen) /\ Len(line) \in Nat
      /\ Room \in Nat /\ Top \in Frame /\ Top.done \in Nat
  BY <1>1, TopType, FrameParts, LenProperties, WireAssumption
     DEF OnWrite, IInv, TypeOK, Stacked, Whole
<1>3. PICK n \in 1 .. Room - Len(line) :
        /\ Top.done + n <= Len(Top.data)
        /\ Taken(line', line, Top.data, Top.done, n)
        /\ IF Top.done + n = Len(Top.data)
           THEN stack' = Resumed /\ obuf' = <<>> /\ UNCHANGED <<ibad, bad, failed, state>>
           ELSE IF TimeIsUp(Top) THEN WriteFails
           ELSE /\ stack' = <<WaitFor(Progress(n), "out")>> \o Tail(stack)
                /\ UNCHANGED <<sound, state>>
  BY Zenon DEF WriteData, Taken
<1>4. n \in Nat /\ n >= 1
  BY <1>2
<1>5. NothingLeftOut' /\ Seen \subseteq Seen' /\ Top.data[Top.done + n] \in Seen'
  BY <1>1, <1>2, <1>3, <1>4, HeardMore
<1>6. Kept(stack, said, Seen') /\ Chained(obuf, Seen') /\ Ended(obuf, said, Seen')
  BY <1>5, SeesMore DEF Whole
<1>7. Sound(Top, said, Seen')
  BY <1>1, <1>2, <1>6, KeptTop DEF Top
<1>8. CASE Top.done + n = Len(Top.data)
  <2>1. stack' = Resumed /\ obuf' = <<>>
    BY <1>3, <1>8
  <2>2. Kept(stack', said, Seen')
    BY <1>1, <1>2, <1>6, <2>1, KeptResumed
  <2>3. Ended(obuf', said, Seen') /\ Chained(obuf', Seen')
    <3>1. Preceded(said + 1, Seen')
      <4>1. said \in Nat
        BY DEF IInv, TypeOK
      <4>2. Top.data[Len(Top.data)] \in Seen'
        BY <1>5, <1>8
      <4>3. Preceded(said + 1, Seen') \/ Top.data[Len(Top.data)] = said
        BY <1>7 DEF Sound, Ended
      <4> QED
        BY <4>1, <4>2, <4>3 DEF Preceded
    <3> QED
      BY <2>1, <3>1 DEF Ended, Chained
  <2> QED
    BY <1>1, <1>5, <2>2, <2>3 DEF Whole, Chained, Ended, Kept
<1>9. CASE Top.done + n # Len(Top.data) /\ TimeIsUp(Top)
  BY <1>1, <1>3, <1>5, <1>9, WholeFails
<1>10. CASE Top.done + n # Len(Top.data) /\ ~TimeIsUp(Top)
  <2> DEFINE p == Progress(n)
             g == WaitFor(p, "out")
  <2>1. stack' = <<g>> \o Tail(stack) /\ obuf' = obuf
    BY <1>3, <1>10 DEF sound
  <2>2. /\ p \in Frame /\ p.op = Top.op /\ p.age = Top.age /\ p.data = Top.data
        /\ p.done = Top.done + n
    <3>1. PICK f \in Frame, k \in Nat : f = Top /\ k = Top.done + n
      BY <1>2, <1>4
    <3>2. p = [f EXCEPT !.done = k]
      BY <3>1, Zenon DEF Progress
    <3> HIDE DEF p
    <3>3. /\ p \in Frame /\ p.done = k
          /\ p.op = f.op /\ p.at = f.at /\ p.age = f.age /\ p.left = f.left /\ p.data = f.data
      BY <3>2, ProgressType
    <3> QED
      BY <3>1, <3>3
  <2> HIDE DEF p
  <2>3. ~TimeIsUp(p)
    BY <1>10, <2>2 DEF TimeIsUp, Timeout
  <2>4. g \in Frame /\ g.data = Top.data /\ g.done = Top.done + n
    BY <2>2, <2>3, WaitForType
  <2> HIDE DEF g
  <2>5. Sound(g, said, Seen')
    BY <1>5, <1>7, <2>4 DEF Sound
  <2>6. Kept(stack', said, Seen')
    BY <1>1, <1>2, <1>6, <2>1, <2>4, <2>5, KeptReplaced
  <2> QED
    BY <1>1, <1>5, <1>6, <2>1, <2>6 DEF Whole, Chained, Ended, Kept
<1> QED
  BY <1>8, <1>9, <1>10

LEMMA WriteReentersWhole == IInv /\ Whole /\ WriteReenters => Whole'
<1> SUFFICES ASSUME IInv, Whole, WriteReenters PROVE Whole'
  OBVIOUS
<1> DEFINE g == WaitFor(Top, "in")
<1>1. stack # <<>> /\ Top.op = "write" /\ ~TimeIsUp(Top) /\ UNCHANGED unread
  BY DEF WriteReenters, Trying
<1>2. stack \in Seq(Frame) /\ Kept(stack, said, Seen) /\ TypeOK /\ Top \in Frame
  BY <1>1, TopType DEF IInv, Stacked, Whole
<1>3. g \in Frame /\ g.op = Top.op /\ g.data = Top.data /\ g.done = Top.done
  BY <1>1, <1>2, WaitForType
<1>4. Inner \in Frame /\ Inner.data = obuf /\ Inner.done = IF obuf = Top.data THEN Top.done ELSE 0
  BY <1>2, InnerType
<1>5. Sound(Inner, said, Seen)
  <2>1. Sound(Top, said, Seen)
    BY <1>1, <1>2, KeptTop DEF Top
  <2>2. CASE obuf = Top.data
    BY <1>4, <2>1, <2>2 DEF Sound
  <2>3. CASE obuf # Top.data
    BY <1>4, <2>3, FlushIsSound
  <2> QED
    BY <2>2, <2>3
<1>6. \/ stack' = <<Inner>> \o (<<g>> \o Tail(stack)) /\ UNCHANGED sound
      \/ stack' = <<g>> \o Tail(stack) /\ UNCHANGED sound
      \/ Dies
  BY ReenteredCases
<1>7. CASE stack' = <<Inner>> \o (<<g>> \o Tail(stack)) /\ UNCHANGED sound
  <2> HIDE DEF g
  <2> QED
    BY <1>1, <1>3, <1>4, <1>5, <1>7, WholeFlushes DEF sound, unread, peer
<1>8. CASE stack' = <<g>> \o Tail(stack) /\ UNCHANGED sound
  <2> HIDE DEF g
  <2> QED
    BY <1>1, <1>3, <1>8, WholeWaits DEF sound, unread, peer
<1>9. CASE Dies
  BY <1>1, <1>9, WholeDies
<1> QED
  BY <1>6, <1>7, <1>8, <1>9

LEMMA WritingWhole == IInv /\ Whole /\ Writing => Whole'
<1> SUFFICES ASSUME IInv, Whole, Writing PROVE Whole'
  OBVIOUS
<1>1. CASE WriteWaits
  <2>1. stack # <<>> /\ UNCHANGED unread
    BY <1>1 DEF WriteWaits, Trying
  <2>2. CASE TimeIsUp(Top)
    BY <1>1, <2>1, <2>2, WholeWriteFails DEF WriteWaits
  <2>3. CASE ~TimeIsUp(Top)
    <3>1. GoOn("out", FALSE) /\ UNCHANGED <<heard, line, said, obuf>>
      BY <1>1, <2>1, <2>3 DEF WriteWaits, sound, unread, peer
    <3> QED
      BY <2>1, <2>3, <3>1, WholeGoesOn
  <2> QED
    BY <2>2, <2>3
<1>2. CASE WriteReset
  BY <1>2, WholeWriteFails, WholeDies DEF WriteReset, Trying
<1> QED
  BY <1>1, <1>2, WriteDataWhole, WriteReentersWhole DEF Writing

LEMMA HandshakeWhole == IInv /\ Whole /\ Handshake => Whole'
<1> SUFFICES ASSUME IInv, Whole, Handshake PROVE Whole'
  OBVIOUS
<1>1. CASE HandshakeEnds
  <2>1. stack # <<>> /\ UNCHANGED <<heard, line, said, obuf>>
    BY <1>1 DEF HandshakeEnds, Trying, Dies, sound, peer
  <2>2. stack' = Tail(stack) \/ stack' = stack
    BY <1>1 DEF HandshakeEnds, Dies
  <2> QED
    BY <2>1, <2>2, WholePops, WholeUntouched
<1>2. CASE HandshakeWaits
  <2>1. stack # <<>> /\ Top.op = "handshake" /\ UNCHANGED unread
    BY <1>2 DEF HandshakeWaits, Trying
  <2>2. CASE Top.age >= TlsTimeout
    BY <1>2, <2>1, <2>2, WholeDies DEF HandshakeWaits
  <2>3. CASE ~(Top.age >= TlsTimeout)
    <3>1. /\ \E how \in {"in", "out"} : GoOn(how, FALSE)
          /\ UNCHANGED <<heard, line, said, obuf>>
      BY <1>2, <2>1, <2>3 DEF HandshakeWaits, sound, unread, peer
    <3>2. ~TimeIsUp(Top)
      <4>1. Top.age \in Nat /\ Timeout(Top) = TlsTimeout /\ TlsTimeout \in Nat
        BY <2>1, TopType, FrameParts, WireAssumption DEF IInv, Timeout
      <4> QED
        BY <2>3, <4>1 DEF TimeIsUp
    <3> QED
      BY <2>1, <3>1, <3>2, WholeGoesOn
  <2> QED
    BY <2>2, <2>3
<1> QED
  BY <1>1, <1>2 DEF Handshake

LEMMA WaitingWhole == IInv /\ Whole /\ Waiting => Whole'
<1> SUFFICES ASSUME IInv, Whole, Waiting PROVE Whole'
  OBVIOUS
<1>1. CASE SelectReady
  <2> DEFINE g == [Top EXCEPT !.at = "try", !.left = 0]
  <2>1. /\ stack # <<>> /\ stack' = <<g>> \o Tail(stack)
        /\ UNCHANGED <<heard, line, said, obuf>>
    BY <1>1 DEF SelectReady, Selecting, unread, sound, peer
  <2>2. PICK f \in Frame : f = Top
    BY <2>1, TopType DEF IInv
  <2>3. g = [f EXCEPT !.at = "try", !.left = 0]
    BY <2>2
  <2> HIDE DEF g
  <2>4. g \in Frame
    BY <2>3 DEF Frame
  <2>5. g.op = f.op /\ g.data = f.data /\ g.done = f.done
    BY <2>3, <2>4 DEF Frame
  <2> QED
    BY <2>1, <2>2, <2>4, <2>5, WholeWaits
<1>2. CASE Tick
  <2>1. stack' = [i \in DOMAIN stack |-> Older(stack[i], i)]
    BY <1>2, Zenon DEF Tick, Older
  <2>2. stack # <<>> /\ Top.left > 0 /\ UNCHANGED <<heard, line, said, obuf>>
    BY <1>2 DEF Tick, Selecting, unread, sound, peer
  <2> QED
    BY <2>1, <2>2, WholeAges
<1>3. CASE SelectExpires
  <2>1. stack # <<>> /\ UNCHANGED unread
    BY <1>3 DEF SelectExpires, Selecting
  <2>2. ReadFails \/ WriteFails \/ Dies
    BY <1>3 DEF SelectExpires
  <2> QED
    BY <2>1, <2>2, WholeReadFails, WholeWriteFails, WholeDies
<1> QED
  BY <1>1, <1>2, <1>3 DEF Waiting

LEMMA PeerWhole == IInv /\ Whole /\ Peer => Whole'
<1> SUFFICES ASSUME IInv, Whole, Peer PROVE Whole'
  OBVIOUS
<1>1. CASE PeerSends
  BY <1>1, WholeUntouched DEF PeerSends, server, stream
<1>2. CASE PeerReads
  <2>1. UNCHANGED <<stack, obuf, said>>
    BY <1>2 DEF PeerReads, server, stream
  <2>2. Wired' = Wired
    BY <1>2, WiredStays DEF PeerReads, IInv
  <2>3. Seen' = Seen
    BY <2>2 DEF Seen
  <2> QED
    BY <2>1, <2>2, <2>3 DEF Whole, NothingLeftOut, Chained, Ended, Kept
<1>3. CASE PeerCloses
  BY <1>3, WholeUntouched DEF PeerCloses, server, stream
<1> QED
  BY <1>1, <1>2, <1>3 DEF Peer

LEMMA NextWhole == IInv /\ Whole /\ [Next]_vars => Whole'
<1> SUFFICES ASSUME IInv, Whole, [Next]_vars PROVE Whole'
  OBVIOUS
<1>1. CASE UNCHANGED vars
  BY <1>1, WholeUntouched DEF vars, stream, peer
<1> QED
  BY <1>1, SessionWhole, ReadingWhole, WritingWhole, HandshakeWhole, WaitingWhole, PeerWhole
     DEF Next

\* It holds of every connection.
LEMMA AlwaysWhole == Spec => []Whole
<1>1. Init => Whole
  BY InitWhole
<1>2. IInv /\ Whole /\ [Next]_vars => Whole'
  BY NextWhole
<1> QED
  BY <1>1, <1>2, AlwaysIInv, PTL DEF Spec
-----------------------------------------------------------------------------
(***************************************************************************)
(* The theorems.                                                           *)
(***************************************************************************)
\* A call under way is not older than it may be.
LEMMA InTime == IInv => OneDeadline
<1> SUFFICES ASSUME IInv, ~reentered, NEW i \in DOMAIN stack
             PROVE  stack[i].age <= Timeout(stack[i])
                                    + (IF stack[i].op = "read" THEN WriteTimeout ELSE 0)
  BY DEF OneDeadline
<1>1. /\ stack \in Seq(Frame) /\ Nested /\ Timed
      /\ DOMAIN stack = 1 .. Len(stack) /\ Len(stack) \in Nat
  BY LenProperties DEF IInv, Stacked
<1>2. stack[i] \in Frame
  BY <1>1, ElementOfSeq
<1>3. /\ stack[i].age \in Nat /\ stack[i].left \in Nat /\ Timeout(stack[i]) \in Nat
      /\ ReadTimeout \in Nat /\ WriteTimeout \in Nat
  BY <1>2, FrameParts, TimeoutType, WireAssumption
<1>4. stack[i].age <= Deadline(stack[i]) /\ Deadline(stack[i]) \in Nat
  BY <1>3 DEF Deadline
<1>5. CASE stack[i].op # "read"
  <2>1. Deadline(stack[i]) <= Timeout(stack[i])
    BY <1>1, <1>5 DEF Timed
  <2> QED
    BY <1>3, <1>4, <1>5, <2>1
<1>6. CASE stack[i].op = "read"
  <2>1. i = Len(stack) /\ (Len(stack) = 1 \/ Len(stack) = 2)
    <3>1. i \in 1 .. Len(stack) /\ stack[i].op # "write"
      BY <1>1, <1>6
    <3>2. i = Len(stack)
      BY <1>1, <3>1 DEF Nested
    <3>3. Len(stack) <= 1 \/ Len(stack) = 2
      BY <1>1 DEF Nested
    <3> QED
      BY <1>1, <3>1, <3>2, <3>3
  <2>2. Timeout(stack[i]) = ReadTimeout
    BY <1>6 DEF Timeout
  <2>3. Deadline(stack[i]) <= ReadTimeout + WriteTimeout
    <3>1. CASE Len(stack) = 1
      BY <1>1, <1>6, <2>1, <3>1 DEF Timed
    <3>2. CASE Len(stack) = 2
      <4>1. stack[1] \in Frame /\ stack[1].op = "write"
        <5>1. 1 \in 1 .. Len(stack) /\ 1 # Len(stack)
          BY <3>2
        <5>2. stack[1] \in Frame
          BY <1>1, <5>1, ElementOfSeq
        <5> QED
          BY <1>1, <5>1, <5>2 DEF Nested
      <4>2. Deadline(stack[1]) <= WriteTimeout
        BY <1>1, <3>2, <4>1 DEF Timed, Timeout
      <4>3. stack[1].age \in Nat /\ stack[1].age <= WriteTimeout
        BY <1>3, <4>1, <4>2, FrameParts DEF Deadline
      <4>4. Deadline(stack[i]) <= ReadTimeout + stack[1].age
        BY <1>1, <2>1, <3>2 DEF Timed
      <4> QED
        BY <1>3, <1>4, <4>3, <4>4
    <3> QED
      BY <2>1, <3>1, <3>2
  <2> QED
    BY <1>3, <1>4, <1>6, <2>2, <2>3
<1> QED
  BY <1>5, <1>6

\* A sequence of the numbers from 1 on is a prefix of a longer one.
LEMMA NumbersArePrefix ==
  ASSUME NEW u \in Seq(Nat), NEW n \in Nat, Len(u) <= n, \A i \in 1 .. Len(u) : u[i] = i
  PROVE  IsPrefix(u, [i \in 1 .. n |-> i])
<1> DEFINE v == [i \in 1 .. n |-> i]
           k == Len(u)
<1>1. v \in Seq(Nat) /\ Len(v) = n /\ (\A i \in 1 .. n : v[i] = i) /\ k \in Nat
  OBVIOUS
<1> HIDE DEF v
<1>2. PICK s \in Seq(Nat) : /\ s = SubSeq(u, 0 + 1, 0 + k) /\ Len(s) = k
                            /\ \A i \in 1 .. k : s[i] = u[0 + i]
  BY <1>1, PartOf
<1>3. PICK t \in Seq(Nat) : /\ t = SubSeq(v, 0 + 1, 0 + k) /\ Len(t) = k
                            /\ \A i \in 1 .. k : t[i] = v[0 + i]
  BY <1>1, PartOf
<1>4. \A i \in 1 .. Len(s) : s[i] = t[i]
  BY <1>1, <1>2, <1>3
<1>5. s = t
  BY <1>2, <1>3, <1>4, SeqEqual
<1>6. 0 + 1 = 1 /\ 0 + k = k
  BY <1>1
<1>7. SubSeq(u, 1, k) = SubSeq(v, 1, k)
  BY <1>2, <1>3, <1>5, <1>6
<1> QED
  BY <1>1, <1>7 DEF IsPrefix, v

\* What is heard and what is on the line are the numbers from 1 on.
LEMMA HeardIsNumbered == IInv => OnceInOrder
<1> SUFFICES ASSUME IInv, ~reentered, ~failed
             PROVE  IsPrefix(heard \o line, [i \in 1 .. said |-> i])
  BY DEF OnceInOrder, Wired
<1>1. /\ heard \in Seq(Nat) /\ line \in Seq(Nat) /\ said \in Nat
      /\ Len(heard) \in Nat /\ Len(line) \in Nat
  BY LenProperties DEF IInv, TypeOK
<1>2. /\ Out <= said
      /\ \A i \in 1 .. Len(heard) : heard[i] = i
      /\ \A i \in 1 .. Len(line) : line[i] = Len(heard) + i
  BY DEF IInv, InOrder
<1> DEFINE u == heard \o line
<1>3. /\ u \in Seq(Nat) /\ Len(u) = Len(heard) + Len(line)
      /\ \A i \in 1 .. Len(heard) + Len(line) :
           u[i] = IF i <= Len(heard) THEN heard[i] ELSE line[i - Len(heard)]
  BY <1>1, ConcatProperties
<1> HIDE DEF u
<1>4. ASSUME NEW i \in 1 .. Len(u) PROVE u[i] = i
  <2>1. CASE i <= Len(heard)
    <3>1. i \in 1 .. Len(heard) /\ i \in 1 .. Len(heard) + Len(line)
      BY <1>1, <1>3, <2>1
    <3>2. u[i] = heard[i]
      BY <1>3, <2>1, <3>1
    <3> QED
      BY <1>2, <3>1, <3>2
  <2>2. CASE ~(i <= Len(heard))
    <3>1. i - Len(heard) \in 1 .. Len(line) /\ Len(heard) + (i - Len(heard)) = i
      BY <1>1, <1>3, <2>2
    <3>2. u[i] = line[i - Len(heard)]
      BY <1>1, <1>3, <2>2
    <3>3. line[i - Len(heard)] = Len(heard) + (i - Len(heard))
      BY <1>2, <3>1
    <3> QED
      BY <3>1, <3>2, <3>3
  <2> QED
    BY <2>1, <2>2
<1>5. Len(u) <= said
  BY <1>2, <1>3 DEF Out
<1>6. IsPrefix(u, [i \in 1 .. said |-> i])
  BY <1>1, <1>3, <1>4, <1>5, NumbersArePrefix
<1> QED
  BY <1>6 DEF u

\* Whatever the time-outs and however a call is interrupted, the server that waits for input,
\* in the clear or over TLS, has passed on all it has said: the read hook runs before every
\* select for input, so that the two ends never wait for each other.
THEOREM WireWaitsWithNothingUnsaid == Spec => []WaitsWithNothingUnsaid
<1>1. IInv => WaitsWithNothingUnsaid
  BY DEF IInv, Stacked, Flushed, Spent, WaitsWithNothingUnsaid, Selecting
<1> QED
  BY <1>1, AlwaysIInv, PTL

\* For any room in the socket and any split of a write: until a write fails or a flush begins
\* inside a write of TLS, what the peer has heard or can hear is a prefix of what was said;
\* and whatever fails, is written again or begins inside what, no reply is heard or can be
\* heard before the one it follows, so that none is left out.
THEOREM WireHeardInOrder == Spec => []HeardInOrder
<1>1. IInv /\ Whole => HeardInOrder
  BY HeardIsNumbered DEF Whole, HeardInOrder
<1> QED
  BY <1>1, AlwaysIInv, AlwaysWhole, PTL

\* For any time-outs and any limit: what the stream hands on stays below the limit of
\* SockBuffer, and a call of POSIX or TLS lasts no longer than its own time, a read its own
\* and that of the one flush its hook begins; but for a flush begun inside a write of TLS.
THEOREM WireCallsAreBounded == Spec => []CallsAreBounded
<1>1. IInv => CallsAreBounded
  BY InTime DEF IInv, Metered, CallsAreBounded, LimitHolds
<1> QED
  BY <1>1, AlwaysIInv, PTL
=============================================================================
