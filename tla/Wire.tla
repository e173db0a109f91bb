--------------------------------- MODULE Wire ---------------------------------
(***************************************************************************)
(* The octets of one connection of the server: POSIX.cpp (read and write   *)
(* of a non-blocking descriptor), SockBuffer (the device under the two     *)
(* streams, with its limit on what may be read), and the loops of TLS that *)
(* do the same over OpenSSL.  A call is a frame on a stack, because a read *)
(* that has to wait calls the read hook first, and the hook flushes what   *)
(* was written: a write inside a read (and, over TLS, inside a write).     *)
(* Time passes in select(2) only.                                          *)
(***************************************************************************)
EXTENDS Integers, Sequences, SequencesExt

CONSTANTS
  ReadTimeout,   \* read_timeout_, in ticks
  WriteTimeout,  \* write_timeout_
  TlsTimeout,    \* starttls_timeout_
  Limit,         \* read_limit_, in requests
  Requests,      \* bound: requests the peer sends
  Room,          \* what the socket takes before the peer reads
  MaxOdd,        \* bound: calls interrupted, records that carry nothing, broken transfers
  MaxHeard       \* bound: replies the peer reads

ASSUME WireAssumption ==
  /\ {ReadTimeout, WriteTimeout, TlsTimeout, Requests, MaxOdd, MaxHeard} \subseteq Nat
  /\ {Limit, Room} \subseteq Nat \ {0}

VARIABLES
  stack,     \* the calls under way, the innermost first
  tls,       \* tls_active_: "off", "on", or "shut" (on, though the handshake was not done)
  ibuf,      \* requests in the input stream's buffer
  obuf,      \* replies in the output stream's buffer
  ibad,      \* the input stream has failed or is at its end
  bad,       \* badbit of the one object that both streams are
  octets,    \* octets_read_
  since,     \* history: requests handed to the stream since the limit was last set
  said,      \* history: replies put in the output stream
  state,     \* "running", "fatal" (a CHECK), "thrown" (out of the parser, at a bad stream)
  logging,   \* log_data_
  rx,        \* the socket: requests that have arrived
  line,      \* the socket: replies the peer has not read
  closed,    \* the peer has closed its end
  sent,      \* history: requests the peer sent
  heard,     \* history: replies the peer read
  odd,       \* history: odd events so far
  failed,    \* history: a write has failed
  reentered  \* history: a flush began inside a write

stream == <<ibuf, obuf, ibad, bad, said>>
limits == <<octets, since>>
peer == <<closed, sent, heard>>
vars == <<stack, tls, stream, limits, state, logging, rx, line, peer, odd, failed, reentered>>

Frame == [op : {"read", "write", "handshake"}, at : {"try", "in", "out"}, age : Nat,
          left : Nat, data : Seq(Nat), done : Nat]

Call(op, data) == [op |-> op, at |-> "try", age |-> 0, left |-> 0, data |-> data, done |-> 0]

Top == Head(stack)

Timeout(f) == CASE f.op = "read" -> ReadTimeout
                [] f.op = "write" -> WriteTimeout
                [] OTHER -> TlsTimeout

Trying(op) == state = "running" /\ stack # <<>> /\ Top.op = op /\ Top.at = "try"

Init ==
  /\ stack = <<>> /\ tls = "off" /\ state = "running"
  /\ logging \in BOOLEAN
  /\ ibuf = 0 /\ obuf = <<>> /\ ibad = FALSE /\ bad = FALSE /\ said = 0
  /\ octets = 0 /\ since = 0
  /\ rx = 0 /\ line = <<>> /\ closed = FALSE /\ sent = 0 /\ heard = <<>>
  /\ odd = 0 /\ failed = FALSE /\ reentered = FALSE
-------------------------------------------------------------------------------
(* What the server does with its streams. *)

Idle == state = "running" /\ stack = <<>>

\* An event that need not happen: EINTR, a record without data, a transfer in error.
Odd == odd < MaxOdd /\ odd' = odd + 1

\* What a failed write leaves in the buffer: the stream takes -1 for the number of octets
\* written, so its replies start one place before the buffer, with the octet (0) found there.
LeftOver == obuf # <<>> /\ Head(obuf) = 0

\* A request is taken from the input stream, and its reply put in the output stream.
Serve ==
  /\ Idle /\ ibuf > 0 /\ ~bad
  /\ ibuf' = ibuf - 1
  /\ said' = said + 1
  /\ obuf' = Append(obuf, said')
  /\ UNCHANGED <<stack, tls, ibad, bad, limits, state, logging, rx, line, peer, odd, failed,
                 reentered>>

\* std::flush after the replies that end a phase.
Flush ==
  /\ Idle /\ obuf # <<>>
  /\ stack' = <<Call("write", obuf)>>
  /\ UNCHANGED <<tls, stream, limits, state, logging, rx, line, peer, odd, failed, reentered>>

\* A transfer ends in error: its handler clears the stream, and flushes its reply.
TransferError ==
  /\ Idle /\ (ibad \/ bad) /\ Odd
  /\ ibad' = FALSE /\ bad' = FALSE
  /\ said' = said + 1
  /\ obuf' = Append(obuf, said')
  /\ stack' = <<Call("write", obuf')>>
  /\ UNCHANGED <<tls, ibuf, limits, state, logging, rx, line, peer, failed, reentered>>

\* The parser throws when it reads from a stream that is bad, not at its end.
ParserThrows ==
  /\ Idle /\ bad
  /\ state' = "thrown"
  /\ UNCHANGED <<stack, tls, stream, limits, logging, rx, line, peer, odd, failed, reentered>>

MaxedOut(n) == n >= Limit

\* reset_() and STARTTLS set the limit anew.
SetMaxRead ==
  /\ Idle /\ octets > 0
  /\ octets' = 0
  /\ since' = 0
  /\ UNCHANGED <<stack, tls, stream, state, logging, rx, line, peer, odd, failed, reentered>>

\* The input stream is empty and asked for more.
Underflow ==
  /\ Idle /\ ibuf = 0 /\ ~ibad /\ ~bad
  /\ IF MaxedOut(octets) THEN ibad' = TRUE /\ UNCHANGED stack
                         ELSE stack' = <<Call("read", <<>>)>> /\ UNCHANGED ibad
  /\ UNCHANGED <<tls, ibuf, obuf, bad, said, limits, state, logging, rx, line, peer, odd, failed,
                 reentered>>

\* STARTTLS: its reply has been flushed, or that failed.
Starttls ==
  /\ Idle /\ tls = "off" /\ (obuf = <<>> \/ LeftOver \/ bad)
  /\ stack' = <<Call("handshake", <<>>)>>
  /\ UNCHANGED <<tls, stream, limits, state, logging, rx, line, peer, odd, failed, reentered>>
-------------------------------------------------------------------------------
(* How a call waits, and how it ends. *)

\* What is left of the time, reckoned before the read hook is called.
WaitFor(f, how) == [f EXCEPT !.at = how, !.left = Timeout(f) - f.age]

\* The hook: flush the output stream, if there is something in it.  What std::flush does
\* with a stream that is bad differs between the versions of the library.
Hooked(frames) ==
  IF obuf = <<>> THEN {frames}
  ELSE {<<Call("write", obuf)>> \o frames} \cup (IF bad THEN {frames} ELSE {})

\* The time is up: POSIX at the deadline, TLS after it.
TimeIsUp(f) == IF tls = "off" THEN f.age >= Timeout(f) ELSE f.age > Timeout(f)

sound == <<obuf, ibad, bad, failed>>

\* A read gives up: -1, the end for the stream.  With log_data_ on, a string of size_t(-1)
\* octets is made of it, which throws, and the stream is bad.
ReadFails ==
  /\ stack' = Tail(stack)
  /\ ibad' = TRUE
  /\ bad' = (bad \/ logging)
  /\ UNCHANGED <<obuf, failed, state>>

\* A write gives up: -1.  The stream keeps all of its buffer for the next flush; the throw
\* of a write that is logged does not get further than sync(), and the stream is bad.
WriteFails ==
  /\ stack' = Tail(stack)
  /\ failed' = TRUE
  /\ bad' = (bad \/ logging)
  /\ obuf' = IF logging \/ LeftOver THEN obuf ELSE <<0>> \o obuf
  /\ UNCHANGED <<ibad, state>>

Dies == state' = "fatal" /\ UNCHANGED <<stack, sound>>

\* Wrong: the time is reckoned from the last attempt on.
GoOn_Afresh(how, hook) ==
  LET f == [WaitFor(Top, how) EXCEPT !.left = Timeout(Top)]
  IN stack' \in IF hook THEN Hooked(<<f>> \o Tail(stack)) ELSE {<<f>> \o Tail(stack)}

\* Wrong: the hook is forgotten.
GoOn_NoHook(how, hook) == stack' = <<WaitFor(Top, how)>> \o Tail(stack)

\* Try again when select(2) says so.
GoOn(how, hook) ==
  LET f == WaitFor(Top, how)
  IN stack' \in IF hook THEN Hooked(<<f>> \o Tail(stack)) ELSE {<<f>> \o Tail(stack)}
-------------------------------------------------------------------------------
(* Reading. *)

\* What is read counts against the limit; a read that reaches it is thrown away.
ReadData ==
  /\ Trying("read") /\ tls # "shut"
  /\ \E n \in 1 .. rx :
       /\ rx' = rx - n
       /\ octets' = octets + n
       /\ IF MaxedOut(octets + n) THEN ibad' = TRUE /\ UNCHANGED <<ibuf, since>>
          ELSE ibuf' = ibuf + n /\ since' = since + n /\ UNCHANGED ibad
  /\ stack' = Tail(stack)
  /\ UNCHANGED <<tls, obuf, bad, said, state, logging, line, peer, odd, failed, reentered>>

unread == <<tls, ibuf, said, limits, logging, rx, line, peer>>

\* The peer has closed: 0; over TLS a close that was not announced is an error.
ReadEnd ==
  /\ Trying("read") /\ rx = 0 /\ closed
  /\ \/ stack' = Tail(stack) /\ ibad' = TRUE /\ UNCHANGED <<state, obuf, bad, failed>>
     \/ tls # "off" /\ Dies
  /\ UNCHANGED <<unread, odd, reentered>>

\* ECONNRESET.
ReadReset ==
  /\ Trying("read") /\ closed /\ tls = "off"
  /\ ReadFails
  /\ UNCHANGED <<unread, odd, reentered>>

\* Any use of a session whose handshake was not done.
UseOfShut ==
  /\ Trying("read") \/ Trying("write")
  /\ tls = "shut"
  /\ Dies
  /\ UNCHANGED <<unread, odd, reentered>>

\* Nothing to read, a call interrupted, or (TLS) something else to read or to write first.
\* Only the wait for input calls the hook.
ReadWaits ==
  /\ Trying("read") /\ tls # "shut"
  /\ IF TimeIsUp(Top) THEN ReadFails /\ UNCHANGED odd
     ELSE /\ \/ (rx = 0 /\ ~closed) /\ GoOn("in", TRUE) /\ UNCHANGED odd
             \/ Odd /\ GoOn("in", TRUE)
             \/ tls = "on" /\ Odd /\ GoOn("out", FALSE)
          /\ UNCHANGED <<sound, state>>
  /\ UNCHANGED <<unread, reentered>>
-------------------------------------------------------------------------------
(* Writing. *)

\* The rest of the frames once the write on top is done; a write interrupted by this one
\* begins again.
Resumed ==
  IF Len(stack) > 1 /\ stack[2].op = "write"
  THEN [Tail(stack) EXCEPT ![1].done = 0] ELSE Tail(stack)

\* Wrong: after part of the octets the whole is offered again.
Progress_Whole(n) == [Top EXCEPT !.done = 0]

Progress(n) == [Top EXCEPT !.done = @ + n]

\* Wrong: what is taken is all there was.
WriteData_Once ==
  /\ Trying("write") /\ tls # "shut"
  /\ \E n \in 1 .. Room - Len(line) :
       /\ Top.done + n <= Len(Top.data)
       /\ line' = line \o SubSeq(Top.data, Top.done + 1, Top.done + n)
  /\ stack' = Resumed
  /\ obuf' = <<>>
  /\ UNCHANGED <<tls, ibuf, ibad, bad, said, limits, state, logging, rx, peer, odd, failed,
                 reentered>>

\* n replies are taken; with more to come the call waits, if there is time.
WriteData ==
  /\ Trying("write") /\ tls # "shut"
  /\ \E n \in 1 .. Room - Len(line) :
       /\ Top.done + n <= Len(Top.data)
       /\ line' = line \o SubSeq(Top.data, Top.done + 1, Top.done + n)
       /\ IF Top.done + n = Len(Top.data)
          THEN stack' = Resumed /\ obuf' = <<>> /\ UNCHANGED <<ibad, bad, failed, state>>
          ELSE IF TimeIsUp(Top) THEN WriteFails
          ELSE /\ stack' = <<WaitFor(Progress(n), "out")>> \o Tail(stack)
               /\ UNCHANGED <<sound, state>>
  /\ UNCHANGED <<tls, ibuf, said, limits, logging, rx, peer, odd, reentered>>

\* No room, or a call interrupted.
WriteWaits ==
  /\ Trying("write") /\ tls # "shut"
  /\ IF TimeIsUp(Top) THEN WriteFails /\ UNCHANGED odd
     ELSE /\ \/ (Len(line) = Room /\ ~closed) /\ GoOn("out", FALSE) /\ UNCHANGED odd
             \/ Odd /\ GoOn("out", FALSE)
          /\ UNCHANGED <<sound, state>>
  /\ UNCHANGED <<unread, reentered>>

\* The write that the hook begins inside a write of TLS: of the very octets that are being
\* written, or, when a flush in between has failed or not, of what there is by now.
Inner == IF obuf = Top.data THEN [Call("write", obuf) EXCEPT !.done = Top.done]
                            ELSE Call("write", obuf)

\* SSL_write has to read first; its hook flushes.  OpenSSL may refuse other octets (a bad
\* write retry).
WriteReenters ==
  /\ Trying("write") /\ tls = "on" /\ ~TimeIsUp(Top) /\ Odd
  /\ \/ /\ stack' \in {<<f>> \o (<<WaitFor(Top, "in")>> \o Tail(stack)) :
                           f \in IF obuf = <<>> THEN {} ELSE {Inner}}
                       \cup (IF obuf = <<>> \/ bad
                             THEN {<<WaitFor(Top, "in")>> \o Tail(stack)} ELSE {})
        /\ reentered' = (reentered \/ obuf # <<>>)
        /\ UNCHANGED <<sound, state>>
     \/ /\ obuf \notin {<<>>, Top.data} /\ Dies
        /\ UNCHANGED reentered
  /\ UNCHANGED unread

\* ECONNRESET, EPIPE.
WriteReset ==
  /\ Trying("write") /\ closed
  /\ \/ tls = "off" /\ WriteFails
     \/ Dies
  /\ UNCHANGED <<unread, odd, reentered>>
-------------------------------------------------------------------------------
(* The handshake of STARTTLS: SSL_accept and SSL_connect. *)

\* An error below 0 is fatal; 0, a handshake the peer ended, is taken for success.
HandshakeEnds ==
  /\ Trying("handshake")
  /\ \/ tls' \in {"on", "shut"} /\ stack' = Tail(stack) /\ UNCHANGED <<state, sound>>
     \/ Dies /\ UNCHANGED tls
  /\ UNCHANGED <<ibuf, said, limits, logging, rx, line, peer, odd, reentered>>

\* WANT_READ and WANT_WRITE; out of time is fatal.
HandshakeWaits ==
  /\ Trying("handshake")
  /\ IF Top.age >= TlsTimeout THEN Dies /\ UNCHANGED odd
     ELSE /\ Odd
          /\ \E how \in {"in", "out"} : GoOn(how, FALSE)
          /\ UNCHANGED <<state, sound>>
  /\ UNCHANGED <<unread, reentered>>
-------------------------------------------------------------------------------
(* select(2) *)

Selecting == state = "running" /\ stack # <<>> /\ Top.at # "try"

\* For a read there are octets; for anything else the peer decides.
MayBeReady ==
  CASE Top.at = "out" -> Len(line) < Room \/ closed
    [] Top.op = "read" -> rx > 0 \/ closed
    [] OTHER -> TRUE

MustBeReady == MayBeReady /\ (Top.at = "out" \/ Top.op = "read")

SelectReady ==
  /\ Selecting /\ MayBeReady
  /\ stack' = <<[Top EXCEPT !.at = "try", !.left = 0]>> \o Tail(stack)
  /\ UNCHANGED <<unread, sound, state, odd, reentered>>

\* A tick: every call under way grows older.
Tick ==
  /\ Selecting /\ Top.left > 0 /\ ~MustBeReady
  /\ stack' = [i \in DOMAIN stack |->
                 [stack[i] EXCEPT !.age = @ + 1, !.left = IF i = 1 THEN @ - 1 ELSE @]]
  /\ UNCHANGED <<unread, sound, state, odd, reentered>>

SelectExpires ==
  /\ Selecting /\ Top.left = 0 /\ ~MustBeReady
  /\ CASE Top.op = "read" -> ReadFails
       [] Top.op = "write" -> WriteFails
       [] OTHER -> Dies
  /\ UNCHANGED <<unread, odd, reentered>>
-------------------------------------------------------------------------------
(* The peer. *)

server == <<stack, tls, stream, limits, state, logging, odd, failed, reentered>>

PeerSends ==
  /\ sent < Requests /\ ~closed
  /\ sent' = sent + 1
  /\ rx' = rx + 1
  /\ UNCHANGED <<server, line, closed, heard>>

PeerReads ==
  /\ line # <<>> /\ ~closed /\ Len(heard) < MaxHeard
  /\ heard' = Append(heard, Head(line))
  /\ line' = Tail(line)
  /\ UNCHANGED <<server, rx, closed, sent>>

PeerCloses ==
  /\ ~closed
  /\ closed' = TRUE
  /\ UNCHANGED <<server, rx, line, sent, heard>>
-------------------------------------------------------------------------------
Session == Serve \/ Flush \/ TransferError \/ ParserThrows \/ SetMaxRead \/ Underflow \/ Starttls
Reading == ReadData \/ ReadEnd \/ ReadReset \/ UseOfShut \/ ReadWaits
Writing == WriteData \/ WriteWaits \/ WriteReenters \/ WriteReset
Handshake == HandshakeEnds \/ HandshakeWaits
Waiting == SelectReady \/ Tick \/ SelectExpires
Peer == PeerSends \/ PeerReads \/ PeerCloses

Next == Session \/ Reading \/ Writing \/ Handshake \/ Waiting \/ Peer

Spec == Init /\ [][Next]_vars

\* The program runs, and time passes; what is left when the input ends is flushed with the
\* last reply; the peer reads what it is sent.
FairSpec ==
  /\ Spec
  /\ WF_vars(Reading) /\ WF_vars(Writing) /\ WF_vars(Handshake) /\ WF_vars(Waiting)
  /\ WF_vars(Serve) /\ WF_vars(Underflow) /\ WF_vars(ibad /\ Flush)
  /\ WF_vars(PeerReads)
-------------------------------------------------------------------------------
(* Properties *)

\* Type correctness of the connection.
TypeOK ==
  /\ stack \in Seq(Frame)
  /\ tls \in {"off", "on", "shut"}
  /\ ibuf \in Nat /\ obuf \in Seq(Nat)
  /\ {ibad, bad, logging, closed, failed, reentered} \subseteq BOOLEAN
  /\ octets \in Nat /\ since \in Nat /\ said \in Nat
  /\ state \in {"running", "fatal", "thrown"}
  /\ rx \in Nat /\ line \in Seq(Nat) /\ heard \in Seq(Nat)
  /\ sent \in 0 .. Requests
  /\ odd \in 0 .. MaxOdd

\* While the server waits for input, in the clear or over TLS, nothing it has said is left
\* in its buffer, unless the flush of this very wait has failed or met a bad stream: the
\* read hook of smtp.cpp and the flush of every reply make sure that the two ends never
\* wait for each other.
WaitsWithNothingUnsaid ==
  Selecting /\ Top.op = "read" /\ Top.at = "in" => obuf = <<>> \/ LeftOver \/ bad

\* What the peer has heard and will hear, so far.
Wired == heard \o line

\* What the peer hears is what was said, each octet once and in order, through partial and
\* repeated writes; unless a write has failed, or a flush began inside a write of TLS.
OnceInOrder == ~failed /\ ~reentered => IsPrefix(Wired, [i \in 1 .. said |-> i])

\* Also when writes fail half way and all of the buffer is written again, later, in or out
\* of TLS: nothing is heard before what it comes after, so nothing is ever left out.
NothingLeftOut ==
  \A i \in 1 .. Len(Wired) :
    Wired[i] > 1 => \E j \in 1 .. i - 1 : Wired[j] = Wired[i] - 1

\* The order of what is heard.
HeardInOrder == OnceInOrder /\ NothingLeftOut

\* The stream is never handed as many octets as the limit since the limit was set, though
\* it is looked at per read and set anew in the middle of what the peer sends.
LimitHolds == since < Limit

\* One deadline for a call: a read lasts its own time and that of the flush in its hook,
\* whatever arrives in pieces or interrupts it; a write and a handshake their own.
OneDeadline ==
  ~reentered =>
    \A i \in DOMAIN stack :
      stack[i].age <= Timeout(stack[i]) + (IF stack[i].op = "read" THEN WriteTimeout ELSE 0)

\* In a state of the right types, a call takes no more time and hands on no more octets than
\* it may.
CallsAreBounded == TypeOK /\ LimitHolds /\ OneDeadline

\* Every reply is heard, unless a write has failed, the peer has closed or the program ended.
RepliesAreHeard ==
  \A k \in 1 .. Requests + MaxOdd :
    said >= k ~> Len(heard) >= k \/ failed \/ closed \/ state # "running"
===============================================================================
