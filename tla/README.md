# A verification project for ghsmtp

ghsmtp is an SMTP server that takes mail for a few domains and stores it in one user's Maildir,
together with an SMTP sender and a set of mail tools. This directory holds TLA+ models of the
server, the senders, the resolver and the functions of the tools, the TLC configurations that check
them on small instances, and TLAPS proofs of what they check in every part that keeps a state: the
server, the senders, the resolver and the messages. Every definition is translated from the C++
source; `PROJECT.json` gives, for each one, the lines it stands for.

To check: `tlc -config X.cfg M` for a run (the table of runs below names X and M), `tlapm M.tla`
for a module of proofs.

## 1. The system

### Processes and how they interact

One `smtp` process serves one connection. It is started by inetd or daemontools with the socket
as its standard input and output, runs a single thread, and exits. Processes share nothing but the
file system: the read-only databases of the configuration directory, and the Maildir, where file
names are unique per message.

    client <-> TLS-OpenSSL <-> SockBuffer/POSIX <-> Session <-> MessageStore <-> Maildir
                                    ^                 |  |
                              smtp.cpp: grammar,      |  +--> CDB lists, TLD
                              DATA and BDAT loops     +-----> DNS, fcrdns, SPF

The only concurrency inside a process is the `SIGALRM` handler, which writes a last reply and
leaves with `_Exit`, at any instant. All other interleaving is with the client, which may send
anything at any time, pipelined or not, and may stop or disappear.

### Components

| component | state it keeps | operations | what makes it correct |
|---|---|---|---|
| **Session** (`Session.cpp`) | `state_`, envelope (`client_identity_`, `reverse_path_`, `forward_path_`), flags, `msg_`, SPF result, limits, counters | `greeting`, `ehlo`/`helo`, `mail_from`, `rcpt_to`, `data_*`, `bdat_*`, `rset`, `noop`, `vrfy`, `help`, `quit`, `auth`, `starttls`, error replies | one reply for each command; 250 for a message if and only if it is stored; a message belongs to one envelope; what is per transaction ends with the transaction; the session ends |
| **smtp** (`smtp.cpp`) | the parser's position, `Ctx` (mailbox and parameters of the command being parsed), locals of `bdat_act` | grammar actions, `bdat_act`, DATA loop, `timeout`, `main` | each command reaches its handler with its own arguments; chunk octets are never taken for commands |
| **MessageStore** | stream, `size_`, `max_size_`, `size_error_`, three paths, mapping | `open`, `write`, `freeze`, `deliver`, `close`/`trash` | a reader of the Maildir sees a message whole, once, and for good; the limit holds; nothing stays in `tmp/` |
| **Sock, SockBuffer, POSIX** | descriptors, buffers, octet counts, `limit_read_`, `maxed_out_`, `timed_out_` | `read`, `write`, `set_max_read`, read hook, `starttls_*` | replies are flushed before a read blocks; a limit or time-out ends reads, visibly |
| **TLS-OpenSSL** | `SSL*`, contexts | `starttls_server`, `starttls_client`, `read`, `write` | one deadline over all turns of a retry loop; no plaintext carried over |
| **DNS** | name server in use, socket, query and answer | `Resolver::xchg`, `Query` | an answer belongs to its query; truncation moves to TCP; a lost answer is no answer |
| **DNS-fcrdns, SPF, CDB, TLD** | - | look-ups | answers; to the session they are verdicts |
| **Send**, **snd** | connection, extensions, replies | an SMTP client as a class, and as a program | replies are matched to commands; a message counts as sent only on a final 2xx |
| **Mailbox, Domain, IP\*** | - | parsing, normalising | a grammar takes the texts that are addresses |
| **Reply, SRS** | - | encode and decode addresses | decoding undoes encoding |
| **message, OpenDKIM, OpenDMARC, OpenARC** | the headers of a parsed message, as views into texts | authentication, sealing, signing, rewriting, removal | what is replaced goes and nothing else; no view outlives its text (not used by the server as built) |
| **msg, mbx, sasl, socks5, dns_tool, arcsign, arcverify** | `msg`: lists and maps filled in by the rules of the fields | tools | DKIM and DMARC are given what the message says |
| utilities, vendored `pcg*`, `picosha2`, retired `jnk/` | - | - | - |

### Where it is hard

* **Partial failure.** Opening, writing, closing, renaming, removing and even `fs::exists` can fail
  in the middle of a handler. Some failures throw, some are logged only; some handlers answer and
  reset and are then continued by a caller that does not look at the result.
* **Two state machines that must agree.** The grammar's position (in a command, in DATA, in a BDAT
  chunk) and `state_` change separately.
* **What survives a transaction.** `reset_()`, the exits, and refused commands each clear a
  different part of the state.
* **Ends.** End of input, time-out and octet limit arrive inside DATA, inside a chunk or between
  commands, and set error bits on the one stream that also carries the replies.
* **Time.** `alarm()` is the only bound on a session, renewed for each message taken for ham.
* **Buffers.** Replies to pipelined commands wait for the next read to flush them.
* **Replies known by their order only.** The clients match a reply to a command by counting, the
  resolver an answer to a question by an identifier that may be drawn twice; what is late or left
  unread is found by whoever reads next.

`PROJECT.json` lists the hazards one by one, each at its line, with the properties that cover it;
section 5 below has those that the code does meet.

## 2. The modules

| module | models | state |
|---|---|---|
| `MessageStoreOps` | the methods of `MessageStore`, as functions from an object to the set of its outcomes (object afterwards, threw or not) | - |
| `MessageStore` | the life of one such object under every legal order of calls, with crashes | yes |
| `MaildirDelivery` | what a Maildir's reader may rely on: the abstract specification that `MessageStore` implements | yes |
| `Session` | one run of the `smtp` program: `Session`'s handlers, the DATA and BDAT loops, `main`'s ending and the alarm; each handler uses the outcomes of `MessageStoreOps` | yes |
| `MailTransaction` | what a client may rely on: the abstract specification that `Session` implements | yes |
| `CommandContext` | `Ctx`, filled by the actions of the command grammar and read by the next handler | yes |
| `Transparency` | which octets of DATA are lines, dots and the end, for the server and for both senders | - |
| `Wire` | one connection of the server, octet for octet: `POSIX`, `SockBuffer` and its two streams, the read hook, the TLS loops | yes |
| `SmtpPeer` | the server that `Send` and `snd` talk to (external): any that keeps RFC 5321's order | - |
| `SendClient` | class `Send` composed with `SmtpPeer` | yes |
| `Snd` | program `snd` composed with `SmtpPeer` and `MessageStoreOps` | yes |
| `Routing` | the order of mail exchangers, and of the names of a client (`DNS-fcrdns`) | - |
| `Addresses` | the addresses of a host that are tried, and the sockets made for them | - |
| `Compose` | which of `snd`'s options make up the message and its signature | - |
| `DnsQuery` | `Resolver` and `Query`: the table of name servers, one question after the other over one socket, packets late, lost and doubled | yes |
| `DnsMessage` | reading and writing names, building a question, checking and reading an answer | - |
| `Message` | `message::parsed` and the operations run on it, with the views into texts | yes |
| `HeaderFields` | `msg`'s rules over the fields of a message, and what DKIM and DMARC are given | - |
| `Certificates` | the choice of a certificate, the verify callback, DANE, the names in a certificate | - |
| `IpAddress`, `ReplyAddress`, `Base64` | the text forms of addresses, reply addresses, base64 | - |
| `MCDnsMessage`, `MCFunctions`, `MCTools`, `MCMessage` | the inputs of the functions, and the properties they are checked against; the messages of `Message` | - |
| `MessageStoreOpsProofs`, `MessageStoreProofs`, `SessionProofs` | lemmas for each method, and the theorems of the two specifications and their refinements; `SessionProofs` extends `CommandContext` too, which is what calls the session, and has its theorem | - |
| `WireProofs`, `DnsQueryProofs`, `SendClientProofs`, `SndProofs`, `MessageProofs` | the theorems of the connection, of the resolver, of class `Send`, of `snd` and of a message | - |

Composition: `Session` and `Snd` use the outcomes of `MessageStoreOps`; `SendClient` and `Snd` run
against `SmtpPeer`; `MCTools` gives what `Compose` has made to `HeaderFields`, the function of the
receiving side, and what `Transparency` has sent to its reading side.

Next to a definition stands, where a run needs one, its wrong version: a plausible slip in the code,
named `<Definition>_<Slip>`, under which TLC finds the property named in `PROJECT.json` violated.

### State and code

**The store.** `MessageStoreOps.Store` has a field per member of the class that matters, and for each
of the three paths what is found there: nothing, a file with every octet accepted since it was
opened, or one that lost some. Octets are counted in units. `Faults` names the system calls that may
fail. A call that throws leaves its object as far as it got, so `deliver()` that fails in `fs::exists`
has renamed, and `write()` that fails has counted its octets.

**The session.** `Session`'s variables are the members of the class, the stream's state (`good`,
`maxed_out`, `timed_out`), the process's (`pc`, `bdat_act`'s locals as `chunk`, `FLAGS_max_write`, the
alarm), and what others can see: the replies to the current command, the number of messages
acknowledged, and what finished messages left in the Maildir (whole, short and abandoned files). A
handler is one action, with all it does: `Lo`, `MailAccepted` or `Rset` end with the whole of
`reset_()`, `DataDone` delivers and closes, `MsgNew` classifies, sets the alarm, opens and writes the
headers, or answers and trashes. Where code is shared (`msg_new`, `msg_write`, `do_deliver_`, the
transfer errors, `reset_`, an exit) it is an operator that the actions use. A handler is cut in two
only where the program waits for the client (each DATA line and each BDAT transfer is an action, `pc`
being `"data"` or `"bdat"`) and between delivery and 250 (`pc = "ack"`), so that the alarm can ring
there. The alarm may ring between any two actions; inside an action it would add only the same reply
over a prefix of the action's effects on the file system, which for `MessageStore` is what `Die` in
module `MessageStore` covers. Uncaught exceptions are followed to where they are caught: out of a DATA
action to the handler in `action<data>` (421, back to commands, nothing reset), from anywhere else to
`main` (exit). A failed `CHECK` and a null dereference are `pc = "abort"`.

**The context of a command.** A command is an abstract text: the kind of its path, its parameters, and
whether the line ends as its rule wants. The grammar's actions have run for every part that matched,
also when the rule then fails and the line falls to the rule for unrecognized commands.

**The wire.** A call is a frame on a stack, since a read that has to wait calls the hook, the hook
flushes, and flushing is a write: `Selecting` is a frame inside `select(2)`, the only place where time
passes. Requests and replies are single octets; what the peer has not yet read fills the socket up to
`Room`. `octets`, `since`, `said`, `heard` relate the buffers to what each side did. A write that fails
returns -1, which the stream takes for a number of octets: it stays good and keeps its buffer, which
begins one place earlier now, with an octet (0) that was no reply; the next hook or flush offers all of
it again (`WriteFails`, `LeftOver`). With `log_data_` the failure throws inside `sync()`, which
sets badbit (`bad`); the parser then throws at its next read (`ParserThrows`), unless the handler of a
transfer in error clears the stream first (`TransferError`). What `std::flush` does with a bad stream
differs between versions of the library, so `Hooked` allows both.

**The senders.** An action ends where the program waits for a reply. `cmds` and `reps` are what is on
its way, and a reply is matched to a command by nothing but its place, as in the code. In `Snd` the
flags are part of the state because the program changes some itself.

**The resolver.** `net` holds the answers on their way; over datagrams they may be lost, doubled and
late, and stay in the socket of the resolver for its next question. A question is an identifier and
what it is about, and identifiers may repeat.

**A message.** A header is its name, who it is by, its addresses or its SPF result, and its view: into
the input, or into the n-th value that one of the message's strings (`ar_str`, `from_str`, `sig`...)
was given. `assigned` counts those values, so that a view is dangling when its number is not the last.

**Functions.** They keep no state, so a state of the runs `functions` and `reply_lost` is one call
with its inputs. The property evaluates the function and compares it with a definition of its own,
taken from the RFC or from what the caller relies on.

### Abstractions

* Verdicts (block and allow lists, DNS, SPF, recipient lists, parsing of addresses, DKIM, DMARC, ARC)
  are nondeterministic. Where the outcome has an effect later it is kept: SPF result and domain, who
  is allow-listed, the flags MAIL parameters set.
* In `Session` only what tells senders apart matters: whether `verify_sender_` reaches the SPF check
  for them, whether they claim to be `localhost`, whether their domain is on the allow list. The null
  path `<>` is one of `Senders`; `NoSender` stands for a cleared `reverse_path_`.
* `spf_result_`, which nothing initialises, starts with any value.
* Left out: the text of replies and headers, logging and pipelining diagnostics (they only log), the
  `wait-...` recipients (they only sleep), the folder chosen for a message, and the commented-out
  forwarding and DKIM code. Test mode adds behaviour only by skipping checks that the model already
  lets go either way.
* Octets and characters that no decision tells apart are one value: a word of an address, a line's
  text, a label's letters. `IpAddress` has the digits, `DnsMessage` and `Base64` the octets.

## 3. What is checked

### Passing runs

| run | module | question | distinct states |
|---|---|---|---|
| `store` | `MessageStore` | any order of calls and crashes, opening, writing, renaming, checking and mapping failing | 905 |
| `session` | `Session` | two transactions over the network on a sound file system | 1.35 million |
| `session_faults` | `Session` | the same on a local pipe, with alarms, and open, write, exists and remove failing | 469 thousand |
| `command` | `CommandContext` | any commands, well and badly written, one after the other | 7369 |
| `wire` | `Wire` | two requests, in the clear or over TLS, in pieces, against a peer that is slow or gone, failed writes repeated | 531 thousand |
| `send` | `SendClient` | four calls over two exchangers, against a server that refuses, is late, or disappears | 160 thousand |
| `snd` | `Snd` | a message, two receivers, any of nine flags turned and a spool that fails | 1.05 million |
| `dns` | `DnsQuery` | three questions over streams and datagrams, two packets late, two lost, two doubled | 482 thousand |
| `message` | `MCMessage` | any order of the operations on messages of up to eight fields, with two Received-SPF or with all else | 1.08 million |
| `functions` | `MCTools` | every small input of the functions | 445 thousand |

**The store.** `NothingSkipped` and `NoHole` say that the spooled octets are a prefix of those offered
and stop at the limit; `OneVisibleCopy` and `NothingLeftInTmp` that a message is in one place and
`close()` cleans up. `KeepsMaildirPromise` is the refinement: `MessageStore` implements
`MaildirDelivery`, where a message grows out of sight, never past its limit, appears in one step with
all of its octets, and stays.

**The session.** `StoredIsAcked` and `AckedIsStored` are the two halves of taking responsibility for a
message: never 250 without it, also when system calls fail, and never a stored message that the client
was refused (and will send again). `ReplyPerCommand` keeps a pipelining client in step.
`PhaseMatchesState` relates the parser's position, `state_` and the message: the `CHECK`s of `msg_new`
and `data_done` rest on it. `EnvelopeFrozen` is about what may change while a message is spooled, and
`OversizeNotDelivered` follows a refused write through every way a message can end. `SessionEnds` is
liveness. `KeepsMailPromise` is the refinement: `Session`, with all of its states, exits and errors,
implements `MailTransaction`.

In runs with faults some of these cannot hold (section 5 says why), which is why `session_faults` asks
only for `AckedIsStored` and `SessionEnds`.

**The context of a command.** `AsWritten`: a handler is given the mailbox, the parameters and the chunk
size that its own command was written with. For the null path and the parameters this is so only as
long as no MAIL or RCPT was refused since the last one that was accepted; see section 5.

**The wire.** `WaitsWithNothingUnsaid` is the absence of the deadlock that unflushed replies would
make. `HeardInOrder` follows each octet through partial and repeated writes: until a write fails the
peer hears each octet once and in order (`OnceInOrder`), and when a buffer of which part was taken is
written again it still hears nothing before what it comes after (`NothingLeftOut`). `CallsAreBounded` is
the one deadline of a call and the limit on what is handed on; `RepliesAreHeard` is liveness.

**The senders.** `MessagesAgree`: what `send()` returns is what the server did, in both directions as
long as nothing is lost, and no message cut off by an error is ever taken for a whole one.
`OutOfStepHasNoMail`: the pipelined MAIL that is refused leaves a reply unread, and it does no harm.
`TakenOnce`, `SaysWhatHappened`: at most one exchanger takes the message from `snd`, and the log, the
copy in `.Sent` and a failing exit status are true. `CallReturns` and `Ends` are liveness.

**The resolver.** `AnswerMatches`: the answer kept is about the question asked. `BalanceIsKept`: how far
the answers lag behind the questions is what the late and doubled packets make it, no more and no
less, and a stream that broke is never read again. `EveryServerIsTried`: the random start and the
wrap of the table reach each entry before the constructor gives up. `QueryEnds` is liveness.

**A message.** `ViewsAreLive`: no header looks into a text that was assigned again. `ResultsAreOurs`:
results of this server are replaced, those of others and everything else kept, in order, below what is
new. `SpfIsOfTheDomain`: no domain is reported twice, and DMARC is told only what this server found, of
the domain that the field says was checked, which may be none (section 5).

**The functions**, compared with definitions of their own: `NamesAreRead` (RFC 1035 names and answers,
each octet of an answer damaged in turn), `DataArrives` (dot stuffing and line ends, sender to server),
`EncodedIsDecoded` (reply addresses, base64), `ServersAreReached` (exchangers, addresses, sockets,
names of a client), `FieldsAreHeld` (authors, sender and SPF results of a message in `msg`, those of
messages that `snd` composes included), `PeerIsChecked` (certificates and DANE), `AddressesAreRead`
(IPv4 and IPv6 grammars against the numbers they stand for).

A property that is a conjunction names its parts, each stated in a comment of its own.

### What the code does otherwise than it says

| run | behaviour |
|---|---|
| `lost_by_rename` | the rename into `new/` fails and is logged; the client hears 250; `close()` removes the file |
| `reply_lost` | an address that begins with `rep=` is encoded, and decoded as one of the legacy form; a blob of less than 26 octets is not decoded at all |

### Bounds

No bound is in the code unless it says so here; each is named in its module's CONSTANTS.

* `MessageStore`: the limits 0, 3 and 4 against pieces of 1 and 2 with 6 units offered include every
  alignment: met exactly, crossed by one, crossed and then offered a piece that would fit.
* `Session`: `MaxMessages = 2`, as a second message is what it takes for something of the first to
  survive. `MaxRecipients` is 2 (one, and the limit), `MaxUnrecognized` 2; limits of 3 and 5 units,
  1 for the headers, lines of 1 and 2. Chunks take no transfer, one, or two. Two senders, one checked
  by SPF and one not. Time is in minutes, 2 and 5 as in the code.
* `CommandContext`: two local parts and two keywords, so that one may be taken for the other; two
  parameters, so that one may repeat; a streamsize of at most 7 (`MaxSize`) against 7, 8 and 17: the
  greatest, the first that turns negative, one too large for the unsigned type.
* `Wire`: two requests against a limit of two, so that the limit is met exactly, in one read or by the
  second; room for one reply in the socket, so that a write is partial as soon as two are due, and can
  fail half way; time-outs of 2 and 1 ticks, which tells them apart; two odd events (`MaxOdd`:
  interruptions, empty records, transfers in error); a peer that reads four octets (`MaxHeard`), more
  than are said, since a failed write is heard again.
* `SendClient`: four calls are an envelope, a message, and the same again; two exchangers, two chunks.
* `Snd`: two receivers, for one to follow another; sizes of 2 units against a limit below it.
* `DnsQuery`: two name servers, for the wrap; two identifiers and two questions, for an identifier to
  come again with the other question; `xchg_`'s three tries against up to four packets too many.
* `Message`: two servers; up to two fields of each kind that is replaced, one before and one after;
  two Received-SPF, with helo told, not told or not a domain.
* The functions: the sizes in `functions.cfg`. Where the code has a constant that is out of reach (63
  and 255 octets of names, 256, 998 of a line) the constant is a parameter and small, in the same
  order; `MaxIndirs` (50) and `MinBlob` (26) are the code's.

`CHECK_DEADLOCK FALSE` in the runs whose system stops: a process ends, a history is bounded, a
function returns.

### Fairness

* `Session` (`session_faults`): `greeting()` gets done (each of its waits is `Config::greeting_wait`,
  and DNS reads time out), time passes, and a signal that is due is delivered. Nothing is assumed of
  the client: it may stay silent in any state. What carries `SessionEnds` is in the code: `alarm()` is
  set before the first command is read, and again only in `msg_new`, so at most `MaxMessages` times
  here. Without that bound a client that keeps sending ham keeps its session, as the code intends.
* `Wire`: the program runs when it can, and time passes inside `select(2)`; the peer reads what it is
  sent (without which nothing is heard). The peer need not send, nor keep its end open. When the input
  has ended or failed the program writes a last reply and flushes it (`WF_vars(ibad /\ Flush)`, `max_out`
  and `time_out`); that this takes the replies before it along is so for a library whose `std::flush`
  does not ask whether the stream is good (libstdc++ before 12). With a later one the replies
  to what was pipelined just before the limit or the time-out stay in the buffer.
* `SendClient` and `Snd`: the program takes its steps, and a read that waits ends, after two minutes in
  `Send` (Send.hpp:15) and after 24 hours in `snd` (snd.cpp:133). Nothing is assumed of the server or the
  network.
* `DnsQuery`: `connect(2)` and `read(2)` return, by their time-outs if need be. Nothing is assumed of
  the network: an answer may never come.

## 4. What is proved

All for any values of the constants that meet the assumptions named beside them.

| theorem | says |
|---|---|
| `StoreTypeCorrect` | `Spec => []TypeOK` |
| `StoreWithinLimit` | `Spec => []SizeWithinLimit` |
| `StoreDeliversWhole` | `Spec => []DeliveredIsWhole` |
| `StoreHasNoHole` | `Spec => NoHole` |
| `StoreDeliveryIsFinal` | `Spec => DeliveryIsFinal` |
| `StoreSkipsNothing` | `Spec => []NothingSkipped` |
| `StoreHasOneVisibleCopy` | `Spec => []OneVisibleCopy` |
| `StoreLeavesNothing` | `Spec => []NothingLeftInTmp` |
| `StoreKeepsMaildirPromise` | `Spec => KeepsMaildirPromise`, if closing a file does not fail |
| `SessionTypeCorrect` | `Spec => []TypeOK` |
| `SessionOpenHasEnvelope` | `Spec => []OpenHasEnvelope` |
| `SessionOversizeNotDelivered` | `Spec => []OversizeNotDelivered` |
| `SessionBinaryMimeNotByData` | `Spec => []BinaryMimeNotByData` |
| `SessionAckedIsStored` | `Spec => []AckedIsStored`, if closing and renaming do not fail |
| `SessionEnvelopeFrozen` | `Spec => EnvelopeFrozen`, if `fs::exists` does not throw |
| `SessionStoredIsAcked` | `Spec => []StoredIsAcked`, if `fs::exists` does not throw |
| `SessionPhaseMatchesState` | `Spec => []PhaseMatchesState`, if nor do opening and writing |
| `SessionReplyPerCommand` | `Spec => []ReplyPerCommand`, likewise |
| `SessionKeepsMailPromise` | `Spec => KeepsMailPromise`, if nor do closing and renaming |
| `CommandReachesAsWritten` | `ContextSpec => []AsWritten` |
| `WireWaitsWithNothingUnsaid` | `Spec => []WaitsWithNothingUnsaid` |
| `WireHeardInOrder` | `Spec => []HeardInOrder` |
| `WireCallsAreBounded` | `Spec => []CallsAreBounded` (the types, the limit, one deadline) |
| `SendClientMessagesAgree` | `Spec => []MessagesAgree` |
| `SendClientOutOfStep` | `Spec => []OutOfStepHasNoMail` |
| `SndTakenOnce` | `Spec => []TakenOnce` |
| `SndSaysWhatHappened` | `Spec => []SaysWhatHappened` |
| `DnsEveryServerIsTried` | `Spec => []EveryServerIsTried` |
| `DnsAnswerMatches` | `Spec => []AnswerMatches` |
| `DnsBalanceIsKept` | `Spec => []BalanceIsKept` |
| `MessageViewsAreLive` | `Spec => []ViewsAreLive` |
| `MessageResultsAreOurs` | `Spec => []ResultsAreOurs` |
| `MessageSpfIsOfTheDomain` | `Spec => []SpfIsOfTheDomain` |

Together they state every invariant that a run checks of a module with a state.

The hypotheses are necessary: `lost_by_rename` (with either fault) shows it for `SessionAckedIsStored`;
a `trash()` that throws inside DATA leaves the old message behind for the next transaction; a stream
that fails to flush makes a file short behind its reader's back.

**The store.** Types and the limit are inductive as they stand. `DeliveredIsWhole` needs more: a file
only becomes short by a write that throws, after which the owner may not deliver, so while the phase
is `"spooling"` the file in `tmp/` is whole. That is the first invariant. `NothingSkipped`,
`OneVisibleCopy` and `NothingLeftInTmp` have a second one, `Files`: what each phase says of the three
paths and of the count. For the refinement every action is shown to be a step of `MaildirDelivery` or
to leave `where`, `size` and `limit` as they are, from both invariants. `MessageStoreOpsProofs` states
for each method the fields it may change, so that the step lemmas never expand a method.

**The session.** None of the safety properties is inductive: each leans on how the grammar's
position, `state_` and the message go together. The invariant is `IInv == TypeOK /\ Kernel`, where
`Kernel` is the conjunction of

* `Patient`: a running session has not used up its unrecognized commands;
* `Positions`: which states have a sender and recipients, which states go with which `pc`, that a
  message exists only in the states that have an envelope, and that DATA is not BINARYMIME;
* `SpoolIsSound`: a message that can still be written to is an open, sound stream and is not in `new/`;
* `OversizeNotDelivered`;
* `Accounted`: `acked <= maildir.whole`, and between delivery and 250 there is one more whole file
  than acknowledged, counting the one the message object holds (this is what makes the 250 safe);
* `NothingLeftOver`: if `fs::exists` works, a message outlives its command only between BDAT chunks.

`Kernel` was checked by TLC before it was proved. The proof has a lemma for each shared operator
(`MsgNew`, `TrashAndReset`, `DoDeliver`, `WriteFailed`, `Reset`, the exits) and a step for each action.

The second part of `SessionProofs` goes on from there. `Spools` and `Delivers` are its assumptions on `Faults`: that
opening, writing and `fs::exists` work, and that closing and renaming do too. Under `Spools` the
invariant is `WInv == IInv /\ Aligned /\ Said`. `Aligned`: where the session takes content it has a
message to put it in, and where it has no transaction it has neither sender nor recipient. `Said`: the
replies so far are what the grammar's position calls for. It gives `PhaseMatchesState` and
`ReplyPerCommand`; why it fails without `Spools` is in section 5. `StoredIsAcked` has an invariant of
its own (`AckBound`, the other half of `Accounted`) and needs `fs::exists` only. For the refinement the
phase of the abstract transaction is read off the members (`Gathered`: a message, a recipient, a
sender, nothing), and each action is shown to be the abstract step of that phase
(`DataMaps`, `BdatMaps`, `AcknowledgeMaps`, `OtherMaps`) or to leave what the mapping shows alone.

**The wire.** `IInv == TypeOK /\ Metered /\ Stacked /\ InOrder`. `OneDeadline` is not inductive: the
age of a call says nothing of how long it will still wait. So `Timed` bounds age and time left
together: a write or a handshake ends within its own time; a read alone within its own and a flush's;
a read below a flush within its own time and the flush's age. It needs `Nested`, the shape of
the stack: only a write is ever above another call, and unless a flush began inside a write there are
at most a flush and the read that waits for it. `Flushed` is `WaitsWithNothingUnsaid` for the call on
top in any state of the program, with the exceptions of `Spent`. `InOrder` carries the numbers of what was said through three places:
what the peer has read, what the socket holds, and the output buffer, of which the write on top has
already passed on `Done`. `Metered` puts what was handed on below what was read. The step lemmas are in
two layers: what a step can do to the stack (`StackGoesOn`, `StackEnds`, `StackFlushes`, `StackAges`...)
and to the order (`OrderStays`, `OrderTaken`, `OrderGivenUp`...); an action cites one of each. Behaviours in
which a write has failed (`failed`) or a flush began inside a write of TLS (`reentered`) are excepted, as
in `OnceInOrder`; there octets are heard twice.

For those there is a second invariant, `Whole`, from which `NothingLeftOut` follows. An octet may be
heard if the one before it has been, and `Seen` is what has been, by the peer or by the socket. What the
output buffer holds, and what each write under way, interrupted ones too, still has to write, is
`Chained`: each of its octets is preceded by the one before it in the chain or by one that was seen. The
chain ends where the next reply begins (`Ended`). Seeing more can only help (`SeesMore`), so
a failed write, which starts the chain anew, does no harm to any.

**The resolver.** `BalanceIsKept` relates answers not yet read to packets lost, late and doubled, and
`IInv` adds to it what it leans on: `TriedInTurn` (which entries of the table the start and the wrap
have visited, counted modulo its length), `Unasked` (before the first question nothing is under way),
`OneAnswer` (a stream holds at most the answer to its one question), and `TriesSpent` (the answers
with another identifier still to be read and the tries of `xchg_` already spent on such are together no
more than those that were there before the question, and the doubled ones).

**Class Send.** `OutOfStepHasNoMail` speaks of one reply left unread between two calls; that it does
no harm depends on what every later call makes of it, so the invariant has to say for each state of
the client what may be on the connection. `Link` gives it three shapes while the connection is open and
good. `InStep`: what is under way is the command of the state and its reply, and what the server keeps
is what the client believes (`Before` it reads the command, `After` it has answered). `Pipelined`: MAIL
and RCPT, or one reply of the two, or both. `Stale`: one reply too many, for good, and a server without
a transaction; no command of the states in which it can be is MAIL, so it stays without one. Once a read
has failed (`good` is false) the client no longer listens, and what matters is what the server may still
take (`Harmless`): it has no transaction and will see no MAIL, or it will see no end of a message, or it
will see the end of one whose chunks have all come. `Took` is `StoredIsSent` with the reply that is
still to be read. The lemmas are in three layers: how the peer may answer a command (`AnswerParts`, a lemma
for each verb), what a read may find (`ReadCases`: the reply is that of the command in hand, of MAIL, or of an
earlier one), and one for each handler.

**Program snd.** Neither property is inductive, and a reply is known only by its place. `Once` is the
heart of the first: at most one end of a message (final dot or last chunk) is on its way to the present
server, none if the message was taken, and none while the program is in a state from which it may still
try another host (`Unwritten`). For the failures the invariant has to say why it is too late for the
message to be taken: `Hopeless` is that MAIL, RCPT or the end has been answered and refused. With the
message in one chunk ahead of the first reply, a 5xx read as the answer to MAIL may, with `--noop`, be
that to RCPT or to the chunk; `InTurn` says that every reply that will be looked at (the first `Needed`
of them) is 250 or the case is hopeless. For the successes `Aligned` counts: without NOOPs, what is under
way before the end is written is what is `Expected`, and from then on the end, or its reply, is at place
`Needed`, so the 250 looked at last is the right one. `Awaits` brings the count to the envelope: one
reply due at most, or a NOOP's 250, which no reader of AUTH takes for its own. TLC checked the invariant
first, on `snd`'s constants and with `--badpipline` and without pipelining. The lemmas: how a server may
answer (`Answered`), what a step does to the connection (`Grows`, `Shifts`, `Serves`), what the copy for
.Sent keeps (from `MessageStoreOpsProofs`, with `SndFaultsAssumption`), and one for each action.

**The context of a command.** The invariant is `CInv == AsWritten /\ EmptyContext /\ Mapped`.
`EmptyContext` is what `<>` and the parameters rest on: as long as no MAIL or RCPT was refused since one
was accepted, the mailbox and the parameters in `Ctx` are empty when the next command comes, for
`action<mail_from>` and `action<rcpt_to>` clear them. `Mapped` is that the parameters are a map. The rest
of the proof is about `EsmtpParams`, a recursive function over the parameters of a command: that it is a
function at all (`EsmtpParamsAre`, from `Recursion`), that what it gathers has the keywords written, each
with its first value (`ParametersAreFirst`), and that this is the value `ParametersAsWritten` chooses
(`FirstExists`). All three are inductions over the number of parameters, in the form of sets: a set of
numbers that has 0, and n + 1 with each n, has all, since a number left out would have a least one below
it, and `<` is well-founded (`WellFoundedInduction`).

**A message.** Each property of a message is about sequences before and after many operations, and the
operations are all of one kind: headers go, and new ones come on top. So the proof has one relation,
`Changes(old, new, gone, put)`: there is a map from the positions of `new` to those of `old`, or to 0 for a
header put in, increasing where it is not 0, and 0 above; what is not hit is in `gone`, what goes to 0 is
in `put`. Erasing is such a change (`PartChanges`), so is `parse_hdr` (`TopChanges`), two in a row are one
(`ChangesTwice`), and it keeps what has to be kept: that there is one of a kind, at most one, or none
(`ChangesKeep`). The inductive invariant is `IInv`, the conjunction of

* `Typed`, and `Changes(arrived, headers, Gone(called), Put)`: what has happened since the message arrived
  is what the operations called are said to replace;
* `Live`: the strings that headers view have not been assigned since;
* `Once`, which `Live` needs: which operation has assigned which string. It is why no string is assigned
  twice: `sig_str` by its `CHECK`, `from_str` and `reply_to_str` because the same operation signs,
  `ar_str` and `arc_hdrs` because no program authenticates or seals a second time (the guards of
  `Authentication` and `ArcSign`);
* `OneOwn`, `Rewritten`, `SealedIsOwn`: `OneOwnResult`, `RewrittenOnce` and `SealedAreOwn` in terms of
  sets of headers, which `ChangesKeep` takes through the operations that are about others.

`NothingElseErased` and `NewAboveOld` follow from `Changes`; for the second, the positions hit are the
headers kept, and that `Part` lists them is `InOrderIsOnly`: there is one increasing enumeration of a set.
`InOrder` is defined by ranks, the prover having no definition of `SelectSeq`. `SpfIsOfTheDomain` needs in
addition that no operation puts in a Received-SPF, so that those read are those that arrived (`Put`), and
that only an authentication tells DMARC anything (`ToldByOne`), so that what it was told stays the
server's.
`TextsAssumption` and `IncomingAssumption` say that the strings the operations write are strings, and that
a message arrives with headers that view the message.

**Only model-checked**: liveness (`SessionEnds`, `RepliesAreHeard`, `CallReturns`, `Ends`, `QueryEnds`),
and the functions: what the run `functions` asks is of constants chosen for TLC, and most of the
functions are `RECURSIVE` operators or folds.

**Out of reach of the prover**: liveness and `ENABLED`; theorems that take an operator as a parameter,
which is how the library states induction and what a recursive definition or a fold computes (for
`CommandContext` both are proved anew, for sets and for one function); anything in a module that reaches
a `RECURSIVE` operator.

## 5. What the code does that a reader may not expect

Found while modelling, and part of the models unless it says otherwise; where a property has a condition that seems
out of place, the reason is here.

**Session and smtp**

* A write that fails in DATA answers 451 and drops the message; the lines that follow and the final
  dot find no message, and `data_done`'s `CHECK(msg_)` ends the process. In BDAT, `bdat_act`
  answers once more (Session.cpp:907, 1130; smtp.cpp:553).
* With opening failing, a first BDAT answered 451 leaves `state_` at bdat, and a `BDAT 0` that follows is never
  answered: `bdat_done` returns at Session.cpp:1315.
* With closing failing, `try_close_` swallows that the last octets were not written: a short file is
  delivered and acknowledged (MessageStore.cpp:73).
* RSET (also HELO, EHLO or STARTTLS) between chunks destroys the message object and leaves its file in
  `tmp/` (Session.cpp:287).
* `reset_` takes a session that was never greeted to "mail" like any other, so RSET before HELO opens
  the way to MAIL (Session.cpp:293).
* The flags of a MAIL that is refused stay (1935); the SPF result of one sender may judge the
  next (1806); the size limit is that of the first message, whatever STARTTLS then announces (837).
* A time-out between commands: the 421 goes to a stream in an error state and is not heard
  (smtp.cpp:789).
* A mailbox and parameters gathered for a line that was then refused stay in `Ctx` until the next MAIL
  or RCPT that is accepted: there `<>` stands for that mailbox, and the parameters are added.
* `IP::is_private` is given the address literal with its brackets (Session.cpp:1551), so it is never
  true there.

**Wire and TLS**

* A write that fails returns -1 (POSIX.cpp:119-143, SockBuffer.cpp:76-92), which `sync()` of the
  stream buffer uses as a count and otherwise ignores: the stream stays good, its buffer is kept whole,
  and with it the octet before it. Whatever part of a reply had gone out before the time-out
  goes out again at the next flush, behind that octet; so `OnceInOrder` ends with the first failed
  write. STARTTLS goes on although its reply could not be flushed. A buffer that overflows
  (more than 4096 octets between two flushes) writes in the same way and is not modelled.
* A read or write that fails while data is logged builds a string of length -1, which throws
  (SockBuffer.cpp:69, 87); the exception ends in the stream, as badbit, and the program at its next read
  of a command, unless a transfer in error clears the stream. A read that reaches the limit exactly is
  thrown away.
* `SSL_accept` and `SSL_connect` returning 0 are taken for success. `SSL_write`'s WANT_READ calls the
  hook, which may flush inside a flush and send octets twice; `reentered` marks those behaviours, and
  `HeardInOrder` and the deadline exclude them.
* Time left is computed before the hook runs; `select(2)` interrupted ends the process (PCHECK).
* A client's chain that was not verified counts as no identity, no more; with DANE enforced too.
* An IPv4 address in a certificate becomes a bracketed literal and matches no name.

**Send and snd**

* A final dot that is refused ends `snd` with EXIT_SUCCESS (snd.cpp:1822), and so does having no
  receiver left (2014). The copy for `.Sent` stays in its spool when the program fails.
* `--noop` and `--badpipline` shift the replies by one; `SaysWhatHappened` excludes them.
* After a HELO `use_esmtp` stays off for the hosts that follow (1471); what was announced before
  STARTTLS is used after it (1493, 609); `force_smtputf8` is found after `use_smtputf8` was used (1900).
* A local address of one family ends the program when an address of the other is tried (639-739).
* An empty line ended by LF alone is sent so, though the comment says it is converted (1794-1808).
* `Send` looks at the last character of an empty line (Send.cpp:739), which is undefined; the model
  lets it be either. Only `Send-test` uses the class.
* With a CNAME among the MX records the comparison is no order; `std::unique` is used without erase in
  `DNS-fcrdns`, so unspecified names follow the good ones.

**DNS**

* The extended RCODE is taken from the octet of VERSION instead of EXTENDED-RCODE
  (DNS-message.cpp:612, against the diagram at 118). An answer without a single record, a bare NXDOMAIN
  too, is refused (558).
* A late answer makes the resolver send its question again, and the second answer then makes the
  next question late: the lag is never worked off until the resolver is made anew.

**Messages and addresses**

* In `msg` the keys of all Received-SPF fields of a message are laid over one another, since `kv_list` is
  never cleared (msg.cpp:1229): a field without `client-ip` or `envelope-from` is judged by those of an
  earlier one. With none before it, `operator[]` gives `set_ip_str` the empty text, which is LOG(FATAL)
  (msg.cpp:1249, SPF.cpp:92-103), as for a `client-ip` that is no address; a name or path
  that libspf2 refuses, or a check without a result, fails a CHECK (SPF.cpp:112-119, msg.cpp:1258). A Received-SPF that was read is not
  given to DKIM. A message of several authors and a Sender asks DMARC about the sender's domain only;
  one of none, or without Sender, about an empty one. A quoted `envelope-from` is LOG(FATAL).
* `authentication` (message.cpp) asks for `helo` by `operator[]`, which puts an empty one in, and
  `Domain::validate` takes the empty name (message.cpp:923, Domain.cpp:34-71). So a Received-SPF without
  helo is reported like any other, and one that says `identity=helo` tells DMARC of an empty domain; the
  warning for a missing helo key (765) cannot be reached. Each field reported with a `client-ip` begins
  a new OpenDMARC context (OpenDMARC.cpp:48-53), so only what is told of the last one counts there.
* Results written with `arc=unknown` cannot be read by the program's own parser; authenticating a
  second time leaves two. Sealing and signing are called once per message by every program.
* `Base64::enc` with a wrap aborts for a text that ends with padding at the end of a full line; only
  the test passes one (Base64.cpp:93).
* `IP4::is_private` compares octets as written, so with needless zeros it fails; `IP6::is_private` is
  a prefix of the text.

## 6. Not modelled

* **DNS-ldns**: a wrapper of libldns without state, linked only into tests. **CDB, TLD**: read-only
  lookups; their answers are verdicts. **SPF, OpenDKIM, OpenDMARC, OpenARC, SRS**: bindings whose
  libraries decide; the calls made of them and the order of the calls are in `Session`, `Message` and
  `HeaderFields`.
* **DNS-rrs**, the data and printing of single record types; the construction of OpenSSL contexts.
* **Mailbox** syntax and Unicode normalisation: parsers without behaviour over time.
* **mbx, sasl, socks5, dns_tool**: conversions and short exchanges with fixed text, run by hand.
* **Pill, Magic, Now, osutil** and the small headers: unique names and wrappers. File names are taken
  to be unique in `MessageStoreOps`.
* **pcg, picosha2** (vendored) and **jnk** (retired, not built).

## 7. The plan

Done, in the order it was planned: the store, the session and their proofs; the two abstract
specifications; the wire; the context of commands; the senders; the resolver; messages; the functions;
the proofs of the wire, the resolver, the senders, the context of commands and messages.

Left, by what it would add:

1. More from the invariants there are: action properties of the senders and of the wire.
2. `Session` on top of `Wire` and `CommandContext` instead of beside them: which octets a failed
   chunk leaves to be read as commands.
3. The data of DNS records, and the syntax of mailboxes.
