# Verification of the raw-socket HTTPS server

TLA+ models, TLC runs and TLAPS proofs for the server in `src/`: an HTTPS server
that reads Ethernet frames from a raw socket and implements TCP, TLS 1.3, HTTP/1.1
and a small orders service in Go.

## 1. The system

| Part | Source | State | Operations |
|---|---|---|---|
| sequence arithmetic | `tcp/seq.go` | none | `seqLT`, `seqLE`, `seqGT` on wrapping 32-bit numbers |
| send half | `tcp/connection.go`, `processAck` in `tcp/stack.go` | SND.NXT/UNA/WND, WL1/WL2, `sendUnsent`, `sendQueue`, `rto`, `rtoTimer` | `Write`, `pumpSendLocked`, `processAck`, `onRTO`, `Close` |
| receive half, closing | `handleSegment`, `Read`, `Close` | `State`, `RecvSeqNum`, `readCh`, `readChClosed`, `overflow` | one case per state, `abortConnection`, `timeWaitCleanup` |
| connection table, listener | `tcp/stack.go` | `connections`, `listeners`, accept channel | `recvLoop`, `handleRaw`, `handleSYN`, `Accept`, `removeConnection` |
| options, segment building, wire formats | `tcp/options.go`, `tcp/send.go`, `model/` | none | `parseMSSOption`, `sendSegmentAt`, `FlushToBytes`, `Parse...`, checksums |
| TLS record layer and connection | `tls/record.go`, `tls/conn.go` | keys and record number per direction, buffers | `Seal`, `Open`, `Read`, `Write`, `readHandshakeMessage` |
| TLS handshake, key schedule | `tls/handshake.go`, `tls/keyschedule.go`, `tls/transcript.go` | transcript, secrets, `handshakeDone`, `handshakeErr` | `Handshake` |
| TLS messages | `tls/messages.go` | none | `parseClientHello`, `marshal...` |
| cryptography | `tls/x25519.go`, `tls/cert.go` | server identity | `x25519`, `x25519Base`, `signCertificateVerify` |
| HTTP | `http/` | request being read, routes | `ReadRequest`, `ServeMux`, `WriteResponse`, `Serve` |
| orders | `orders/` | SQLite table, pool of one database connection | `Create`, `List`, `Get` |
| main | `main.go` | - | accept loop, one goroutine per connection: TLS handshake, `Serve`, `Close` |
| ICMP echo, scripts | `icmp/`, `*.sh`, `test_e2e.py` | none | not part of the running server |

**How they interact.** One goroutine, `recvLoop`, parses every frame and runs
`handleSegment` (or `handleSYN`) for it. It pushes connections into the accept
channel and data into each connection's `readCh`; both are bounded and both
pushes block the loop. The application goroutine of a connection calls `Read`,
`Write` and, at the end, `Close`. Each transmission may arm a runtime timer that
calls `onRTO` in a goroutine of its own. A connection that reaches TIME_WAIT gets
a `timeWaitCleanup` goroutine. `c.mu` protects `Write`, `processAck`, `onRTO` and
the teardown; `Close`, and `handleSegment` when it writes `State` and
`RecvSeqNum`, take no lock. Above TCP each connection has one goroutine: it runs
the TLS handshake, reads one request, calls a handler, writes one response and
closes. These goroutines meet in the order store, whose pool is pinned to one
database connection.

**What is hard.** The races of these goroutines; a network that loses,
duplicates and reorders; sequence numbers that wrap; callbacks of timers that
were stopped too late; bounded channels inside the only receive loop; a cleanup
that wakes up after its connection's key has been given to another; two sides of a
handshake that must change keys and count records in step, over messages cut
anywhere; streams that end anywhere; nested lengths and limits at their boundary. `hazards` in
`PROJECT.json` lists them line by line with the properties aimed at each.

**What makes it correct.** The peer reads exactly the written stream, and all of
it (send half). The application reads exactly the peer's stream, then its end
(receive half). Every connection that completes the handshake is served once,
and every connection that is open is found, every one that is over is not (table).
Client and server agree on every key, hash and record number, and the application
sees two streams that begin with the handshake (TLS). A request is accepted exactly
if it is well formed and complete, and the service behaves like one book of orders
that handles one request at a time (HTTP, orders). What is serialised is read back
as it was (formats); the ladder computes multiples of its point (X25519).

## 2. Modules

| Module | Models |
|---|---|
| `SeqNum` | `seq.go`, over a circle of `2 * Half` numbers (`Half` is 2^31 in the code) |
| `TCPSend` | the send half of one connection after the handshake |
| `SlidingWindow` | what the send half promises: three marks on an unbounded stream |
| `TCPTransfer` | `TCPSend`, a lossy network and a peer: reliable delivery |
| `TCPConnection` | extends `TCPSend` by the receive half and the closing states |
| `TCPStack` | table, listener and life of many connections |
| `TLSConn` | record layer, `Conn`, handshake, key schedule and transcript of one TLS connection, and its client |
| `SecureChannel` | what TLS promises: two streams, opened by the handshake |
| `HTTPServer` | the goroutines of all connections: `ReadRequest`, router, handlers, store, response |
| `OrderBook` | what the service promises: an atomic, numbered book of orders |
| `Bytes` | big-endian numbers in byte strings |
| `Packets` | Ethernet, IPv4 and TCP formats, checksums, MSS option, echo reply |
| `TLSMessages` | the ClientHello parser and the server's marshallers |
| `HTTPLines` | `readLine`, `parseRequestLine`, `parseHeader` |
| `X25519` | the key exchange, ladder step by ladder step |
| `Algorithms` | the last four side by side |
| `TCPSendProofs`, `TCPTransferProofs`, `TCPConnectionProofs`, `TCPStackProofs`, `TLSConnProofs`, `HTTPServerProofs`, `WireProofs`, `HTTPLinesProofs` | the theorems |
| `MCTCPSend`, `MCTCPTransfer`, `MCTCPConnection`, `MCTCPStack`, `MCTLSConn`, `MCHTTPServer`, `MCAlgorithms` | instances for TLC |

Definitions whose name has a suffix after an underscore (`Chunks_OneSeq`,
`RecvFin_KeepsState`, ...) are seeded faults, used only to show that a property
would notice them. `PROJECT.json` maps every definition to its lines.

### TCPSend

A chunk of data is an interval of offsets into the application's stream, so the
properties can say which byte travels under which number. What runs under `c.mu`
is one action. `pumpSendLocked` is the tail of `Write` and of `ProcessNewAck`, as
in the code; its loop is summarised by `PumpBytes` (how much the window lets out)
and `Chunks` (the cut into segments of at most `mss`). `processAck` is
`ProcessNewAck` or `ProcessOtherAck`. The timer is three-valued: `nil`, `armed`
and `fired` (expired, `rtoTimer` not nil, not yet reset); `pending` counts expired
timers whose `onRTO` waits for the mutex, so a callback may run after its timer
was stopped or re-armed. `Close` is three actions: the FIN, the load and the
store of `c.SendSeqNum++`. `Teardown` is what abort and removal do to this half.
`out` is what the last step put on the wire.

Abstracted: PSH flags; pure and challenge ACKs (they carry no stream data); a
store of `Close` that lands in the middle of one pump (the pump is atomic). The
handshake is assumed to have ended with SND.UNA = ISS + 1, as it does when the peer
acknowledges our SYN.

### TCPConnection

`handleSegment`'s ESTABLISHED case is split where other goroutines can interfere:
reading `State`, `processAck`, taking the data, the push into `readCh`, the FIN,
closing the channel (`recvPc`). `Close` reads and writes `State` in two actions.
The other cases are one action each: by then the application is done with the
connection. The peer is honest, but any segment it may ever send can arrive at any
time, which covers loss, duplication and reordering. The branch into CLOSING needs
a FIN without ACK, which `processAck` has already refused: it is unreachable, and
the model shows it. `TimeWaitExpires` makes `State = CLOSED` and the teardown one
step, because nothing inside a connection tells a segment that comes between the
two from one that comes before; `TCPStack` keeps them apart.

### TCPStack

Connections are numbered objects with a key (the peer), a state and an
application goroutine. A segment is reduced to its flags and to whether its
numbers are acceptable. `Delete` removes the entry of a key, whichever connection
it leads to, as `delete(s.connections, key)` does. To close a connection and to
delete its entry are two steps: `Closes` and `FinishDelete` in the receive loop,
`TimeWaitCleanup` and `RemoveConnection` in the goroutine of TIME_WAIT (`removing`
holds those between the two). That goroutine writes `State` without a lock, so the
receive loop may find a connection that is already CLOSED.

### TLSConn

Cryptography is symbolic: a hash is the list of messages hashed, a secret the list
of labels and inputs mixed into it, and a sealed record opens only with the secret
and number it was sealed with. What is checked is therefore the protocol around
the primitives: which transcript goes into which secret, which secret protects
which record, when each direction changes keys, and what happens to the record
number. `runHandshake` is split at its reads and writes (`pc`): each step of the
code's numbered list is an action or a part of one. Every write to the connection
below may fail, the ServerHello's (`WriteServerHelloFails`), those of the flight
(`WriteFails`) and those of the application (`WriteChunkFails`); a record that was
sealed for a write that fails has used up its number. A
handshake message is cut into two header units and one body unit, so records can
end inside the header, inside a message and between messages, and can hold several
(`ReadHandshakeRecord`, `Buffered`). After the handshake `Read` is one action per
record and `Write` one per chunk; one goroutine calls both, as in `main`. It does
not read on after `Read` has failed, but it may write, as `Serve` does to answer a
request that broke off; it does neither after `Write` has failed.

The client is external and follows RFC 8446 on its own: it derives its secrets
from the labels of the RFC, not from the server's definitions, and checks every
record and value. `Clients` also has clients whose ClientHello must be refused,
whose Finished is wrong or followed by other bytes, who skip it and send data, send a
record of nothing but padding (`errEmptyInnerPlaintext`), update their keys or leave,
with an alert or in the middle of a record.

### HTTPServer

A connection's input is the list of its lines, the number of bytes behind the
blank line, and how the stream ends (`EOF`, an I/O error, or open: the reader
blocks). `ReadRequest` follows the order of the checks in the code, with the
header limit looked at before the line and EOF told apart from an EOF inside a
line or the body. `Serve` runs the handler up to its call of the store; a statement
takes a database connection, works on it, and gives it back. Each database
connection to `:memory:` has a database of its own and only the first has the
table; that is why `MaxOpenConns` is 1, and the seeded fault raises it. Rows are
named after the connection that created them. The database may fail before,
during and after a statement. The layout of response headers is left out.

### Formats and computations

`Packets`, `TLSMessages`, `HTTPLines` and `X25519` translate the functions of the
program as operators, and its loops as one action per turn. They are compared with
definitions that do not look like the code: a parser with the inverse of an
encoder over all inputs, intact or damaged; the option loop with the existence of
a tiling of the option block; the checksum with the sum of all bytes modulo
2^16 - 1; `readLine` and the line parsers with the grammar, as all ways to cut a
line; the ladder with point addition in affine coordinates. A 32-bit number is a
pair of halves, because TLC has no larger integers. Lengths of 32 bytes in TLS
messages are 2. `X25519` takes the field's prime and the curve as constants; the
instance is y^2 = x^3 + 22 x^2 + x over the field of 113 elements, with 7 bits for
255, small enough to compare with a complete addition law, for points on the curve
and on its twist.

## 3. Runs

Runs that pass:

| Run | Shows |
|---|---|
| `send_half` | queue, timer, backoff, sequence numbers and wire are consistent for any acknowledgement, and `TCPSend` implements `SlidingWindow` |
| `transfer` | the peer reads the written stream; everything written is acknowledged in the end |
| `connection` | the whole connection uses its send half only as `TCPSend` allows (so the theorems about `TCPSend` apply to it); one cleanup per TIME_WAIT; delivery in order, no send on a closed channel, readers released |
| `stack` | each connection handed over exactly once and in the end; the table leads to a closed connection only while somebody is about to remove it |
| `tls` | an RFC client accepts everything the server sends; no key and nonce twice; both sides in step when the handshake is done; a failure is final; the handshake ends; `TLSConn` implements `SecureChannel` |
| `server` | `ReadRequest` accepts exactly the well-formed, complete requests; no order from a truncated one; 500s only with their cause; every request is answered; `HTTPServer` implements `OrderBook` |
| `algorithms` | segments survive padding and truncation, checksums verify, the MSS is the advertised one; messages are read back, damaged ones never misread; lines are cut as the grammar says; the ladder's invariant, equal secrets, low-order values refused |

Runs that find a violation, each of a sentence of the repository:

| Run | Disagreement |
|---|---|
| `send_close` | `Close` sends the FIN in front of buffered data, which then goes out behind it, off by one; `Write` says "The rest stays buffered and drains on future ACKs" |
| `connection_fin` | a FIN is accepted with any sequence number, so the acknowledgement counts data that never came; `TCP_SEQ_NUMBERS.md`: "I have everything up to 3050" |
| `connection_close` | `State` is written without `mu` by `Close` and by the FIN case, and a close is lost; the struct says "mu guards State" |
| `stack_reuse` | an old `timeWaitCleanup` deletes a new connection from the table; `TCP_PLAN.md`: a segment's connection is found in the map |
| `server_quiet` | a stream that ends between two lines of a head is closed without a response, although bytes have come and the parser has failed; `http/server.go:11`: "A clean io.EOF before any bytes are received is treated as the peer closing without sending a request and produces no response. Parser errors are turned into matching 4xx/5xx replies via WriteError" |

**Bounds.** The sequence space has 8 or 12 numbers and ISS and IRS lie at its end,
so every stream wraps; `MaxWindow + 1 < Half` is the relation that 65535 and 2^31
have in the code. `MSS = 2` with writes of 1, 2 and 3 and windows of 0 to 4 gives
full and partial segments, full, closed and shrinking windows and acknowledgements
inside a segment. `maxRTO` is at most three times `initialRTO`, so the backoff
reaches its cap, once exactly and once clipped. One or two late `onRTO` calls are
enough to have one run after a stop and one after a re-arm. In `connection`, three
bytes from the peer, a channel of two and reads of one and two leave a rest in
`overflow` while the channel is full; there the application writes one byte into a
window of one, because full, closed and shrinking windows are what `send_half` is
for, and `ConnImplementsTCPSend` says for all constants that the send half is the
same. Two peers, three connections and an accept channel of one
make the loop block and keys be used again. `MaxBytes`, `MaxCallbacks` and
`MaxConns` bound the state space and nothing in the code.

`tls`: three bytes from the client in at most three records of up to two, reads of
one and two, and a write of three in records of at most two leave rests in
`inAppData` and cut `Write`; the handshake is complete. `server`: three header lines stand for the
hundred, so heads of up to four lines reach the limit from both sides; three
connections run every combination of create, list and get, and one failure of the
database. `algorithms`: all option blocks of up to five bytes over the values 0 to
4, all payloads of up to five bytes over 0, 1 and 255 (odd lengths and carries),
frames cut inside every header; ClientHellos with every extension, each byte set to
each of six values, cut or extended; all lines of up to six symbols, and lines of
one less than, exactly and one more than the limit.

**Fairness.** `transfer`: the runtime runs expired timers and their callbacks
(weak fairness), and the network does not lose everything for ever (strong
fairness of the arrival of a needed segment, a repeated segment and a new
acknowledgement); windows are never zero, because the code has no zero-window
probe. `connection`: the receive loop goes on with a
segment it has begun, and the application, while it has not closed, goes on
reading, as `http.Serve` does until it has its request. `stack`: main's loop always
accepts again, and a push into the accept channel that has room happens. `tls`: the server's goroutine goes on
while it can (weak fairness), and the client goes on with its part of the handshake
or leaves: the code has no timeout, and a silent client blocks its goroutine for
ever. `server`: the runtime runs every goroutine that can run (weak fairness). In all but `send_half` the system may
stop: when nobody sends anything, nothing happens; deadlock is not an error there.

## 4. Proofs

`TCPSendProofs` begins with what the wrapping addition, subtraction and comparison
do to numbers that lie less than half the circle apart, from `Half \in Nat \ {0}`
alone. Then, for all constants that satisfy `SendAssumption` (any sequence
space, ISS, IRS, MSS, windows with `MaxWindow + 1 < Half`, timeouts, and any
number of bytes and callbacks) every safety property of `send_half`, and the
refinement of `SlidingWindow`. None of the invariants is inductive alone. The
inductive invariant `SendIInv` is their conjunction with two changes: the queue is
ordered pairwise (`QueueOK`) and not only from neighbour to neighbour, so that a
drained or extended queue is one again without an induction over its length; and
`FinBehind` says that the FIN never lies before a byte that has been sent. The
argument: the pump adds segments that continue the cut and moves SND.NXT by
exactly their bytes; because less than half the circle is in flight, a comparison
of wrapped numbers agrees with that of the offsets, so a drain removes precisely
the segments that lie below the acknowledged offset; stop, restart and start of
the timer follow the queue's becoming empty or not; `Close` moves SND.NXT by the
FIN's one position. The refinement maps SND.UNA and SND.NXT to offsets, and gives
up (`over`) when the connection is torn down or closed with bytes still unsent,
which is what `send_close` is about.

`TCPStackProofs`: for any set of peers, channel capacity and number of
connections, types, `HandedOverOnce` and `TableSound`. The invariant adds that
objects not yet created are with nobody, that while the receive loop is in the
ESTABLISHED case its connection is already queued or served (`HandoverState`):
without it the FIN of the third handshake segment could move a connection that
nobody has; and which connections are on their way out. A connection in the table
may be CLOSED, between `stack.go:410` and `stack.go:404`. What holds is that the
receive loop or the connection's cleanup goroutine is then between closing and
deleting it (`Leaving`), so that no closed entry is forgotten.

`TCPTransferProofs`: `PeerReadsTheStream`, for any MSS, windows and stream shorter
than a turn of the sequence space. The invariant `TransferIInv` puts together
`SendIInv` and what is under way: every segment ever sent still has the bytes its
number stands for, and every acknowledgement is for bytes the peer has taken. The
step that needs care is `NextIsTrue`: the peer knows only wrapped numbers, and
takes a segment as the next one only if it really is, because the peer is at most
a window behind SND.NXT. `TurnAssumption` (`MaxBytes < SeqMod`) stands for
TCP's maximum segment lifetime: the model's network may keep a segment for ever,
and one that meets a byte a turn younger could not be told apart.

`TCPConnectionProofs`: `ImplementsTCPSend` (every step of the connection is a step
of its send half or leaves it alone, so what is proved of `TCPSend` holds of it),
types, `DeliveredInOrder`, `ChannelDiscipline` and `OneCleanup`, for any peer
stream shorter than a turn (`LifetimeAssumption`, as above) and any channel
capacity and read sizes. Behind them is `ConnIInv`. `DeliveredInOrder` speaks of
RCV.NXT only while `State` is ESTABLISHED; but `Close` may overwrite `State` while
`handleSegment` is between its check of the state and the FIN, so `Aligned` says
that RCV.NXT is the end of what was taken during all of that. `ChannelOpen` is the
same for the channel: nothing closes it before the loop is past the data.
`CleanupOK` needs that states behind FIN_WAIT_1 are reached only after `Close` is
done: its late write could otherwise take a connection out of TIME_WAIT and let it
get there twice. `ConnAssumption` asks that the numbers the model tries for the
peer's segments (`PeerSeqs`) include those of its stream.

`TLSConnProofs`: for every set of clients of the model's kinds, every record size
and every amount of data, `NoncesUnique`, `ClientAccepts`, `KeysInStep`, types,
the action property `FailureIsFinal` and the refinement of `SecureChannel`. The
idea is that everything in a handshake is a function of the ClientHello `h`
(`Transcript1(h)`, ..., `HandshakeKeys(h)`, `ApplicationKeys(h)`), so that `TLSIInv`
can say what the server has sent after n records (`Sent`), what it knows then
(`Knows`, `UsesKeys`) and what the client knows after reading the first n of them
(`ClientKnows`). The nonces are unique because the handshake's and the
application's secret differ (as terms) and within one the number grows with the
record's place. `ClientAccepts` follows because client and server derive the same
terms, though from different definitions. `KeysInStep` needs the other direction:
a complete Finished in the server's buffer can only be the client's (`PiecesOK`,
`Agreed`: the server's handshake is not done before the client has read the
server's Finished), and the client's records under way are a run of handshake
records followed by records with the application secret, numbered without a gap
(`WriteInStep`). It counts the one record whose write failed, if any: its number is
used up, and after it the server writes no more. The refinement needs that data in records, in `inAppData` and in
what was delivered continue each other (`StreamsOK`); the prover has no induction
over the records, so a function that counts the bytes before each record is part of
the invariant (`Counts`) and every step says how it changes. `TLSAssumption` says
only that bounds are numbers and that key shares come in a list. Secrecy is not a
claim of these proofs: cryptography is symbolic and nobody but the client sends.

`HTTPServerProofs`: for any number of connections, any workload of well-shaped
inputs, any limits, order length, set of database connections and number of
failures, `ParserAcceptsWellFormed`, `OrdersAreComplete`,
`ServerErrorsHaveCause` and the refinement of `OrderBook`. The parser's part is a
fact about `ReadRequest` alone: the header loop stops at exactly one place
(`HeaderLoopStops`), and what it has then is what the grammar asks for.
`QuietOnlyInHead` says when a connection is closed without a response: only when the
stream ended between two lines of the head. What `Serve`'s comment promises is less,
and refuted by `server_quiet`.
`HTTPIInv` adds to the properties that at most one goroutine has the database
connection (`OneHolder`), has it only at a statement, has scanned exactly the first
rows of the table while it lists, and asks for a new order only with a complete
request. The refinement maps the first database to the book; a create takes effect
at its insert, a list when its last row has been scanned, which is sound because
nobody else can insert between (`OneHolder`). `WorkloadAssumption` says what
`readLine` and the line parsers guarantee of the lines they return: kinds, a
path that begins with `/`, a number as Content-Length; of the first two
`HTTPLinesProofs` is the proof.

`HTTPLinesProofs`: `LinesReadAsGrammar` for every stream over the symbols and every
limit (`LinesAssumption`). While `readLine` reads (`LineIInv`) the line so far is
what was read, without an LF and within the limit, so that the end it finds is the
first one. What remains is about the parsers alone: `IndexByte`, `LastIndexByte`
and `Trim` find the first, the last and the outermost places (a set of numbers has
a least member), so a line that is not refused is the concatenation of the parts it
was cut into (`RequestSound`, `HeaderSound`), and in a line of the grammar the
separators the parser looks for are the grammar's, because a token holds neither
space nor colon and a version no space (`RequestComplete`, `HeaderComplete`).

`WireProofs`, the packets: `PacketArrives`, `ChecksumsVerify` and
`ChunkSizeNegotiated` for all segments and echo requests that fit an IP packet, of any bytes, any padding and
any cut (`PacketsAssumption`: fields have the width of their Go types, at most 40
bytes of options, a total length of 16 bits, which is what the header can say).
Three arguments carry them. *Checksums*: a sum over words is a weighted sum of
bytes, odd lengths included (`SumIsWeight`), weights add up behind an even number of
bytes (`WeightOfConcat`), which the pseudo header has, and the carry loop ends with
the remainder by 65535 in its range 1 .. 65535 (`ComplementFacts`), so the
complement put into the empty field makes the whole a multiple of 65535. *Layout*:
`StandsAt` says where a part stands in a byte string and is kept by appending and by
putting in the checksum; `Agrees` says that what was received begins as what was
sent, which a built, a padded and a cut frame all do, so that one reading of the
Parse functions covers the three (`InFrame`, `Arrived`). *Options*: `Walk` is the
invariant of `parseMSSOption`'s loop: its place is reached by a cut of the block into
options, every cut that goes further passes through it, and no MSS option lies
before it. Sums and the carry loop are recursive functions; that they
exist, are unique and have these values is proved by induction over a set of numbers
(`Induction`: its complement would have a least member), since the library's
induction schemes cannot be used.

`WireProofs`, the handshake messages: `MessagesReadBack` for every ClientHello, every
damage to its bytes and every contents of the server's messages
(`MessagesAssumption`: fields and vectors hold what their lengths of one, two and
three bytes can say; this says nothing about a proper ClientHello, and damaged bytes
are any). The invariant `MessageIInv` follows the loop over the extensions. `Parsed`
holds for any bytes that have not been refused: the bytes are the fixed part, the
extensions parsed so far, encoded again, and the rest, and no extension occurs
twice. `ReadSoFar` holds for undamaged ones: the values so far are the client's, and
the rest is the joining of the client's remaining extensions, so that the loop meets
the next one of the client and ends when there is none (`RestOfParts`, `NextExtension`). One kind of damage is
accepted: `parseServerNameExtension` returns at the first host_name and does not look
at what follows it inside that extension (`messages.go:341`), so there the lengths
need not agree; everywhere else they do, and the property says so.
Under it are two families of lemmas about the cursor and the parsers, from `readU8` up
to `parseExtension` and `parseFixedPart`: `...Back`, a parser applied to what an
encoder wrote returns the value; and `...Read`, what a parser accepts is what the
encoder writes for the value it returned. The loops over lists of entries are
recursive functions and are followed turn by turn (`ReadsOn`, `TakesOn`); that they
end in as many turns as the list has bytes is part of the induction. The server's
messages have no loop and need the first family only (`FlightIsReadable`).

Assumptions on constants are evaluated by TLC in every run. The proofs use nothing
else but the library's theorems on finite sets, well-founded sets and sequences.

Only model-checked: liveness (`EverythingIsAcked`, `ReaderIsReleased`,
`AcceptedEventually`, `HandshakeEnds`, `EveryRequestAnswered`: fairness and ENABLED
are beyond the prover), and `LadderInvariant` and `SecretsAgree` of `X25519`, which
for every prime would need the theory of a field and of the group of the curve (that
its addition is associative), and no prover here has it.

## 5. What the models show without a run of its own

- A connection whose application has stopped reading (it reads one request) and
  whose peer goes on sending fills `readCh`; `conn.readCh <- data` then blocks
  `recvLoop`, and with it every connection, for ever (`RecvPush` stays disabled).
- `io.ReadFull` reports a plain EOF when a record's header is complete and its
  fragment has not begun, so that a stream cut there looks cleanly closed
  (`EndError`).
- A KeyUpdate is ignored, so the client's next record cannot be opened and the
  connection ends (client plan `update`).
- Handlers set `Content-Type`, `WriteResponse` looks for `content-type`: JSON
  responses carry the header twice (`response.go:54`).
- `RunICMPEchoServer` logs two bytes of the ICMP payload before it looks at its
  length, and panics on a shorter one (`Panic`); `main` does not start it.
- A peer that advertises an MSS of 0 gets the default of 536 (`chunkSize`), and
  FIN and SYN-ACK are sent once only, as `TCP_STATUS.md` says.

## 6. Not modelled, and the plan

Not modelled: the layout and order of response headers, the date and JSON text;
`NewServerIdentity` and signatures (`cert.go`), HKDF, SHA-256 and AES-GCM, which
are calls of the standard library and symbolic here; `generateISN` (any initial
number is allowed instead); MAC and IP addresses other than as bytes of a frame;
scripts and API collections. Out-of-order data is dropped in the code, hence in the
model.

Next: the handshake's numbers in `TCPConnection` (SYN_RECEIVED takes any
acknowledgement), and a connection with its handshake as one of `TCPStack`'s.
