# A TLA+ model of ruru

ruru is a small transport server: UDP datagrams carry DTLS, DTLS carries SCTP,
and SCTP carries messages. A client registers with an HTTP request, then sends
datagrams. The server is a library driven by an application that calls
`RuruLoop::Loop(evt)` in a loop; `examples/EchoServer.cpp` is the application in
the repository and sends every message back.

The project models the parts that carry the server's own logic, checks them
with TLC on small instances and proves the main results with TLAPS for every
value of the constants.

## The system

| Part | State | Operations | Interacts with |
|---|---|---|---|
| `RuruLoop` | `clientMgr_`, `que_`, `arena_`, the epoll set, a static scan counter | `Loop` = `UpdateEvent`, `ScanClientCacheData`, `EpollWait` (UDP, accept, `HttpRequestHandle`) | called by the application; calls clients; clients push events onto its `que_` |
| `RuruArena` | memory, `pos` | `ArenaAlloc`, `ArenaReset` | holds the bytes the queued events point to |
| `RuruClient` | address, DTLS and SCTP ends, `cache`, `heartBeatRing` | `HandleDtlsPacket`, `ClientSendData`, `ClientSendHeartBeatData` | loop, OpenSSL |
| `RuruSctp` | `sock_`, `bHandShakeDone` | constructor, `SendUsrSctpData`, `SendSctpCacheData`, `RecvUsrSctpData`, callbacks `OnSctpInboundPacket`, `OnSctpOutboundPacket` | usrsctp (external), client |
| `RuruRingBuf` | slots, `rd`, `wt` | `RingBufWrite`, `RingBufRead`, `RingBufEmpty` | written by usrsctp's thread, read by the loop's |
| `EchoServer` | its `evt` | the `switch` on the event type | loop, SCTP |
| `RuruDtls` | the SSL object, its two BIOs, `bHandShakeDone` | the handshake and the reads of `HandleDtlsPacket` | OpenSSL (external), the UDP socket |
| `EchoClient` | its SSL object, its socket | `doHandeShake`, `handle_packets`, `conn_output` | the peer of `RuruDtls` over UDP |
| picohttpparser | the caller's `last_len`; the chunked decoder's state | `phr_parse_request`, `phr_parse_response`, `phr_parse_headers`, `phr_decode_chunked` | `HttpRequestHandle` |
| cJSON | items on the heap | parsing, creation, editing, duplication, comparison, deletion | `BodyParse` |
| `RuruCert`, `RuruNetwork` | OpenSSL objects, sockets | set-up, wrappers | |

There are two threads: the application's, which runs everything above, and
usrsctp's timer thread, which calls `OnSctpOutboundPacket` when it wants to send
a heart beat or retransmit. They share the ring of a client (lock-free), `que_`
(no lock) and the client's DTLS object (no lock).

What is hard here:

* the ring between the two threads, and the two steps "write the beat, queue
  its event";
* the arena: all blocks are freed at once, when no event is queued;
* the send path: a message may be sent, cached behind others or lost, depending
  on a sequence of answers of usrsctp; partial failures in the middle of a flush;
* `sock_` after an error: closed but not null;
* `Loop` returning true without an event, so that the application handles an
  old one;
* cached messages and heart beats that must eventually be sent;
* a handshake over datagrams that are lost, delayed and reordered, driven only
  by the next datagram, with an edge-triggered socket under it;
* parsers that get their text in pieces, or with memory that runs out anywhere;
* lists of items whose first `prev` points to the last, edited from many places.

`PROJECT.json` lists each of these at its line under "hazards".

## Modules

| Module | Models | Form |
|---|---|---|
| `BoundedFifo` | what the ring promises: a bounded first-in first-out queue | abstract specification |
| `RuruRingBuf` | `RuruRingBuf.h`, `ClientSendHeartBeatData` | detailed specification, refines `BoundedFifo` |
| `RuruRingBufProofs` | | theorems |
| `RuruSctp` | `RuruSctp.cpp` and the cache of a client | operators per operation, and a specification of the object alone |
| `RuruSctpProofs` | | theorems |
| `RuruLoop` | `RuruLoop.cpp`, `RuruArena.cpp`, `EchoServer.cpp`, the callbacks of `RuruSctp.cpp`; built on `RuruSctp` | composition of the two threads |
| `RuruLoopProofs` | | theorems, uses those of `RuruSctpProofs` |
| `RuruLoopOrderProofs` | | theorems on order and service, uses those of `RuruLoopProofs` |
| `RuruDtls` | `HandleDtlsPacket`, `ClientSendPendingDtls`, `ClientSendData`, the UDP side of `EpollWait`, and `EchoClient` up to its first packet | specification of both ends and the network between |
| `RuruDtlsProofs` | | theorems |
| `PicoHttp` | the request, response and header parsers of picohttpparser | operators |
| `PhrChunked` | `phr_decode_chunked` | operators |
| `MCPicoHttp` | a caller that keeps to the parsers' contract, and reference grammars | specification for TLC |
| `HttpService` | what a registering peer is promised: one acceptance, one answer, one close | abstract specification |
| `RuruHttp` | the TCP side of `EpollWait`, `HttpRequestHandle`, `BodyParse`, `SocketWrite`; built on `PicoHttp` | specification, refines `HttpService` |
| `RuruHttpProofs` | | theorems |
| `CJsonLinks` | the pointers `child`, `next`, `prev`: the list surgery of cJSON | operators, no recursion |
| `CJsonLinksProofs` | | theorems |
| `CJsonHeap` | allocation, ownership, keys, deletion; built on `CJsonLinks` | operators, no `RECURSIVE` |
| `CJsonCopy` | arrays made in one call, duplication, comparison; built on `CJsonHeap` | operators |
| `JsonTree` | what the editing functions promise: a forest with sequences of children | abstract specification |
| `CJsonList` | a program that calls cJSON's interface; built on `CJsonCopy` | specification, refines `JsonTree` |
| `CJsonParse` | `cJSON_ParseWithOpts` with `parse_value`, `parse_array`, `parse_object`, and `BodyParse`; built on `CJsonHeap` | specification |
| `CJsonParseProofs` | | theorems, uses those of `CJsonLinksProofs` |
| `CJsonText` | `parse_string`, `parse_number` and their helpers | operators |
| `MCRuruLoop`, `MCRuruHttp`, `MCCJsonList` | | the symmetry of the clients, the requests, the programs for TLC |
| `MCCJsonParse`, `MCCJsonText` | | inputs for TLC, and the JSON language as a reference |

### RuruRingBuf

Each call is cut at every access to a variable the other thread writes:
`WriteBegin`/`WriteFull` (the test), `WriteData` and `WriteLength` (the `memcpy`
in two pieces, so that a torn beat would show), `WritePublish` (the assignment
to `wt`), and the same for the reader. `out`, `refused` and `next` are history.
The interleaving is sequentially consistent. The code has plain variables; the
build sets no optimisation level and the two index stores come after the copies
in program order, which x86 keeps. Other targets would need a fence and are out
of scope. Producers of one ring do not overlap because usrsctp calls
`OnSctpOutboundPacket` with the association's lock held.

### RuruSctp

`sctp[c]` is the object of client `c` with the client's cache: `sock` says what
`sock_` points to (nothing, the listening socket, the accepted one, one that is
closed), `assoc` is what usrsctp knows of the association. Messages are
numbered in the order of the `SendUsrSctpData` calls. An operation is an
operator whose value is the set of its results, one for each answer usrsctp may
give: `FlushResults` for `SendSctpCacheData`, `SendResults` for
`SendUsrSctpData`, `RecvResult` for `RecvUsrSctpData`. `wire` and `lost` are
history. When the constructor fails, `bHandShakeDone` is not set, so both values
are possible.

usrsctp is external and modelled by what the code can tell: a send succeeds,
finds the buffer full, or fails for good, and always fails when there is no live
association; `usrsctp_accept` answers with a waiting association only on the
listening socket. A send that is not refused counts as the whole message (see
"Not modelled"). After a send error the code calls `usrsctp_accept` on the socket
it has closed, which reads freed memory. The models follow the case that it
answers null. In every other case (`wild`) they stop: the process may die, or
another client's listening socket may lie there by then and lose its association
to this object. So `OneLossAtMost` and `NoUseAfterClose` hold up to that point, and
nothing says that a closed client stays closed.

### RuruLoop

`pc` is where the application's thread is: about to call `Loop`, in the scan, in
`EpollWait`, or at the `switch`. `TakeEvent` is `Loop` with an event on `que_`;
`StartPoll`, `ScanClient` and `LoopReturns` are `Loop` without one. While `pc` is
"poll", inputs arrive one at a time: a datagram that carries an SCTP packet
(`Datagram`), a good registration (`Register`), and anything else that makes
`EpollWait` return true (`OtherInput`). `Echo2Client`, `SendClientCacheData`,
`SendHeartBeat` and `IgnoreEvent` are the cases of the switch. The timer thread
writes a beat (`TimerWritesBeat`), queues its event in a second step
(`TimerQueuesEvent`), and may end an association (`TimerLosesAssoc`).

The arena is modelled byte by byte: byte `i` holds the number of the message
written there, so that a block that is reused too early shows. `length` is the
length modulo `LenMod` (65536 in the code). A ring is the number of beats in it,
which `RuruRingBuf` justifies. `inbox`, `echoed` and `fresh` are history; `fresh`
tells whether the last call of `Loop` really took the event off `que_`.

The copy of a heart beat into its record of 1024 bytes is taken to fit.
Operations on `que_` are atomic in this model, which the code does not
guarantee; see "Not modelled".

### RuruDtls

One client object of the server and one `EchoClient`. A datagram is a sequence of
records: the four flights of the handshake, a first flight the server cannot
accept, an alert, application data of either side, and close_notify. `up` and
`down` are bags of datagrams under way, so that they may overtake each other;
`sockq` and `edge` are the server's UDP socket and the one report an
edge-triggered epoll still owes. `Poll`, `RecvFrom`, `ReadTurn` and `ReadEnd` are
the `recvfrom` loop and, inside it, the `SSL_read` loop, each turn a step.
`HandleDtlsPacket` flushes the out BIO after every step of the handshake but not
after an error, and sets `bHandShakeDone` one datagram after the handshake ended;
both are as in the code. OpenSSL is external and seen from the code: a call takes
all of the in BIO, ignores what it does not expect, answers a repeated last
flight by repeating its own into the out BIO, and retransmits by timer only
inside a call, because nobody calls `DTLSv1_handle_timeout`. OpenSSL gives up
after `MaxTimeouts` (12) retransmissions. `doHandeShake` passes an uninitialised
`len` to `recvfrom`; `lenOk` says whether what it finds there is usable.

### PicoHttp, PhrChunked and RuruHttp

A buffer is a function of characters, and a character stands for a class the
parser tells apart; the eight characters of `HTTP/1.x`, the header name
`content-length`, a number and each half of a good JSON body are one character
each, so a read may end between them and not inside them; `Octets` counts their
letters where the code asks how many characters are left. The parser's functions
keep their names; `ret` is the code's answer. `PhrChunked` is the decoder's state
machine with its in-place moves: a call takes the decoder's state and the new
piece and answers with the decoded data, what was not looked at, and the new
state. Hexadecimal digits are those below `Radix`, and a size has at most
`HexDigits` of them (16 and the width of `size_t` in the code).

In `RuruHttp` the kernel side is `rcv` (what a `read` would find), `backlog`, and
`edges` and `listenEdge`, the ready list of an edge-triggered epoll. `batch` is
what `epoll_wait` reported and is still to be handled, in any order. The accept
loop and one iteration of `HttpRequestHandle`'s loop are steps, so that peers act
between them: `HandleReads` is a read that returned data or EAGAIN with all that
follows it, `HandleEnds` a read that returned 0 or an error, `HandleUnderruns` an
EAGAIN at length 0. `Reply` writes the response and closes. Writing to a
connection that was reset may raise SIGPIPE (`ReplyKills`). `accept` may fail at
any time, as it does when descriptors run out (`AcceptEnds`); `SetNonBlocking` and `epoll_ctl` may fail
(`AcceptRefuses`). `RuruLoop` sees all this as its inputs `Register` and
`OtherInput`. `stalled`, `answer` and `acceptFailed` are history.

Because EAGAIN does not end the loop, a handler leaves a connection only by
closing it. The model shows what that means: nothing is lost to edge triggering
(`NoLostWakeup`) and every reported connection is closed (`ReportedIsClosed`),
but only because each empty read takes one off `con->length` until the buffer
is exhausted; a request that comes in pieces is kept whole only if the next piece
is there before the next read (`ReceivedIntact` says so for connections that
never stalled).

### cJSON

`CJsonHeap` has the heap as one record: the live items, their members, the number
of string blocks, how many allocations still succeed (`mem`) and `fault`, which is
set when freed or null memory is touched. Operations are operators from a heap
to a heap, under their names in the code. An allocation fails when `mem` is used
up, so a run with several values of `mem` has failures at every point of a call.
`cJSON_Delete` is cut in two: the order in which its loop and its recursion come
to the items (`FreeOrder`), and freeing them in that order (`FreeAll`), where an item
that comes twice is a fault. The functions that are still `RECURSIVE` are in
`CJsonCopy`, which no theorem reaches.

`CJsonList` is a caller: each action is one call of the interface, and its guards
are the caller's duties (an item is attached once and not below itself, children
are not edited through a reference, nothing is freed that a reference outside
still shows). `Programs` are the choices a caller makes: which parts of the
interface it uses, how many items, which keys. `JsonTree` states each kind of call
as a relation between two forests; the mapping reads the lists along `next`.

`CJsonParse` runs the recursive descent with an explicit stack: a frame is a call
of `parse_array` or `parse_object` with its `head` and `current_item`, and a step
ends where the next character is looked at or memory is allocated or freed. The
text is chosen while it is read, one character per token, so that a run covers
all texts up to a length. After a parse, `BodyParse` looks up `ip` and `port`.
`CJsonText` is what happens inside a token, on bytes: the two passes of
`parse_string` (the estimate of the output's size and the conversion), `\u` escapes
and surrogate pairs, and `parse_number` with its buffer and the saturation of
`valueint`. `True`, `False` and `Null` behave like a `Number`, `Raw` like a
`String`.

## Runs

| Run | Bounds | Shows |
|---|---|---|
| `ring` | `Cap` 3, 6 beats | slot exclusion, the inductive invariant, refinement of `BoundedFifo`, every accepted beat is sent |
| `sctp` | 1 client, 8 messages | order, at most one loss, no send on a closed socket |
| `loop` | 2 clients, 2 addresses, 4 inputs, 1 timer beat, arena of 4 bytes, lengths 1 and 3 with `LenMod` 2 | types, the bytes of live messages, beats have events, order of handling, only the first client of an address is served |
| `loop_live` | 1 client, 4 inputs, 1 timer beat, arena of 1 byte | every kept message is handled, every beat is sent, the cache drains |
| `dtls` | 2 losses, 1 early timeout, 1 empty datagram, 1 close_notify, good and bad offers | a client does not run out of retransmissions, the socket is drained, the handshake settles, the read loop ends |
| `parser` | requests of up to 8, responses, headers and chunked bodies of up to 7 characters, each after two beginnings; 2 headers, 2 digits | the parsers accept the reference grammars; `last_len` and cuts change nothing; the decoder delivers the chunks |
| `http` | 1 connection, 7 requests in up to 3 pieces, buffer of 17 | the buffer holds what was sent, the answer is the one the text deserves, a whole registration is answered unless cut inside its body, refinement of `HttpService` |
| `http_conns` | 2 connections, 2 pieces, buffer of 3 | no deleted connection is used, no wake-up is lost, a reported connection is closed |
| `json_parse` | texts of 8 tokens out of 11 with memory for 0 to 5 or 9 blocks; bodies of 13 tokens out of 8; depth 2; strings of 4 pieces; numbers of 7 characters | no access behind the text, a failure frees everything, the tree is well formed, the language is JSON's, `BodyParse` finds the address, strings fit their block and are read as what they stand for |
| `json_list` | 4 programs of 3 to 6 items | lists stay proper, no leak, double free or wild pointer, copies compare equal, refinement of `JsonTree` |
| `http_range` | 1 connection | violated: the length falls below 0 |
| `echo_once` | 1 client, 4 inputs | violated: a message is echoed twice |

Why the bounds are enough. A ring of three slots is the smallest that can be
empty, partly filled and full, and six beats take both indices round twice. In
`sctp` eight messages allow caches longer than one with a flush that stops
anywhere in it; objects do not interact, so one client is enough. In `loop` a
length of 3 is cut by `LenMod` and two messages of length 3 do not fit, so
exhaustion, truncation and reset all happen; four inputs are two registrations,
also of one address, and two messages, or one registration, the handshake and
two messages. `Roll` is 2 so that idle passes with and without a scan occur. The
proofs remove the bounds for the safety properties they cover.

In `dtls` two losses can take a flight and its repetition, or one flight of each
side; with one early timeout flights are also doubled, and any two datagrams may
be swapped. The timer bound of 12 is OpenSSL's own.

In `parser` eight characters after a request line hold two headers and the empty
line, a third header, and a continued line; cuts fall anywhere. For the decoder
the digits 0 and 1 give sizes 0 to 3, a size that is too long, and chunks cut
anywhere. In `http` the two registrations have 13 and 16 characters, with LF and with
CR LF; one with a character too many fills the buffer of 17 exactly, and another
request overruns it. The connections of `http_conns` only need
requests that are refused, because the events of a connection do not depend on
its answer.

In `json_parse` eight tokens hold a value with two levels of nesting and two
elements, and a third level that the limit refuses; thirteen hold an object with
three members, so that `ip` and `port` come in any order, and one of them twice, in
one spelling or two. Four pieces of a string are a surrogate pair between two other
characters; seven characters of a number overflow the buffer of 5 and, with
`IntMax` 127, the integer. In `json_list` four items are an array of three, the
smallest with a first, a middle and a last child; `CopyProgram` has room for an
object of two members and its copy.

`CHECK_DEADLOCK FALSE` is set where the model stops at a bound on its inputs, or
when the process is lost. `json_parse` checks deadlock: the parser never gets
stuck.

### Fairness

`ring`: a call of `RingBufWrite` or `RingBufRead` that has begun ends, and the
loop keeps reading while the ring is not empty; the producer need not offer
another beat. `loop_live`: the main thread always goes on (`for (;;)` around
`Loop`, and `epoll_wait` has timeout 0), and a callback of the timer thread ends.
That a call of `Loop` ends is an assumption about the peers. Two loops inside it
spin as long as a peer likes: `SSL_read` behind a close_notify
(`src/RuruClient.cpp:50`) and `HttpRequestHandle` at EAGAIN (`src/RuruLoop.cpp:260`),
during which no event is handled and no cache is flushed. `loop_live` is about
peers that do neither; `ReadLoopEnds` and `ReportedIsClosed` say when the two loops
end. `http_conns`: the loop's thread goes on, the busy loop included, and the peers
may stop at any time. `CacheDrains` also assumes something of the peer, stated as
strong fairness: if flushes for a client are tried again and again, one of them
empties the cache, or the association fails. The code cannot guarantee that; it
is what a live peer does. `dtls`: the server's loop and the client's busy loops
spin, so their next step is taken; a datagram that is not lost arrives; the
client's timers expire. Losses are bounded, as no protocol settles on a network
that loses everything.

### Findings

`echo_once`: `Loop` returns true when the scan or `EpollWait` had data, although
it took no event off `que_`, and leaves the application's `evt` as it was.
`EchoServer` handles `evt` on every true. After a message was echoed, any input
that produces no event itself (an HTTP connection, a datagram of a handshake)
makes it echo the same event again, and by then `UpdateEvent` has reset the
arena, so the bytes may belong to a newer message. `HandledInOrder` and
`LiveDataIntact` say what does hold: the events that are taken off `que_` are
handled once, in order, and with their own bytes.

`http_range`: `HttpRequestHandle` does not return at EAGAIN and adds read's -1 to
`con->length`. A peer that pauses inside its request makes the length count down
to -1, which the parser takes as a huge `size_t`, and the end of its range lies
before the beginning. The comment at `src/picohttpparser.c:244` promises pointers
within the range, which this call makes impossible.

### What else the models show

The properties are stated so that they hold, and say where they stop. The first
two points are at odds with a comment of `picohttpparser.h` (lines 49 and 58: "-2 if
request is partial", "ditto"); of the others the repository says nothing.

* The handler tells the parser where the last read ended also when the parser had
  accepted the head then and only the body was missing (`src/RuruLoop.cpp:282`). The
  short cut of the parser (`is_complete`) looks for the two line ends of the head from
  three characters before that place. When a head with CR LF and the first character
  of the body came first, or a head with LF and a little more, it misses one
  of the two and answers -2 for a request that is complete: the handler reads on
  instead of answering. `AnsweredWhenWhole` names this exception; `AnswersRight` says
  that the answers that are given are right.
* `phr_parse_headers` with a `last_len` that is not 0 answers -2 for an empty header
  block, however often it is called (`src/picohttpparser.c:510`), because `is_complete`
  wants two line ends and the block has one. `ResumeAgrees` leaves this case out.
  This program never calls the function.
* An object with a key twice and its duplicate may compare unequal, because every
  lookup of that key finds the first (`src/cJSON.c:3051`); `CopiesEqual`
  is about objects with distinct keys.
* `cJSON_CreateIntArray` and the like dereference a null pointer for a count of
  0, and when the array itself cannot be allocated (`src/cJSON.c:2565`);
  `json_list` calls them with at least one item and one block of memory.
* `cJSON_AddItemReferenceToObject` loses the reference it made when the key
  cannot be copied; `HeapSound` names the exception.
* Inside tokens cJSON takes more than JSON has: `\u` with a digit that is none
  reads as U+0000, `01` and `-.5` are numbers, and every character up to space is a
  blank; `AcceptsJson` is about the order of tokens. A number of more than 63
  characters is cut, and the rest is then an error. `InBounds` is about texts that
  end with NUL, which `BodyParse` always passes.
* Behind a close_notify `SSL_read` leaves the in BIO as it is, and the loop at
  `src/RuruClient.cpp:50` does not end; `ReadLoopEnds` is about datagrams before
  it. The alert of a refused handshake stays in the out BIO: the client is never
  told and gives up by its own timers (`Settles`).
* A client that restarts from the same address gets the SSL object of the old
  connection, which `FindClientByAddress` finds first (`OnlyFirstServed`).

## Theorems

* `RuruRingBufProofs`: `RingInvariant`, `SlotExclusion`, `RingImplementsFifo`.
  The inductive invariant `RingInv` adds to the types that the room the writer
  saw and the beat the reader saw are still there (`WriterRoom`, `ReaderBeat`),
  because each index is moved by one thread only, and away from the other's
  slot; and that what has been copied so far equals the slot (`WriterCopy`,
  `ReaderCopy`). Without these a step of one thread could undo the other's test.
  The refinement maps the abstract queue to the slots from `rd` to `wt`:
  `WritePublish` appends, `ReadAdvance` removes the head, the other steps leave
  it alone. Only `Cap > 0` is assumed.
* `RuruSctpProofs`: `SctpTypes`, `SctpSendsInOrder`, `SctpLosesOne`,
  `SctpNoUseAfterClose`. The invariant `SctpInv` says of every
  object that `wire \o cache` is increasing and, with the lost message, complete,
  and that a loss goes together with the closing of the socket. The argument is
  that a flush only moves the border inside `wire \o cache`
  (`FrontKeepsPipeline`) and a call appends the next number to it (`JoinKeeps`) or
  loses it (`DropNowKeeps`), the latter only while nothing has been lost.
* `RuruLoopProofs`: `LoopTypes`, `ArenaIsSafe`, `NoBeatForgotten`,
  `LoopSendsInOrder`. `LoopInv` is `SctpInv`, the types, `LiveDataIntact` and
  `BeatHasEvent`. The arena argument is that a new block lies above every block
  in use (`PushMessage`) and that `pos` goes back only when `que_` is empty and no
  event is being handled (`StartPollKeeps`). Assumed: the constants are of their
  kind, there is an address, and `NoClient` is not a client.

* `RuruDtlsProofs`: `SocketIsDrained`, for any number of losses, timeouts, empty
  datagrams and alerts. `SocketDrained` needs no more than itself and that a report
  is owed whenever something was appended. Assumed: the bounds are natural numbers.

* `RuruLoopOrderProofs`: `MessagesInOrder`, `EchoReadsArena`, `FirstIsServed`, from
  the same assumptions. `HandledInOrder` splits the kept messages into those
  handled with their event, the one in hand and those on `que_`, each rising and
  each before the next. A message is appended with the next number, which is
  above all kept ones because together the three parts are the kept ones; that
  is what makes it inductive, next to the type of the history `echoed`, for which
  the bytes `Echo2Client` reads must lie in the arena (`EvtInArena`). That is a
  result of its own: `evt` may be left over from an earlier call (see `echo_once`),
  and still points into the arena. `OnlyFirstServed` rests on
  `ServedInv`: every event, the one in hand and the one the timer thread is about
  to queue belong to the first client of an address (`EventsForFirst`), a client
  is registered once, and whoever is not the first is as its constructor left it.
  The last part closes the circle: an untouched object has no association and no
  cache, so neither the timer nor the scan makes an event for it
  (`UntouchedIsIdle`), and `FindClientByAddress` yields the earliest
  (`FindIsEarliest` of `RuruLoopProofs`).

* `RuruHttpProofs`: `NeverUsedAfterFree`, `NoWakeupLost`, `RequestsArriveIntact`,
  `LengthUntilLost`, `ServiceRefined`, for any connections, requests, pieces and
  buffer size. The invariant `HttpInv` adds to the three properties that a batch
  has one event for each connection and none for the one that is handled
  (`BatchInv`), without which closing it would leave a report of freed data behind;
  that the accept queue has no connection twice (`BacklogInv`); that
  `con->length` counts characters of `con->data` until the process is lost
  (`BufferInv`), needed to append a read in the right place; and that a connection
  that made a client is about to be answered or closed (`RegisterInv`), which ties
  the answer to the registration. `LengthUntilLost` is the other side of the
  finding `http_range`: the one subtraction from 0 is the only way out of the
  range. The refinement maps the phase of a connection to its socket; a read that
  completes a good request is `SRegister`, `Reply` and the failed reads are
  `SFinish`, and a step of the parser or of the kernel's queues is a stutter. What
  the parser answers is left open, so nothing is assumed of it. Assumed: the
  buffer is not empty, requests are sequences of characters, `MaxChunks` is a
  natural number and the listening socket is no connection.

* `CJsonLinksProofs`: `AddAppends`, `DetachRemoves`, `InsertBeforeInserts`,
  `ReplaceRelinks`, `GetFindsChild`, `InsertItemInserts`. If the children of `p` are the sequence `s`, of any length, then
  after the pointer surgery they are `s` with the item appended, taken out, put in
  front of item `k`, or in the place of item `k`; the links of an item that was
  taken out are null; and the list of any other parent that shares no item with
  them is what it was. Each proof states the links item by item after the
  assignments of the code (`AppendLinks`, `DetachLinks`, `InsertLinks`, `RelinkLinks`), one case
  for the first, a middle, the last and the only item where they differ, and then
  that these are the links of the new sequence (`MakesList`). Assumed of the
  caller: the item to be added is not `p` and in no list of `p` and, for an append, its `next`
  is null, as after its construction or a detach, which `DetachRemoves` shows.
  `GetFindsChild` is the loop of `get_array_item`: it returns item `index` of the
  sequence, or null behind its end. With it `InsertItemInserts` is about the whole
  of `cJSON_InsertItemInArray`, the lookup, the insertion and the append when the
  list is too short. `Walk`, the recursive function behind the loop, is shown to
  exist as a table over the number of steps (`WalkExists`), and to follow the list
  by induction on that number. The induction is `NatSteps`, about a set of
  numbers, which follows from the well-foundedness of `<` (`WFMin`, `NatMinimum`).

* `CJsonParseProofs`: `DeleteFreesTree`, `ParseInvariant`, `ParseStaysInBounds`,
  `ParseFreesEverything`, `ParsedIsWellFormed`, for every text, number of items and
  strings that can be allocated, and nesting limit. The invariant `ParseInv` has
  - `BoundsInv`: the offset is before the NUL as soon as that was read, `depth` is
    the number of calls on the stack and at most the limit, and behind `fail` the
    stack only shrinks. The step over a closing bracket (`offset++`) stays inside
    because at `pc = "close"` the character that was seen is no NUL;
  - `Trees`: taking `child` and `next` for two branches, the live items are binary
    trees whose roots are the item to be returned and the `head` of each call that
    is not finished, all different; every pointer goes to an item that was made
    later; the number of string blocks is the number of members that own one;
    what is free is blank. This holds while a failed parse unwinds as well, where
    `parse_array` deletes its `head` and the roots become one fewer;
  - `Built`, as long as nothing has failed: each call fills in the item its caller is
    at, which is fresh (so that setting `child` loses nothing), and `prev` leads
    back inside each list and from its first item to its last.

  `InBounds` follows from `BoundsInv`. For `ParseFreesAll`, `DeleteFreesTree` says that
  `cJSON_Delete` of a root frees the items of its tree, each once, and leaves a
  forest without that root; a forest with no roots is empty, because its least
  item would need one that points to it (`NatMinimum`). That `FreeOrder` lists a
  tree without repetition is an induction on the rank of the address, since
  pointers go to later items. For `ParsedWellFormed`, a tree with one root has
  the items that are reached from it, and the children of an item, read along
  `next`, are one list of `Lists`. TLC checked `ParseInv` as an invariant of a small
  instance before it was proved. Assumed: items are natural numbers and finitely
  many (`NodeAssumption`; `cJSON_New_Item` takes the lowest that is free, so that
  addresses in order stand for the order of allocation, and after the first
  `cJSON_Delete` a parse allocates nothing), null is no item
  (`NullAssumption`), the limit and the allocations that succeed are natural numbers
  (`LimitAssumption`, `InputsAssumption`), and null is neither a word nor a key
  (`WordsAssumption`). The characters of a text are left open.

Only model-checked:

* liveness (`EveryBeatSent`, `EveryKeptEchoed`, `EveryBeatAnswered`, `CacheDrains`,
  `ReportedIsClosed`, `Settles`, `ReadLoopEnds`), which is out of the prover's reach;
* what the parsers compute, against reference grammars: `AcceptsGrammar`,
  `ResumeAgrees`, `DecodesBody`, `AcceptsJson`, `BodyAddress`, `StringFits`, `TextRead`. Both
  sides are `RECURSIVE` operators over strings, and the provers have no SMT backend
  in a module that reaches one;
* `AnswersRight` and `AnsweredWhenWhole`, which compare texts with the seven requests
  of the run;
* the caller of cJSON's interface: `ListsWellFormed`, `HeapSound`, `CopiesEqual` and the
  refinement of `JsonTree` (`ImplementsTree`). `CJsonList` has duplication and
  comparison, which are `RECURSIVE`; the single pieces of list surgery it is made of
  are proved in `CJsonLinksProofs`;
* `NeverGivesUp`, which is about bounds that go together (twelve timeouts against
  two losses) and would need an account of which loss caused which timeout.

## Not modelled

* The data race on `que_`: `std::queue` is pushed by the timer thread and used by
  the loop without a lock. After the first overlap any state of it is possible,
  and nothing could be claimed. The models take its operations as atomic; the
  same goes for one SSL object used by two threads, on either side.
* What the program does after `con->length` fell below 0 (`pc = "wild"`), and after
  `usrsctp_accept` on a freed socket did anything but answer null (`wild`).
* The length of a heart beat: `OnSctpOutboundPacket` copies it into a record of 1024
  bytes (`src/RuruSctp.cpp:68`) without comparing the two, and the models take it to fit.
* Partial sends: with `SCTP_EXPLICIT_EOR` usrsctp may take part of a message; the
  rest is lost and the next message continues the cut one, so that nothing can
  be said of whole messages.
* Construction and destruction of `RuruLoop`: after a failure the constructor
  leaves members unset, and `Destory` reads them.
* `RuruCert`, `RuruDtlsCtx` and the socket set-up of `RuruNetwork`: straight-line
  calls of OpenSSL and the system without state of their own.
* `EchoClient` after its first packet: it sends without end.
* cJSON's printing, minifying, hooks and the setters of single values, which this
  program never calls; `RingBufReset`, `UsrsctpStartInit` and `UsrsctpUnInit`.
* The SSE4.2 form of `findchar_fast`, which is its portable meaning.

## What is left

1. An invariant of `RuruDtls` that bounds the timeouts by the losses, under an
   assumption on the constants (`NeverGivesUp`).
2. `cJSON_Duplicate` and `cJSON_Compare` as recursive functions over tables, like
   `FreeOrder`, and with them the proof of `HeapSound` and `ListsWellFormed`.
3. An abstract specification of the echo service that `RuruLoop` implements.
