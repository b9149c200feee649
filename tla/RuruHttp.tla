------------------------------ MODULE RuruHttp ------------------------------
(***************************************************************************)
(* The registration service of RuruLoop: the TCP side of EpollWait, and    *)
(* HttpRequestHandle with the parser of module PicoHttp.                   *)
(*                                                                         *)
(* The sockets are edge triggered (EPOLLET): the kernel reports a          *)
(* connection once for every arrival, not while data is waiting.  The      *)
(* handler of a connection loops until it closes it; a read that finds     *)
(* nothing (EAGAIN) returns -1, which is added to con->length like any     *)
(* other length.                                                           *)
(*                                                                         *)
(* When length falls below 0 the parser is given a range that ends before  *)
(* it begins.  When it does not reject what it then finds, the code goes   *)
(* on with memory outside the buffer, and the model stops (pc = "wild").   *)
(***************************************************************************)
EXTENDS PicoHttp

CONSTANTS
    Conns,          \* the connections peers make
    Requests,       \* what a peer may send
    MaxChunks,      \* bound: the pieces a peer sends its request in
    MaxSize         \* HTTP_MAX_SIZE, the size of con->data

ASSUME SizeAssumption == MaxSize \in Nat \ {0}
ASSUME RequestsAssumption == Requests \subseteq Seq(Char)
ASSUME LimitsAssumption == MaxChunks \in Nat

Listener == "tcpfd"     \* the con of tcpfd_
ASSUME ListenerAssumption == Listener \notin Conns

VARIABLES
    \* the peers and the kernel
    request,        \* what the peer of a connection wants to send
    chunks,         \* the pieces it has sent
    unsent,         \* the rest of request
    sock,           \* "none", "queued" for accept, "open", "closed"
    rcv,            \* the receive buffer of a connection
    fin, reset,     \* the connections the peer has closed, reset
    backlog,        \* the queue of accept(tcpfd_)
    listenEdge,     \* tcpfd_ is on epoll's ready list
    edges,          \* the connections on epoll's ready list
    \* the loop's thread
    pc,             \* "wait", "dispatch", "accept", "handle", "reply"; or the
                    \* process is lost: "wild", "killed"
    batch,          \* the events of epoll_wait still to be handled
    cur,            \* the con of the event being handled
    con,            \* RuruConnectionData: data, length; NoData when not allocated
    reply,          \* the response HttpRequestHandle is about to write
    clientMgr,      \* the connections that made a client, in order
    \* history
    answer,         \* the response a peer was sent
    stalled,        \* the connections for which a read has found nothing
    acceptFailed    \* accept failed, and tcpfd_ has had no edge since

peerVars == <<request, chunks, unsent>>
kernelVars == <<sock, rcv, fin, reset, backlog, listenEdge, edges>>
loopVars == <<pc, batch, cur, con, reply, clientMgr>>
history == <<answer, stalled, acceptFailed>>
vars == <<peerVars, kernelVars, loopVars, history>>

NoData == [data |-> <<>>, length |-> 0]

\* new RuruConnectionData
FreshCon == [data |-> [i \in 1 .. MaxSize |-> "NUL"], length |-> 0]

Live == {c \in Conns : con[c] # NoData}
Opened == {c \in Conns : sock[c] = "open"}
Up == pc \notin {"wild", "killed"}

Init ==
    /\ request = [c \in Conns |-> <<>>]
    /\ chunks = [c \in Conns |-> 0]
    /\ unsent = [c \in Conns |-> <<>>]
    /\ sock = [c \in Conns |-> "none"]
    /\ rcv = [c \in Conns |-> <<>>]
    /\ fin = {} /\ reset = {}
    /\ backlog = <<>>
    /\ listenEdge = FALSE
    /\ edges = {}
    /\ pc = "wait"
    /\ batch = {}
    /\ cur = Listener
    /\ con = [c \in Conns |-> NoData]
    /\ reply = "none"
    /\ clientMgr = <<>>
    /\ answer = [c \in Conns |-> "none"]
    /\ stalled = {}
    /\ acceptFailed = FALSE

(***************************************************************************)
(* The peers.                                                              *)
(***************************************************************************)

\* The kernel completes a connection and queues it for accept.
Connect(c) ==
    /\ sock[c] = "none"
    /\ \E r \in Requests :
         /\ request' = [request EXCEPT ![c] = r]
         /\ unsent' = [unsent EXCEPT ![c] = r]
    /\ sock' = [sock EXCEPT ![c] = "queued"]
    /\ backlog' = Append(backlog, c)
    /\ listenEdge' = TRUE
    /\ acceptFailed' = FALSE
    /\ UNCHANGED <<chunks, rcv, fin, reset, edges, loopVars, answer, stalled>>

\* Something happens on connection c; epoll notes it once c was added.
Edge(c) == edges' = IF sock[c] = "open" THEN edges \cup {c} ELSE edges

PeerSends(c) ==
    /\ sock[c] \in {"queued", "open"}
    /\ c \notin fin \cup reset
    /\ chunks[c] < MaxChunks
    /\ \E n \in 1 .. Len(unsent[c]) :
         /\ rcv' = [rcv EXCEPT ![c] = @ \o SubSeq(unsent[c], 1, n)]
         /\ unsent' = [unsent EXCEPT ![c] = SubSeq(@, n + 1, Len(@))]
    /\ chunks' = [chunks EXCEPT ![c] = @ + 1]
    /\ Edge(c)
    /\ UNCHANGED <<request, sock, fin, reset, backlog, listenEdge, loopVars, history>>

PeerCloses(c) ==
    /\ sock[c] \in {"queued", "open"}
    /\ c \notin fin \cup reset
    /\ fin' = fin \cup {c}
    /\ Edge(c)
    /\ UNCHANGED <<peerVars, sock, rcv, reset, backlog, listenEdge, loopVars, history>>

PeerResets(c) ==
    /\ sock[c] \in {"queued", "open"}
    /\ c \notin reset
    /\ reset' = reset \cup {c}
    /\ Edge(c)
    /\ UNCHANGED <<peerVars, sock, rcv, fin, backlog, listenEdge, loopVars, history>>

Peer(c) == Connect(c) \/ PeerSends(c) \/ PeerCloses(c) \/ PeerResets(c)

(***************************************************************************)
(* EpollWait.                                                              *)
(***************************************************************************)

\* What epoll_wait reports; hup stands for EPOLLERR or EPOLLHUP.
ReadyEvents ==
    {[src |-> c, hup |-> c \in reset] : c \in edges}
      \cup (IF listenEdge /\ backlog # <<>>
            THEN {[src |-> Listener, hup |-> FALSE]} ELSE {})

\* The order of the events in events_ is epoll's choice.
EpollWait ==
    /\ pc = "wait"
    /\ ReadyEvents # {}
    /\ batch' = ReadyEvents
    /\ listenEdge' = FALSE
    /\ edges' = {}
    /\ pc' = "dispatch"
    /\ UNCHANGED <<peerVars, sock, rcv, fin, reset, backlog, con, cur, reply,
                   clientMgr, history>>

EndBatch ==
    /\ pc = "dispatch"
    /\ batch = {}
    /\ pc' = "wait"
    /\ UNCHANGED <<peerVars, kernelVars, batch, con, cur, reply, clientMgr, history>>

\* Faulty variant: epoll keeps the connection, as it does when its file is
\* open elsewhere.
CloseConKeepsEdge(c) ==
    /\ sock' = [sock EXCEPT ![c] = "closed"]
    /\ rcv' = [rcv EXCEPT ![c] = <<>>]
    /\ con' = [con EXCEPT ![c] = NoData]
    /\ UNCHANGED edges

\* close(con->fd); delete con;
CloseCon(c) ==
    /\ sock' = [sock EXCEPT ![c] = "closed"]
    /\ rcv' = [rcv EXCEPT ![c] = <<>>]
    /\ edges' = edges \ {c}
    /\ con' = [con EXCEPT ![c] = NoData]

\* EPOLLERR or EPOLLHUP.
Hangup ==
    /\ pc = "dispatch"
    /\ \E e \in batch :
         /\ e.hup
         /\ batch' = batch \ {e}
         /\ CloseCon(e.src)
    /\ UNCHANGED <<peerVars, fin, reset, backlog, listenEdge, pc, cur, reply,
                   clientMgr, history>>

\* EPOLLIN: the listening socket, or a connection.
Dispatch ==
    /\ pc = "dispatch"
    /\ \E e \in batch :
         /\ ~e.hup
         /\ batch' = batch \ {e}
         /\ IF e.src = Listener THEN pc' = "accept" /\ UNCHANGED cur
                                ELSE pc' = "handle" /\ cur' = e.src
    /\ UNCHANGED <<peerVars, kernelVars, con, reply, clientMgr, history>>

(***************************************************************************)
(* The accept loop.                                                        *)
(***************************************************************************)

\* epoll_ctl(EPOLL_CTL_ADD) reports what has already happened.
AddToEpoll(c) ==
    edges' = IF rcv[c] # <<>> \/ c \in fin \cup reset THEN edges \cup {c} ELSE edges

\* Faulty variant: one accept for each event.
NextStepOnce == "dispatch"

\* for (;;) around accept
NextStep == "accept"

AcceptOne ==
    /\ pc = "accept"
    /\ backlog # <<>>
    /\ LET c == Head(backlog)
       IN  /\ sock' = [sock EXCEPT ![c] = "open"]
           /\ con' = [con EXCEPT ![c] = FreshCon]
           /\ AddToEpoll(c)
    /\ backlog' = Tail(backlog)
    /\ pc' = NextStep
    /\ UNCHANGED <<peerVars, rcv, fin, reset, listenEdge, batch, cur, reply,
                   clientMgr, history>>

\* SetNonBlocking fails: close(cfd); or epoll_ctl fails: close(cfd), and the
\* connection data is not deleted.
AcceptRefuses ==
    /\ pc = "accept"
    /\ backlog # <<>>
    /\ LET c == Head(backlog)
       IN  /\ sock' = [sock EXCEPT ![c] = "closed"]
           /\ rcv' = [rcv EXCEPT ![c] = <<>>]
           /\ con' \in {con, [con EXCEPT ![c] = FreshCon]}
    /\ backlog' = Tail(backlog)
    /\ pc' = NextStep
    /\ UNCHANGED <<peerVars, fin, reset, listenEdge, edges, batch, cur, reply,
                   clientMgr, history>>

\* accept returns -1: EAGAIN when nothing is queued, or an error (no descriptor
\* left, no memory) that leaves the queue as it is.
AcceptEnds ==
    /\ pc = "accept"
    /\ acceptFailed' = (backlog # <<>> /\ ~listenEdge)
    /\ pc' = "dispatch"
    /\ UNCHANGED <<peerVars, kernelVars, batch, con, cur, reply, clientMgr,
                   answer, stalled>>

(***************************************************************************)
(* HttpRequestHandle: one iteration of its loop.                           *)
(***************************************************************************)

\* atoi of the value of the first content-length header, or 0.
Blank == {"SP", "CR", "LF"}
Value == [n \in Numeral |-> CASE n = "1" -> 1 [] n = "2" -> 2 [] n = "3" -> 3 [] OTHER -> 0]

NumberAt(data, i) ==
    LET text == {k \in i .. MaxSize : data[k] \notin Blank}
        first == CHOOSE k \in text : \A j \in text : k <= j
    IN  IF text # {} /\ data[first] \in DOMAIN Value THEN Value[data[first]] ELSE 0

IsContentLength(data, h) ==
    h.name # 0 /\ data[h.name] = "len" /\ data[h.name + 1] = ":"

ContentLength(data, headers) ==
    LET found == {k \in DOMAIN headers : IsContentLength(data, headers[k])}
    IN  IF found = {} THEN 0
        ELSE NumberAt(data, headers[CHOOSE k \in found : \A j \in found : k <= j].value)

\* BodyParse: cJSON_Parse takes the text from status on, up to the first NUL;
\* "{" and "}" are an object with a string "ip" and a number "port".
BodyParse(data, status) ==
    /\ status + 2 <= MaxSize
    /\ data[status + 1] = "{"
    /\ data[status + 2] = "}"

\* Faulty variant: what follows the body is not noticed.
VerdictAtLeast(data, length, lastLen) ==
    LET parsed == phr_parse_request(data, length, lastLen)
        status == parsed.ret
        contentLength == ContentLength(data, parsed.headers)
    IN  CASE status > 0 /\ contentLength > 0 /\ length >= status + contentLength ->
               IF BodyParse(data, status) THEN "200" ELSE "400"
          [] status = -1 -> "close"
          [] status = -2 /\ length = MaxSize -> "400"
          [] OTHER -> "more"

\* What becomes of a connection after a read and a call of the parser, which
\* is told of the last read whatever it answered then.
Verdict(data, length, lastLen) ==
    LET parsed == phr_parse_request(data, length, lastLen)
        status == parsed.ret
        contentLength == ContentLength(data, parsed.headers)
    IN  CASE status > 0 /\ contentLength > 0 /\ length = status + contentLength ->
               IF BodyParse(data, status) THEN "200" ELSE "400"
          [] status = -1 -> "close"
          [] status = -2 /\ length = MaxSize -> "400"
          [] OTHER -> "more"

\* HTTP_MAX_SIZE - con->length
Room(length) == MaxSize - length

MinOf(i, j) == IF i < j THEN i ELSE j

\* Faulty variant: read always stores at the beginning of the buffer.
StoreAtStart(k) == 0

\* con->data + con->length
StoreAt(k) == k.length

\* Faulty variant: an empty read counts as 0.
ReturnedOrZero(k, in) == MinOf(Room(k.length), Len(in))

\* What read returns when in is waiting: -1 with EAGAIN when nothing is.
Returned(k, in) == IF in = <<>> THEN -1 ELSE MinOf(Room(k.length), Len(in))

\* read into data + length, and con->length += length.
AfterRead(k, in) ==
    LET stored == StoreAt(k) + 1 .. StoreAt(k) + Returned(k, in)
    IN  [data |-> [i \in DOMAIN k.data |->
                     IF i \in stored THEN in[i - StoreAt(k)] ELSE k.data[i]],
         length |-> k.length + Returned(k, in)]

\* read returns data, or -1 with EAGAIN.
Reads ==
    /\ pc = "handle"
    /\ Room(con[cur].length) > 0
    /\ rcv[cur] # <<>> \/ cur \notin fin \cup reset
    /\ stalled' = IF rcv[cur] = <<>> THEN stalled \cup {cur} ELSE stalled

\* What read leaves in the receive buffer.
Unread == SubSeq(rcv[cur], MinOf(Room(con[cur].length), Len(rcv[cur])) + 1, Len(rcv[cur]))

\* read returns 0, which it also does when there is no room, or an error.
HandleEnds ==
    /\ pc = "handle"
    /\ \/ Room(con[cur].length) = 0
       \/ rcv[cur] = <<>> /\ cur \in fin \cup reset
    /\ CloseCon(cur)
    /\ pc' = "dispatch"
    /\ UNCHANGED <<peerVars, fin, reset, backlog, listenEdge, batch, cur, reply,
                   clientMgr, history>>

\* The request is not complete: read again.
ReadsOn(k) ==
    /\ con' = [con EXCEPT ![cur] = k]
    /\ rcv' = [rcv EXCEPT ![cur] = Unread]
    /\ UNCHANGED <<sock, edges, pc, reply, clientMgr>>

Rejects ==
    /\ CloseCon(cur)
    /\ pc' = "dispatch"
    /\ UNCHANGED <<reply, clientMgr>>

\* Faulty variant: the new client is not put into clientMgr_.
ClientsAsBefore(verdict) == clientMgr

\* clientMgr_.push_back
Clients(verdict) == IF verdict = "200" THEN Append(clientMgr, cur) ELSE clientMgr

\* A good request makes a client before the response is written.
Answers(k, verdict) ==
    /\ con' = [con EXCEPT ![cur] = k]
    /\ rcv' = [rcv EXCEPT ![cur] = Unread]
    /\ reply' = verdict
    /\ clientMgr' = Clients(verdict)
    /\ pc' = "reply"
    /\ UNCHANGED <<sock, edges>>

\* An iteration whose read returned data or EAGAIN, with length at least 0.
HandleReads ==
    /\ Reads
    /\ \E k \in {AfterRead(con[cur], rcv[cur])} :
         /\ k.length >= 0
         /\ \E verdict \in {Verdict(k.data, k.length, con[cur].length)} :
              \/ verdict = "more" /\ ReadsOn(k)
              \/ verdict = "close" /\ Rejects
              \/ verdict \in {"200", "400"} /\ Answers(k, verdict)
    /\ UNCHANGED <<peerVars, fin, reset, backlog, listenEdge, batch, cur, answer,
                   acceptFailed>>

\* length becomes -1.  The parser meets no end of its range; it rejects what
\* it finds before the version, or it gets there and answers -2, and the next
\* read goes before the buffer.  Beyond the buffer it may find anything.
HandleUnderruns ==
    /\ Reads
    /\ rcv[cur] = <<>>
    /\ con[cur].length = 0
    /\ \E ret \in {BeforeVersion(con[cur].data, MaxSize).ret} :
         \/ ret \in {-1, -2} /\ Rejects
         \/ /\ ret \in {0, -2}
            /\ con' = [con EXCEPT ![cur].length = -1]
            /\ pc' = "wild"
            /\ UNCHANGED <<sock, rcv, edges, reply, clientMgr>>
    /\ UNCHANGED <<peerVars, fin, reset, backlog, listenEdge, batch, cur, answer,
                   acceptFailed>>

\* SocketWrite, then close and delete.
Reply ==
    /\ pc = "reply"
    /\ answer' = IF cur \in reset THEN answer ELSE [answer EXCEPT ![cur] = reply]
    /\ reply' = "none"
    /\ CloseCon(cur)
    /\ pc' = "dispatch"
    /\ UNCHANGED <<peerVars, fin, reset, backlog, listenEdge, batch, cur, clientMgr,
                   stalled, acceptFailed>>

\* A write to a connection the peer has reset may raise SIGPIPE, which
\* nothing in the program handles.
ReplyKills ==
    /\ pc = "reply"
    /\ cur \in reset
    /\ pc' = "killed"
    /\ UNCHANGED <<peerVars, kernelVars, batch, con, cur, reply, clientMgr, history>>

Accepting == AcceptOne \/ AcceptRefuses \/ AcceptEnds

HttpRequestHandle ==
    \/ HandleEnds \/ HandleReads \/ HandleUnderruns
    \/ Reply \/ ReplyKills

Server == EpollWait \/ EndBatch \/ Hangup \/ Dispatch \/ Accepting \/ HttpRequestHandle

Next == (Up /\ \E c \in Conns : Peer(c)) \/ Server

Spec == Init /\ [][Next]_vars

\* The loop's thread goes on: nothing it calls blocks.
FairSpec == Spec /\ WF_vars(Server)

(***************************************************************************)
(* Properties.                                                             *)
(***************************************************************************)

Batched == {e.src : e \in batch}

\* EpollWait and HttpRequestHandle never use connection data that was
\* deleted: whatever epoll holds or has reported, and the connection being
\* handled, is open and allocated.
NoUseAfterFree ==
    /\ edges \cup (Batched \ {Listener}) \subseteq Opened \cap Live
    /\ pc \in {"handle", "reply"} => cur \in Opened \cap Live

\* Edge triggering loses nothing: a connection with something to read, an
\* end or an error is being handled or will be reported, and so is the
\* listening socket while connections wait, unless accept has failed.
NoLostWakeup ==
    Up =>
    /\ \A c \in Opened :
         rcv[c] # <<>> \/ c \in fin \cup reset =>
           c \in edges \cup Batched \/ (pc \in {"handle", "reply"} /\ cur = c)
    /\ backlog # <<>> =>
         listenEdge \/ pc = "accept" \/ Listener \in Batched \/ acceptFailed

\* As long as every read of a connection has found data, con->data holds what
\* the peer sent, in order and without gaps, and nothing is skipped.
ReceivedIntact ==
    \A c \in Opened \ stalled :
      LET got == SubSeq(con[c].data, 1, con[c].length)
      IN  request[c] = got \o rcv[c] \o unsent[c]

\* The parser is called with a range that does not end before it begins, and
\* con->length counts characters of con->data.
LengthInRange == \A c \in Live : con[c].length \in 0 .. MaxSize

\* A connection that has something for the server is closed in the end,
\* whatever its peer and the other peers do, unless the process is lost.
ReportedIsClosed ==
    \A c \in Conns : c \in edges ~> sock[c] = "closed" \/ ~Up

Service == INSTANCE HttpService WITH
    phase <- sock,
    registered <- {clientMgr[i] : i \in DOMAIN clientMgr},
    gone <- reset,
    up <- Up

\* The service keeps the promise of module HttpService to every connection.
ImplementsService == Service!SSpec
=============================================================================
