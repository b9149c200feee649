----------------------------- MODULE RuruDtls -----------------------------
(***************************************************************************)
(* The DTLS handshake between RuruClient (the server's side of one peer)   *)
(* and EchoClient over UDP that loses, delays and reorders datagrams, and  *)
(* the first SCTP exchange after it.                                       *)
(*                                                                         *)
(* Server: EpollWait's UDP branch on an edge-triggered socket,             *)
(* HandleDtlsPacket, ClientSendData and ClientSendPendingDtls.  Client:    *)
(* doHandeShake, handle_packets, conn_output and SendPendingDtls.          *)
(*                                                                         *)
(* A datagram is a sequence of records; the records are the four flights   *)
(* of a DTLS handshake (f1 .. f4), a first flight that offers nothing the  *)
(* server accepts (x1), an alert, application data from the client (d) and *)
(* from the server (e), and close_notify (bye).  A whole flight fits one   *)
(* BIO_read of 4096 bytes.  OpenSSL is modelled by what the code sees of   *)
(* it: it reads all of the in BIO at once, keeps the rest of a datagram    *)
(* for the next call, drops records it does not expect, does nothing more  *)
(* after a fatal error, and retransmits only inside SSL_do_handshake or    *)
(* SSL_read, because nobody calls DTLSv1_handle_timeout.                   *)
(***************************************************************************)
EXTENDS Integers, Sequences, Bags

CONSTANTS
    MaxLoss,        \* bound: how many datagrams the network loses
    MaxEarly,       \* bound: client timeouts while something is under way
    MaxEmpty,       \* bound: empty datagrams that reach the server's socket
    MaxBye,         \* bound: close_notify alerts of the peer (EchoClient: 0)
    Hellos,         \* the first flights a client may send: f1, x1
    MaxTimeouts     \* how often OpenSSL retransmits a flight before it fails

ASSUME DtlsAssumption ==
    /\ {MaxLoss, MaxEarly, MaxEmpty, MaxBye, MaxTimeouts} \subseteq Nat
    /\ Hellos \subseteq {"f1", "x1"}

Empty == <<>>       \* a datagram without bytes: recvfrom returns 0

VARIABLES
    server,         \* the RuruClient object: its SSL, BIOs and flag
    pc,             \* EpollWait: "poll", "recv" (recvfrom loop), "read" (SSL_read loop)
    sockq, edge,    \* the UDP socket's queue, and epoll's pending report
    cut,            \* the last recvfrom loop ended at an empty datagram
    client,         \* EchoClient: its SSL and where main is
    up, down,       \* datagrams under way to the server, to the client
    used            \* how much of the bounds is used up

vars == <<server, pc, sockq, edge, cut, client, up, down, used>>

\* The datagram a flush makes of what is in an out BIO, if anything.
Sent(net, out) == IF out = <<>> THEN net ELSE net (+) SetToBag({out})

Has(dgram, r) == \E i \in DOMAIN dgram : dgram[i] = r

\* The first record of a sequence that is in a set, 0 if none is.
First(recs, S) ==
    LET hit == {i \in DOMAIN recs : recs[i] \in S}
    IN  IF hit = {} THEN 0 ELSE CHOOSE i \in hit : \A j \in hit : i <= j

Rest(recs, i) == SubSeq(recs, i + 1, Len(recs))

----------------------------------------------------------------------------
(***************************************************************************)
(* The server.  ssl is what the handshake waits for ("f1", "f3"), "done"   *)
(* or "error"; rbuf the records OpenSSL took from the in BIO and has not   *)
(* handled; timer the retransmission timer: 0 expired, 1 about to, 2 set.  *)
(***************************************************************************)
\* RuruDtls::RuruDtls
NewServer ==
    [ssl |-> "f1", inBio |-> <<>>, rbuf |-> <<>>, outBio |-> <<>>, timer |-> 2,
     shutdown |-> FALSE, bHandShakeDone |-> FALSE]

\* It has what it waits for, and answers with the next flight.
Advance(s, ssl, flight, rest) ==
    [s EXCEPT !.ssl = ssl, !.inBio = <<>>, !.rbuf = rest, !.outBio = Append(@, flight), !.timer = 2]

\* It wants to read, and sends the last flight again if its timer has expired.
Waits(s) ==
    (IF s.timer > 0 \/ s.ssl = "f1" THEN {[s EXCEPT !.inBio = <<>>, !.rbuf = <<>>]} ELSE {})
    \cup (IF s.timer < 2 /\ s.ssl = "f3" THEN {Advance(s, s.ssl, "f2", <<>>)} ELSE {})

\* SSL_do_handshake with all of the in BIO: the states it may leave.
SSL_do_handshake(s) ==
    LET recs == s.rbuf \o s.inBio
        k == First(recs, IF s.ssl = "f1" THEN {"f1", "x1"} ELSE {s.ssl})
    IN  IF s.ssl = "error" THEN {s}
        ELSE IF k = 0 THEN Waits(s)
        ELSE IF recs[k] = "x1" THEN {Advance(s, "error", "alert", <<>>)}
        ELSE IF s.ssl = "f1" THEN {Advance(s, "f3", "f2", <<>>)}
        ELSE {Advance(s, "done", "f4", Rest(recs, k))}

\* SSL_read after the handshake: the first application data.  A flight that
\* comes again makes OpenSSL put the last flight into the out BIO again.
SSL_read(s) ==
    LET recs == s.rbuf \o s.inBio
        k == First(recs, {"d", "bye"})
        before == IF k = 0 THEN recs ELSE SubSeq(recs, 1, k - 1)
        again == SelectSeq(before, LAMBDA r : r = "f3")
        read == [s EXCEPT !.inBio = <<>>,
                          !.rbuf = IF k = 0 THEN <<>> ELSE Rest(recs, k),
                          !.outBio = @ \o [i \in DOMAIN again |-> "f4"]]
    IN  CASE s.shutdown -> [to |-> s, data |-> FALSE]
          [] ~s.shutdown /\ k > 0 /\ recs[k] = "d" -> [to |-> read, data |-> TRUE]
          [] ~s.shutdown /\ k > 0 /\ recs[k] = "bye" ->
               [to |-> [read EXCEPT !.shutdown = TRUE], data |-> FALSE]
          [] OTHER -> [to |-> read, data |-> FALSE]

Flushed(s) == [s EXCEPT !.outBio = <<>>]

\* ClientSendPendingDtls
ClientSendPendingDtls(s) ==
    /\ server' = Flushed(s)
    /\ down' = Sent(down, s.outBio)

\* ClientSendData of usrsctp's answer
ClientSendData(s) ==
    IF s.bHandShakeDone
    THEN ClientSendPendingDtls([s EXCEPT !.outBio = Append(@, "e")])
    ELSE server' = s /\ UNCHANGED down

\* Faulty variant: the out BIO is not looked at.
EnterDataUnflushed(s) ==
    /\ server' = [s EXCEPT !.bHandShakeDone = TRUE]
    /\ UNCHANGED down
    /\ pc' = "read"

\* HandleDtlsPacket after the handshake, up to its loop: the out BIO is
\* flushed before anything is read.
EnterData(s) ==
    /\ ClientSendPendingDtls([s EXCEPT !.bHandShakeDone = TRUE])
    /\ pc' = "read"

\* HandleDtlsPacket before: the flush follows whether more is needed or not,
\* but not after an error.
Handshake(s) ==
    \E t \in SSL_do_handshake(s) :
        /\ IF t.ssl = "error" THEN server' = t /\ UNCHANGED down
           ELSE ClientSendPendingDtls(t)
        /\ UNCHANGED pc

HandleDtlsPacket(dgram) ==
    LET s == [server EXCEPT !.inBio = @ \o dgram]
    IN  IF s.ssl = "done" THEN EnterData(s) ELSE Handshake(s)

\* epoll_wait reports the socket once per edge.
Poll ==
    /\ pc = "poll" /\ edge
    /\ pc' = "recv"
    /\ edge' = FALSE
    /\ UNCHANGED <<server, sockq, cut, client, up, down, used>>

\* Faulty variant: one datagram for each report.
RecvFromOnce ==
    /\ pc = "recv"
    /\ IF sockq = <<>> \/ Head(sockq) = Empty
       THEN pc' = "poll" /\ cut' = (sockq # <<>>) /\ UNCHANGED <<server, down>>
       ELSE /\ \E s \in {[server EXCEPT !.inBio = @ \o Head(sockq)]} :
                 IF s.ssl = "done" THEN EnterData(s)
                 ELSE pc' = "poll" /\ \E t \in SSL_do_handshake(s) : ClientSendPendingDtls(t)
            /\ UNCHANGED cut
    /\ sockq' = Rest(sockq, 1)
    /\ UNCHANGED <<edge, client, up, used>>

\* while ((bytes = recvfrom(...)) > 0) HandleDtlsPacket
RecvFrom ==
    /\ pc = "recv"
    /\ IF sockq = <<>> \/ Head(sockq) = Empty
       THEN pc' = "poll" /\ cut' = (sockq # <<>>) /\ UNCHANGED <<server, down>>
       ELSE HandleDtlsPacket(Head(sockq)) /\ UNCHANGED cut
    /\ sockq' = Rest(sockq, 1)
    /\ UNCHANGED <<edge, client, up, used>>

\* Faulty variant: the loop also waits for what OpenSSL holds.
PendingOrHeld(s) == s.inBio # <<>> \/ s.rbuf # <<>>

\* BIO_ctrl_pending(inBio) > 0
Pending(s) == s.inBio # <<>>

\* The SSL_read loop: one turn, or its end.
ReadTurn ==
    /\ pc = "read" /\ Pending(server)
    /\ \E r \in {SSL_read(server)} :
         IF r.data THEN ClientSendData(r.to) ELSE server' = r.to /\ UNCHANGED down
    /\ UNCHANGED <<pc, sockq, edge, cut, client, up, used>>

ReadEnd ==
    /\ pc = "read" /\ ~Pending(server)
    /\ pc' = "recv"
    /\ UNCHANGED <<server, sockq, edge, cut, client, up, down, used>>

----------------------------------------------------------------------------
(***************************************************************************)
(* The client.  ssl is what it waits for ("f2", "f4"), "new" before its    *)
(* first SSL_do_handshake and "done" after the last; at is "handshake"     *)
(* (doHandeShake), "failed" (main returned) or "up".  The busy loops of    *)
(* doHandeShake and handle_packets take a datagram when there is one.      *)
(* doHandeShake never sets the len it gives to recvfrom; if what it finds  *)
(* there is negative, recvfrom fails and drops the datagram (lenOk false). *)
(***************************************************************************)
\* dtlsTransInit
NewClient(lenOk) ==
    [ssl |-> "new", at |-> "handshake", hello |-> "f1", timeouts |-> 0, answered |-> FALSE,
     lenOk |-> lenOk]

Flight(c) == IF c.ssl = "f2" THEN c.hello ELSE "f3"    \* the one it sent last

\* SSL_do_handshake asks for more; SendPendingDtls.
ClientSends(c, r) ==
    /\ client' = c
    /\ up' = Sent(up, <<r>>)

\* The first turn of doHandeShake.
ClientStarts ==
    /\ client.ssl = "new"
    /\ \E h \in Hellos : ClientSends([client EXCEPT !.ssl = "f2", !.hello = h], h)
    /\ UNCHANGED <<server, pc, sockq, edge, cut, down, used>>

\* A turn of doHandeShake or handle_packets with a datagram.  When the
\* handshake is over nothing is flushed; a flight it does not wait for is
\* dropped.
ClientReceives(dgram) ==
    /\ client.ssl # "new" /\ client.at # "failed"
    /\ BagIn(dgram, down)
    /\ down' = down (-) SetToBag({dgram})
    /\ LET Got(r) == (client.lenOk \/ client.at = "up") /\ Has(dgram, r)
       IN  CASE client.ssl = "f2" /\ Got("f2") ->
                  ClientSends([client EXCEPT !.ssl = "f4", !.timeouts = 0], "f3")
             [] client.ssl = "f4" /\ Got("f4") ->
                  client' = [client EXCEPT !.ssl = "done"] /\ UNCHANGED up
             [] client.at = "up" /\ Got("e") ->
                  client' = [client EXCEPT !.answered = TRUE] /\ UNCHANGED up
             [] OTHER -> UNCHANGED <<client, up>>
    /\ UNCHANGED <<server, pc, sockq, edge, cut, used>>

\* The next turn finds the handshake over: main goes on and usrsctp_connect
\* sends its first packet through conn_output.
ClientConnects ==
    /\ client.ssl = "done" /\ client.at = "handshake"
    /\ ClientSends([client EXCEPT !.at = "up"], "d")
    /\ UNCHANGED <<server, pc, sockq, edge, cut, down, used>>

\* Nothing is under way: what was sent had time to be answered.
Quiet == up = EmptyBag /\ down = EmptyBag /\ pc = "poll" /\ ~edge

\* A timer of the client's: OpenSSL's, in a turn of doHandeShake without a
\* datagram, or usrsctp's.  Time passes for the server's timer as well.
ClientTimeout ==
    /\ client.ssl # "new" /\ client.at # "failed" /\ ~client.answered
    /\ client.ssl = "done" => client.at = "up"
    /\ \/ Quiet /\ UNCHANGED used
       \/ ~Quiet /\ used.early < MaxEarly /\ used' = [used EXCEPT !.early = @ + 1]
    /\ server' = [server EXCEPT !.timer = IF @ = 0 THEN 0 ELSE @ - 1]
    /\ CASE client.at = "up" -> ClientSends(client, "d")
         [] client.at = "handshake" /\ client.timeouts = MaxTimeouts ->
              client' = [client EXCEPT !.at = "failed"] /\ UNCHANGED up
         [] OTHER ->
              ClientSends([client EXCEPT !.timeouts = @ + 1], Flight(client))
    /\ UNCHANGED <<pc, sockq, edge, cut, down>>

\* A peer other than EchoClient may close its side, and send data with it.
PeerCloses ==
    /\ client.answered /\ used.bye < MaxBye
    /\ used' = [used EXCEPT !.bye = @ + 1]
    /\ \E last \in {<<"bye">>, <<"d", "bye">>, <<"bye", "d">>} : up' = up (+) SetToBag({last, <<"d">>})
    /\ UNCHANGED <<server, pc, sockq, edge, cut, client, down>>

----------------------------------------------------------------------------
\* UDP
Arrive(dgram) ==
    /\ BagIn(dgram, up)
    /\ up' = up (-) SetToBag({dgram})
    /\ sockq' = Append(sockq, dgram)
    /\ edge' = TRUE
    /\ UNCHANGED <<server, pc, cut, client, down, used>>

EmptyArrives ==
    /\ used.empty < MaxEmpty
    /\ used' = [used EXCEPT !.empty = @ + 1]
    /\ sockq' = Append(sockq, Empty)
    /\ edge' = TRUE
    /\ UNCHANGED <<server, pc, cut, client, up, down>>

Lose(dgram) ==
    /\ used.loss < MaxLoss
    /\ used' = [used EXCEPT !.loss = @ + 1]
    /\ \/ BagIn(dgram, up) /\ up' = up (-) SetToBag({dgram}) /\ UNCHANGED down
       \/ BagIn(dgram, down) /\ down' = down (-) SetToBag({dgram}) /\ UNCHANGED up
    /\ UNCHANGED <<server, pc, sockq, edge, cut, client>>

DtlsInit ==
    /\ server = NewServer
    /\ pc = "poll" /\ sockq = <<>> /\ edge = FALSE /\ cut = FALSE
    /\ \E lenOk \in BOOLEAN : client = NewClient(lenOk)
    /\ up = EmptyBag /\ down = EmptyBag
    /\ used = [loss |-> 0, early |-> 0, empty |-> 0, bye |-> 0]

ServerStep == Poll \/ RecvFrom \/ ReadTurn \/ ReadEnd
ClientStep == ClientStarts \/ ClientConnects \/ \E m \in DOMAIN down : ClientReceives(m)
Network == (\E m \in DOMAIN up : Arrive(m)) \/ (\E m \in DOMAIN up \cup DOMAIN down : Lose(m))

DtlsNext ==
    \/ ServerStep \/ ClientStep \/ ClientTimeout \/ PeerCloses
    \/ EmptyArrives \/ Network

DtlsSpec == DtlsInit /\ [][DtlsNext]_vars

(***************************************************************************)
(* Both programs spin, so their next step is taken; a datagram that is not *)
(* lost arrives; timers expire.                                            *)
(***************************************************************************)
DtlsFairSpec ==
    /\ DtlsSpec
    /\ WF_vars(ServerStep) /\ WF_vars(ClientStep) /\ WF_vars(ClientTimeout)
    /\ WF_vars(\E m \in DOMAIN up : Arrive(m))

----------------------------------------------------------------------------
\* A client whose offer the server accepts, and which can receive, never runs
\* out of retransmissions: although the server answers a repeated last flight only
\* when yet another datagram comes (SSL_read puts it into the out BIO after the
\* flush), a few losses cost a few timeouts.
NeverGivesUp == client.hello = "f1" /\ client.lenOk => client.at # "failed"

\* When epoll has nothing to report, no datagram waits in the socket, unless
\* an empty datagram ended the recvfrom loop in front of it.
SocketDrained == pc = "poll" /\ ~edge /\ sockq # <<>> => cut

\* The server's SSL_read loop ends when no close_notify was handled before
\* the datagram it reads.  (After one it would not: SSL_read then leaves the
\* in BIO as it is.)
ReadLoopEnds == (pc = "read" /\ ~server.shutdown) ~> (pc # "read")

\* With finitely many losses and empty datagrams the handshake completes and
\* the client gets an answer to its first packet; a client the server refuses
\* gives up (it is never told, the alert stays in the out BIO), and so does one
\* whose recvfrom fails.
Settles ==
    <>(\/ client.answered
       \/ client.at = "failed" /\ (client.hello = "x1" \/ ~client.lenOk))
=============================================================================
