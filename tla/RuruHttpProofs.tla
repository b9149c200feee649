--------------------------- MODULE RuruHttpProofs ---------------------------
(***************************************************************************)
(* Proofs about RuruHttp, for any connections, requests, number of pieces  *)
(* and size of the connection buffers.                                     *)
(***************************************************************************)
EXTENDS RuruHttp, SequenceTheorems, TLAPS

Phases == {"none", "queued", "open", "closed"}
Steps == {"wait", "dispatch", "accept", "handle", "reply", "wild", "killed"}
Buffers == [data : [1 .. MaxSize -> Char], length : Int]

PeerTypeOK ==
    /\ request \in [Conns -> Seq(Char)]
    /\ unsent \in [Conns -> Seq(Char)]
    /\ rcv \in [Conns -> Seq(Char)]

KernelTypeOK ==
    /\ sock \in [Conns -> Phases]
    /\ fin \subseteq Conns /\ reset \subseteq Conns /\ edges \subseteq Conns
    /\ backlog \in Seq(Conns)

ServerTypeOK ==
    /\ pc \in Steps
    /\ Batched \subseteq Conns \cup {Listener}
    /\ cur \in Conns \cup {Listener}
    /\ con \in [Conns -> Buffers \cup {NoData}]
    /\ clientMgr \in Seq(Conns)

Handles == pc \in {"handle", "reply"}

\* The accept queue holds connections that wait for accept, each once.
BacklogInv ==
    /\ \A i \in DOMAIN backlog : sock[backlog[i]] = "queued"
    /\ \A i, j \in DOMAIN backlog : backlog[i] = backlog[j] => i = j

\* A batch has one event for each source, and none for the connection that is
\* handled; the listening socket is never hung up, and a connection only when
\* its peer has reset it.
BatchInv ==
    /\ \A e, f \in batch : e.src = f.src => e = f
    /\ \A e \in batch : e.hup => e.src \in reset
    /\ pc = "wait" => batch = {}
    /\ Handles => cur \in Conns /\ cur \notin Batched

Registered == {clientMgr[i] : i \in DOMAIN clientMgr}

\* A connection that made a client is about to be answered, or closed.
RegisterInv ==
    /\ \A c \in Registered : sock[c] = "closed" \/ (pc \in {"reply", "killed"} /\ cur = c)
    /\ pc = "reply" => reply = IF cur \in Registered THEN "200" ELSE "400"

\* An open connection has its data; con->length counts characters of con->data,
\* unless the process is lost; what was sent to a connection that waits for accept
\* is in the kernel.
BufferInv ==
    /\ Opened \subseteq Live
    /\ \A c \in Live : con[c].length \in 0 .. MaxSize \/ pc = "wild"
    /\ \A c \in Conns : sock[c] = "queued" => request[c] = rcv[c] \o unsent[c]
    /\ \A c \in Conns : sock[c] = "none" => rcv[c] = <<>>

HttpTypeOK == PeerTypeOK /\ KernelTypeOK /\ ServerTypeOK

HttpSafe ==
    /\ BacklogInv /\ BatchInv /\ NoUseAfterFree /\ NoLostWakeup
    /\ RegisterInv /\ BufferInv /\ ReceivedIntact

HttpInv == HttpTypeOK /\ HttpSafe

-----------------------------------------------------------------------------
(* Facts about the operators.                                              *)

\* Connection data is not empty.
LEMMA BufferIsData == \A b \in Buffers : b # NoData
<1> SUFFICES ASSUME NEW b \in Buffers, b = NoData PROVE FALSE
  OBVIOUS
<1>1. DOMAIN b.data = 1 .. MaxSize /\ 1 \in 1 .. MaxSize
  BY SizeAssumption DEF Buffers
<1>2. b.data = <<>> /\ DOMAIN <<>> = {}
  BY DEF NoData
<1> QED BY <1>1, <1>2

\* A connection's data is a buffer exactly while it is allocated.
LEMMA LiveIsBuffer ==
    ASSUME ServerTypeOK, NEW c \in Conns
    PROVE  c \in Live <=> con[c] \in Buffers
  BY BufferIsData DEF ServerTypeOK, Live

\* new RuruConnectionData
LEMMA FreshIsBuffer == FreshCon \in Buffers
  BY SizeAssumption DEF FreshCon, Buffers, Char, Control

\* clientMgr_ holds connections.
LEMMA RegisteredIsConns ==
    ASSUME ServerTypeOK
    PROVE  Registered \subseteq Conns
  BY LenProperties, ElementOfSeq DEF ServerTypeOK, Registered

\* The head of the accept queue waits, and the rest does not hold it.
LEMMA BacklogHead ==
    ASSUME KernelTypeOK, BacklogInv, backlog # <<>>
    PROVE  /\ Head(backlog) \in Conns
           /\ sock[Head(backlog)] = "queued"
           /\ Tail(backlog) \in Seq(Conns)
           /\ \A i \in DOMAIN Tail(backlog) :
                 /\ i + 1 \in DOMAIN backlog
                 /\ Tail(backlog)[i] = backlog[i + 1]
                 /\ Tail(backlog)[i] # Head(backlog)
<1>1. /\ Len(backlog) \in Nat \ {0} /\ DOMAIN backlog = 1 .. Len(backlog)
      /\ Tail(backlog) \in Seq(Conns) /\ Len(Tail(backlog)) = Len(backlog) - 1
      /\ Head(backlog) \in Conns
      /\ \A i \in 1 .. Len(Tail(backlog)) : Tail(backlog)[i] = backlog[i + 1]
  BY LenProperties, EmptySeq, HeadTailProperties DEF KernelTypeOK
<1>2. DOMAIN Tail(backlog) = 1 .. Len(backlog) - 1 /\ Head(backlog) = backlog[1]
  BY <1>1, LenProperties
<1>3. \A i \in DOMAIN Tail(backlog) : i + 1 \in DOMAIN backlog /\ i + 1 # 1 /\ 1 \in DOMAIN backlog
  BY <1>1, <1>2
<1> QED BY <1>1, <1>2, <1>3 DEF BacklogInv

-----------------------------------------------------------------------------
(* Types.                                                                  *)

\* What a read leaves of a buffer is a buffer again.
LEMMA ReadIsBuffer ==
    ASSUME NEW k \in Buffers, NEW in \in Seq(Char)
    PROVE  AfterRead(k, in) \in Buffers
<1>1. Len(in) \in Nat /\ \A j \in 1 .. Len(in) : in[j] \in Char
  BY LenProperties, ElementOfSeq
<1>2. k.data \in [1 .. MaxSize -> Char] /\ k.length \in Int /\ DOMAIN k.data = 1 .. MaxSize
  BY DEF Buffers
<1>3. Returned(k, in) \in Int /\ Returned(k, in) <= Len(in)
  BY <1>1, <1>2, SizeAssumption DEF Returned, MinOf, Room
<1>4. ASSUME NEW i \in 1 .. MaxSize, i \in k.length + 1 .. k.length + Returned(k, in)
      PROVE  in[i - k.length] \in Char
  <2>1. i - k.length \in 1 .. Len(in)
    BY <1>1, <1>2, <1>3, <1>4, SizeAssumption
  <2> QED BY <1>1, <2>1
<1> DEFINE new == [i \in 1 .. MaxSize |->
                     IF i \in k.length + 1 .. k.length + Returned(k, in)
                     THEN in[i - k.length] ELSE k.data[i]]
<1>5. new \in [1 .. MaxSize -> Char]
  BY <1>2, <1>4
<1>6. AfterRead(k, in) = [data |-> new, length |-> k.length + Returned(k, in)]
  BY <1>2 DEF AfterRead, StoreAt
<1>7. k.length + Returned(k, in) \in Int
  BY <1>2, <1>3
<1> HIDE DEF new
<1> QED BY <1>5, <1>6, <1>7 DEF Buffers

\* A prefix and a rest of a sequence of characters are such sequences.
LEMMA PiecesAreSeqs ==
    ASSUME NEW s \in Seq(Char), NEW n \in Nat, n <= Len(s)
    PROVE  /\ SubSeq(s, 1, n) \in Seq(Char)
           /\ SubSeq(s, n + 1, Len(s)) \in Seq(Char)
           /\ SubSeq(s, 1, n) \o SubSeq(s, n + 1, Len(s)) = s
<1>1. Len(s) \in Nat /\ \A i \in 1 .. Len(s) : s[i] \in Char
  BY LenProperties, ElementOfSeq
<1>2. SubSeq(s, 1, n) \in Seq(Char)
  BY <1>1, SubSeqProperties
<1>3. SubSeq(s, n + 1, Len(s)) \in Seq(Char)
  BY <1>1, SubSeqProperties
<1>4. SubSeq(s, 1, n) \o SubSeq(s, n + 1, Len(s)) = SubSeq(s, 1, Len(s))
  <2>1. 1 \in 1 .. Len(s) + 1 /\ n \in 1 - 1 .. Len(s) /\ Len(s) \in n .. Len(s)
    BY <1>1
  <2> QED BY <2>1, ConcatAdjacentSubSeq
<1>5. SubSeq(s, 1, Len(s)) = s
  BY SubSeqFull
<1> QED BY <1>2, <1>3, <1>4, <1>5

\* Concatenation may be regrouped.
LEMMA Regroup == \A s, t, u \in Seq(Char) : (s \o t) \o u = s \o (t \o u)
<1> SUFFICES ASSUME NEW s \in Seq(Char), NEW t \in Seq(Char), NEW u \in Seq(Char)
             PROVE  (s \o t) \o u = s \o (t \o u)
  BY Zenon
<1> DEFINE A == Char
<1>1. s \in Seq(A) /\ t \in Seq(A) /\ u \in Seq(A)
  OBVIOUS
<1> HIDE DEF A
<1> QED BY <1>1, ConcatAssociative

\* What the handler leaves in the kernel.
LEMMA UnreadIsSeq ==
    ASSUME PeerTypeOK, ServerTypeOK, cur \in Conns, con[cur] \in Buffers,
           Room(con[cur].length) > 0
    PROVE  Unread \in Seq(Char)
<1> DEFINE n == MinOf(Room(con[cur].length), Len(rcv[cur]))
<1>1. rcv[cur] \in Seq(Char) /\ Len(rcv[cur]) \in Nat
  BY LenProperties DEF PeerTypeOK
<1>2. n \in Nat /\ n <= Len(rcv[cur])
  BY <1>1, SizeAssumption DEF MinOf, Room, Buffers
<1> QED BY <1>1, <1>2, PiecesAreSeqs DEF Unread

\* The peers leave everything well typed.
LEMMA PeerKeepsTypes ==
    ASSUME HttpTypeOK, NEW c \in Conns, Peer(c)
    PROVE  HttpTypeOK'
<1>1. CASE Connect(c)
  <2>1. PICK r \in Requests : request' = [request EXCEPT ![c] = r] /\ unsent' = [unsent EXCEPT ![c] = r]
    BY <1>1 DEF Connect
  <2>2. PeerTypeOK'
    BY <1>1, <2>1, RequestsAssumption DEF Connect, HttpTypeOK, PeerTypeOK
  <2>3. KernelTypeOK'
    BY <1>1, AppendProperties DEF Connect, HttpTypeOK, KernelTypeOK, Phases
  <2>4. ServerTypeOK'
    BY <1>1 DEF Connect, HttpTypeOK, ServerTypeOK, Batched, loopVars
  <2> QED BY <2>2, <2>3, <2>4 DEF HttpTypeOK
<1>2. CASE PeerSends(c)
  <2>1. PICK n \in 1 .. Len(unsent[c]) :
          /\ rcv' = [rcv EXCEPT ![c] = @ \o SubSeq(unsent[c], 1, n)]
          /\ unsent' = [unsent EXCEPT ![c] = SubSeq(@, n + 1, Len(@))]
    BY <1>2 DEF PeerSends
  <2>2. unsent[c] \in Seq(Char) /\ rcv[c] \in Seq(Char)
    BY DEF HttpTypeOK, PeerTypeOK
  <2>3. n \in Nat /\ n <= Len(unsent[c])
    BY <2>2, LenProperties
  <2>4. SubSeq(unsent[c], 1, n) \in Seq(Char) /\ SubSeq(unsent[c], n + 1, Len(unsent[c])) \in Seq(Char)
    BY <2>2, <2>3, PiecesAreSeqs
  <2>5. rcv[c] \o SubSeq(unsent[c], 1, n) \in Seq(Char)
    BY <2>2, <2>4, ConcatProperties
  <2>6. PeerTypeOK'
    BY <1>2, <2>1, <2>4, <2>5 DEF PeerSends, HttpTypeOK, PeerTypeOK
  <2>7. KernelTypeOK' /\ ServerTypeOK'
    BY <1>2 DEF PeerSends, Edge, HttpTypeOK, KernelTypeOK, ServerTypeOK, Batched, loopVars
  <2> QED BY <2>6, <2>7 DEF HttpTypeOK
<1>3. CASE PeerCloses(c) \/ PeerResets(c)
  BY <1>3 DEF PeerCloses, PeerResets, Edge, peerVars, loopVars, HttpTypeOK, PeerTypeOK,
              KernelTypeOK, ServerTypeOK, Batched
<1> QED BY <1>1, <1>2, <1>3 DEF Peer

\* What epoll_wait may report.
LEMMA ReadyIsEvents ==
    ASSUME KernelTypeOK
    PROVE  /\ \A e \in ReadyEvents :
                 \/ e.src \in edges /\ (e.hup <=> e.src \in reset)
                 \/ e.src = Listener /\ e.hup = FALSE /\ listenEdge /\ backlog # <<>>
           /\ \A e, f \in ReadyEvents : e.src = f.src => e = f
           /\ \A c \in edges : \E e \in ReadyEvents : e.src = c
           /\ listenEdge /\ backlog # <<>> => \E e \in ReadyEvents : e.src = Listener
<1> DEFINE ev(c) == [src |-> c, hup |-> c \in reset]
           on == [src |-> Listener, hup |-> FALSE]
<1>1. \A c : ev(c).src = c /\ (ev(c).hup <=> c \in reset)
  BY Zenon
<1>2. on.src = Listener /\ on.hup = FALSE
  OBVIOUS
<1>3. edges \subseteq Conns /\ Listener \notin Conns
  BY ListenerAssumption DEF KernelTypeOK
<1>4. ReadyEvents = {ev(c) : c \in edges} \cup (IF listenEdge /\ backlog # <<>> THEN {on} ELSE {})
  BY Zenon DEF ReadyEvents
<1> HIDE DEF ev, on
<1>5. \A e \in ReadyEvents : (\E c \in edges : e = ev(c)) \/ (e = on /\ listenEdge /\ backlog # <<>>)
  BY <1>4, Zenon
<1>6. \A c \in edges : ev(c) \in ReadyEvents
  BY <1>4, Zenon
<1>7. listenEdge /\ backlog # <<>> => on \in ReadyEvents
  BY <1>4, Zenon
<1>8. \A e \in ReadyEvents :
          \/ e.src \in edges /\ (e.hup <=> e.src \in reset)
          \/ e.src = Listener /\ e.hup = FALSE /\ listenEdge /\ backlog # <<>>
  BY <1>1, <1>2, <1>5, Zenon
<1>9. \A e \in ReadyEvents : (e.src \in Conns /\ e = ev(e.src)) \/ (e.src = Listener /\ e = on)
  BY <1>1, <1>2, <1>3, <1>5, Zenon
<1>10. \A e, f \in ReadyEvents : e.src = f.src => e = f
  BY <1>3, <1>9, Zenon
<1> QED BY <1>1, <1>2, <1>6, <1>7, <1>8, <1>10, Zenon

\* So does every step of the server.
LEMMA ServerKeepsTypes ==
    ASSUME HttpInv, Server
    PROVE  HttpTypeOK'
<1> USE DEF HttpInv, HttpSafe, HttpTypeOK
<1>1. CASE EpollWait \/ EndBatch \/ Dispatch
  <2>1. \A e \in ReadyEvents : e.src \in Conns \cup {Listener}
    BY ReadyIsEvents, Zenon DEF KernelTypeOK
  <2>2. \A e \in batch : e.src \in Conns \cup {Listener}
    BY DEF ServerTypeOK, Batched
  <2> QED BY <1>1, <2>1, <2>2 DEF EpollWait, EndBatch, Dispatch, PeerTypeOK, KernelTypeOK, ServerTypeOK,
                Steps, Batched, peerVars, kernelVars
<1>2. ASSUME NEW c \in Conns, CloseCon(c)
      PROVE  /\ rcv' \in [Conns -> Seq(Char)]
             /\ sock' \in [Conns -> Phases]
             /\ edges' \subseteq Conns
             /\ con' \in [Conns -> Buffers \cup {NoData}]
  BY <1>2, EmptySeq DEF CloseCon, PeerTypeOK, KernelTypeOK, ServerTypeOK, Phases
<1>3. CASE Hangup
  <2>1. PICK e \in batch : e.hup /\ batch' = batch \ {e} /\ CloseCon(e.src)
    BY <1>3 DEF Hangup
  <2>2. e.src \in Conns
    BY <2>1 DEF BatchInv, KernelTypeOK
  <2> QED BY <1>2, <1>3, <2>1, <2>2 DEF Hangup, PeerTypeOK, KernelTypeOK, ServerTypeOK, Batched, peerVars
<1>4. CASE Accepting
  <2>1. CASE AcceptEnds
    BY <2>1 DEF AcceptEnds, PeerTypeOK, KernelTypeOK, ServerTypeOK, Batched, Steps, peerVars, kernelVars
  <2>2. CASE AcceptOne \/ AcceptRefuses
    <3>1. Head(backlog) \in Conns /\ Tail(backlog) \in Seq(Conns)
      BY <2>2, BacklogHead DEF AcceptOne, AcceptRefuses
    <3>2. PeerTypeOK'
      <4>1. rcv' = rcv \/ rcv' = [rcv EXCEPT ![Head(backlog)] = <<>>]
        BY <2>2 DEF AcceptOne, AcceptRefuses
      <4>2. rcv' \in [Conns -> Seq(Char)]
        BY <3>1, <4>1, EmptySeq DEF PeerTypeOK
      <4> QED BY <2>2, <4>2 DEF AcceptOne, AcceptRefuses, PeerTypeOK, peerVars
    <3>3. KernelTypeOK'
      BY <2>2, <3>1 DEF AcceptOne, AcceptRefuses, AddToEpoll, KernelTypeOK, Phases
    <3>4. con' = con \/ con' = [con EXCEPT ![Head(backlog)] = FreshCon]
      BY <2>2 DEF AcceptOne, AcceptRefuses
    <3>5. con' \in [Conns -> Buffers \cup {NoData}]
      BY <3>1, <3>4, FreshIsBuffer DEF ServerTypeOK
    <3>6. ServerTypeOK'
      BY <2>2, <3>5 DEF AcceptOne, AcceptRefuses, NextStep, ServerTypeOK, Batched, Steps
    <3> QED BY <3>2, <3>3, <3>6
  <2> QED BY <1>4, <2>1, <2>2 DEF Accepting
<1>5. pc \in {"handle", "reply"} => cur \in Conns /\ con[cur] \in Buffers
  BY LiveIsBuffer DEF BatchInv, Handles, NoUseAfterFree, Live
<1>6. CASE HandleEnds \/ Reply \/ ReplyKills
  BY <1>2, <1>5, <1>6 DEF HandleEnds, Reply, ReplyKills, PeerTypeOK, KernelTypeOK, ServerTypeOK, Steps,
        Batched, peerVars, kernelVars
<1>7. CASE HandleReads \/ HandleUnderruns
  <2>1. cur \in Conns /\ con[cur] \in Buffers /\ Room(con[cur].length) > 0 /\ rcv[cur] \in Seq(Char)
    BY <1>5, <1>7 DEF HandleReads, HandleUnderruns, Reads, PeerTypeOK
  <2>2. Unread \in Seq(Char) /\ AfterRead(con[cur], rcv[cur]) \in Buffers
    BY <2>1, UnreadIsSeq, ReadIsBuffer
  <2>3. CASE HandleReads
    <3>1. PICK verdict :
            \/ verdict = "more" /\ ReadsOn(AfterRead(con[cur], rcv[cur]))
            \/ verdict = "close" /\ Rejects
            \/ verdict \in {"200", "400"} /\ Answers(AfterRead(con[cur], rcv[cur]), verdict)
      BY <2>3 DEF HandleReads
    <3>2. Append(clientMgr, cur) \in Seq(Conns)
      BY <2>1, AppendProperties DEF ServerTypeOK
    <3>3. PeerTypeOK'
      BY <1>2, <2>1, <2>2, <2>3, <3>1 DEF HandleReads, ReadsOn, Rejects, Answers, PeerTypeOK, peerVars
    <3>4. KernelTypeOK'
      BY <1>2, <2>1, <2>2, <2>3, <3>1 DEF HandleReads, ReadsOn, Rejects, Answers, KernelTypeOK
    <3>5. ServerTypeOK'
      BY <1>2, <2>1, <2>2, <2>3, <3>1, <3>2
         DEF HandleReads, ReadsOn, Rejects, Answers, Clients, ServerTypeOK, Batched, Steps
    <3> QED BY <3>3, <3>4, <3>5
  <2>4. CASE HandleUnderruns
    <3>1. [con[cur] EXCEPT !.length = -1] \in Buffers
      BY <2>1 DEF Buffers
    <3>2. Rejects \/ /\ con' = [con EXCEPT ![cur].length = -1]
                     /\ pc' = "wild"
                     /\ UNCHANGED <<sock, rcv, edges, reply, clientMgr>>
      BY <2>4 DEF HandleUnderruns
    <3>3. PeerTypeOK' /\ KernelTypeOK'
      BY <1>2, <2>1, <2>4, <3>2 DEF HandleUnderruns, Rejects, PeerTypeOK, KernelTypeOK, peerVars
    <3>4. ServerTypeOK'
      BY <1>2, <2>1, <2>4, <3>1, <3>2 DEF HandleUnderruns, Rejects, ServerTypeOK, Batched, Steps
    <3> QED BY <3>3, <3>4
  <2> QED BY <1>7, <2>3, <2>4
<1> QED BY <1>1, <1>3, <1>4, <1>6, <1>7 DEF Server, HttpRequestHandle

-----------------------------------------------------------------------------
(* What the invariant says of a connection that is open.                   *)

\* What was stored so far is in the buffer, unless the process is lost.
LEMMA GotIsSeq ==
    ASSUME HttpInv, Up, NEW c \in Opened
    PROVE  /\ c \in Conns /\ con[c] \in Buffers /\ con[c].length \in 0 .. MaxSize
           /\ SubSeq(con[c].data, 1, con[c].length) \in Seq(Char)
<1>1. c \in Conns /\ con[c] \in Buffers
  BY LiveIsBuffer DEF HttpInv, HttpSafe, HttpTypeOK, BufferInv, Opened
<1>2. con[c].length \in 0 .. MaxSize
  BY <1>1, LiveIsBuffer DEF HttpInv, HttpSafe, HttpTypeOK, BufferInv, Up
<1>3. \A i \in 1 .. con[c].length : con[c].data[i] \in Char
  BY <1>1, <1>2, SizeAssumption DEF Buffers
<1> QED BY <1>1, <1>2, <1>3, SubSeqProperties

-----------------------------------------------------------------------------
(* A connection is closed: the ends of HttpRequestHandle, and a hang-up.   *)

\* What these steps have in common.
Drops(c) ==
    /\ CloseCon(c)
    /\ pc \in {"dispatch", "handle", "reply"} /\ (Handles => cur = c)
    /\ pc' = "dispatch"
    /\ batch' = {e \in batch : e.src # c}
    /\ stalled \subseteq stalled'
    /\ UNCHANGED <<peerVars, fin, reset, backlog, listenEdge, clientMgr, acceptFailed>>

\* Closing a connection whose events are gone keeps the invariant: nothing
\* epoll holds, the batch or the handler refers to the deleted data.
LEMMA DropKeeps ==
    ASSUME HttpInv, NEW c \in Conns, c \in Opened, Drops(c)
    PROVE  HttpSafe'
<1> USE DEF HttpInv, HttpSafe, HttpTypeOK, KernelTypeOK, ServerTypeOK, PeerTypeOK
<1>1. /\ sock' = [sock EXCEPT ![c] = "closed"] /\ edges' = edges \ {c}
      /\ con' = [con EXCEPT ![c] = NoData] /\ rcv' = [rcv EXCEPT ![c] = <<>>]
      /\ Batched' = Batched \ {c} /\ pc' = "dispatch"
      /\ Opened' = Opened \ {c} /\ Live' = Live \ {c}
  BY DEF Drops, CloseCon, Batched, Opened, Live
<1>2. BacklogInv'
  BY <1>1 DEF BacklogInv, Drops, Opened
<1>3. BatchInv'
  BY <1>1 DEF BatchInv, Drops, Handles
<1>4. NoUseAfterFree'
  BY <1>1 DEF NoUseAfterFree
<1>5. NoLostWakeup'
  <2>1. Up
    BY DEF Up, Drops
  <2>2. \A d \in Opened \ {c} : rcv[d] # <<>> \/ d \in fin \cup reset => d \in edges \cup Batched
    BY <2>1 DEF NoLostWakeup, Drops, Handles
  <2>3. \A d \in Opened' : (rcv[d] # <<>> \/ d \in fin \cup reset)' => d \in (edges \cup Batched)'
    BY <1>1, <2>2 DEF Drops, Opened
  <2>4. backlog # <<>> => listenEdge \/ Listener \in Batched \/ acceptFailed
    BY <2>1 DEF NoLostWakeup, Drops
  <2>5. Listener # c
    BY ListenerAssumption
  <2> QED BY <1>1, <2>3, <2>4, <2>5 DEF NoLostWakeup, Drops
<1>6. RegisterInv'
  <2>1. \A d \in Registered : sock[d] = "closed" \/ d = c
    BY DEF RegisterInv, Drops, Handles
  <2>2. Registered' = Registered /\ Registered \subseteq Conns
    BY RegisteredIsConns DEF Registered, Drops
  <2> QED BY <1>1, <2>1, <2>2 DEF RegisterInv
<1>7. BufferInv'
  BY <1>1 DEF BufferInv, Drops, Live, Opened, peerVars
<1>8. ReceivedIntact'
  BY <1>1 DEF ReceivedIntact, Drops, Opened, peerVars
<1> QED BY <1>2, <1>3, <1>4, <1>5, <1>6, <1>7, <1>8

-----------------------------------------------------------------------------
(* EpollWait.                                                              *)

\* epoll_wait and the dispatch of its events keep the invariant: an edge goes
\* from the ready list to the batch, and from there to the handler.
LEMMA PollKeeps ==
    ASSUME HttpInv, EpollWait \/ EndBatch \/ Dispatch
    PROVE  HttpSafe'
<1> USE DEF HttpInv, HttpSafe, HttpTypeOK
<1>1. /\ UNCHANGED <<peerVars, sock, rcv, fin, reset, backlog, con, reply, clientMgr, history>>
      /\ pc \in {"wait", "dispatch"} /\ pc' \in {"wait", "dispatch", "accept", "handle"}
  BY DEF EpollWait, EndBatch, Dispatch, kernelVars
<1>2. BacklogInv'
  BY <1>1 DEF BacklogInv
<1>3. BufferInv' /\ ReceivedIntact'
  BY <1>1 DEF BufferInv, ReceivedIntact, Live, Opened, peerVars, history
<1>4. RegisterInv'
  BY <1>1 DEF RegisterInv, Registered
<1>5. Opened' = Opened /\ Live' = Live
  BY <1>1 DEF Opened, Live
<1>6. CASE EpollWait
  <2>1. batch' = ReadyEvents /\ edges' = {} /\ pc' = "dispatch" /\ listenEdge' = FALSE /\ batch = {}
    BY <1>6 DEF EpollWait, BatchInv
  <2>2. BatchInv'
    <3>1. \A e \in ReadyEvents : e.hup => e.src \in reset
      BY ReadyIsEvents, Zenon
    <3>2. \A e, f \in ReadyEvents : e.src = f.src => e = f
      BY ReadyIsEvents, Zenon
    <3> QED BY <1>1, <2>1, <3>1, <3>2 DEF BatchInv, Handles
  <2>3. edges \subseteq Batched' /\ Batched' \subseteq edges \cup {Listener}
    BY <2>1, ReadyIsEvents, Zenon DEF Batched
  <2>4. NoUseAfterFree'
    BY <1>5, <2>1, <2>3 DEF NoUseAfterFree
  <2>5. listenEdge /\ backlog # <<>> => Listener \in Batched'
    BY <2>1, ReadyIsEvents, Zenon DEF Batched
  <2>6. Batched = {} /\ pc = "wait" /\ Up
    BY <1>6, <2>1 DEF Batched, EpollWait, Up
  <2>7. NoLostWakeup'
    BY <1>1, <1>5, <2>3, <2>5, <2>6 DEF NoLostWakeup, history
  <2> QED BY <1>2, <1>3, <1>4, <2>2, <2>4, <2>7
<1>7. CASE EndBatch
  <2>1. UNCHANGED <<batch, edges, listenEdge>> /\ batch = {} /\ pc' = "wait" /\ Batched' = Batched
    BY <1>7 DEF EndBatch, kernelVars, Batched
  <2>2. BatchInv'
    BY <1>1, <2>1 DEF BatchInv, Handles
  <2>3. NoUseAfterFree'
    BY <1>5, <2>1 DEF NoUseAfterFree
  <2>4. NoLostWakeup'
    BY <1>1, <1>5, <1>7, <2>1 DEF NoLostWakeup, EndBatch, Up, history
  <2> QED BY <1>2, <1>3, <1>4, <2>2, <2>3, <2>4
<1>8. CASE Dispatch
  <2>1. UNCHANGED <<edges, listenEdge>> /\ pc = "dispatch"
    BY <1>8 DEF Dispatch, kernelVars
  <2>2. PICK e \in batch :
          /\ batch' = batch \ {e}
          /\ IF e.src = Listener THEN pc' = "accept" ELSE pc' = "handle" /\ cur' = e.src
    BY <1>8 DEF Dispatch
  <2>3. e.src \in Batched /\ e.src \in Conns \cup {Listener}
    BY DEF ServerTypeOK, Batched
  <2>4. Batched' = Batched \ {e.src}
    BY <2>2 DEF Batched, BatchInv
  <2>5. BatchInv'
    BY <1>1, <2>2, <2>3, <2>4 DEF BatchInv, Handles
  <2>6. NoUseAfterFree'
    BY <1>5, <2>1, <2>2, <2>3, <2>4 DEF NoUseAfterFree
  <2>7. NoLostWakeup'
    <3>1. \A c \in Opened : rcv[c] # <<>> \/ c \in fin \cup reset =>
              c \in edges \/ c \in Batched' \/ c = e.src
      BY <2>1, <2>4 DEF NoLostWakeup, Up
    <3>2. backlog # <<>> => listenEdge \/ Listener \in Batched' \/ e.src = Listener \/ acceptFailed
      BY <2>1, <2>4 DEF NoLostWakeup, Up
    <3>3. UNCHANGED <<rcv, fin, reset, backlog, acceptFailed>>
      BY <1>1 DEF history
    <3>4. \A c \in Opened' : (rcv[c] # <<>> \/ c \in fin \cup reset)' =>
              c \in (edges \cup Batched)' \/ (pc' = "handle" /\ cur' = c)
      BY <1>5, <2>1, <2>2, <3>1, <3>3, ListenerAssumption DEF Opened
    <3>5. (backlog # <<>> => listenEdge \/ pc = "accept" \/ Listener \in Batched \/ acceptFailed)'
      BY <2>1, <2>2, <3>2, <3>3
    <3> QED BY <3>4, <3>5 DEF NoLostWakeup
  <2> QED BY <1>2, <1>3, <1>4, <2>5, <2>6, <2>7
<1> QED BY <1>6, <1>7, <1>8

-----------------------------------------------------------------------------
(* The accept loop.                                                        *)

\* The accept loop keeps the invariant, whether it adds a connection, refuses
\* one or ends.
LEMMA AcceptKeeps ==
    ASSUME HttpInv, Accepting
    PROVE  HttpSafe'
<1> USE DEF HttpInv, HttpSafe, HttpTypeOK
<1>1. /\ UNCHANGED <<peerVars, fin, reset, listenEdge, batch, cur, reply, clientMgr, stalled>>
      /\ pc = "accept" /\ pc' \in {"accept", "dispatch"} /\ Up
      /\ Batched' = Batched /\ Registered' = Registered /\ Registered \subseteq Conns
  <2>1. /\ UNCHANGED <<peerVars, fin, reset, listenEdge, batch, cur, reply, clientMgr, stalled>>
        /\ pc = "accept" /\ pc' \in {"accept", "dispatch"}
    BY DEF Accepting, AcceptOne, AcceptRefuses, AcceptEnds, NextStep, kernelVars, history
  <2> QED BY <2>1, RegisteredIsConns DEF Batched, Registered, Up
<1>2. BatchInv'
  BY <1>1 DEF BatchInv, Handles
<1>3. CASE AcceptEnds
  <2>1. UNCHANGED <<sock, rcv, backlog, edges, con>> /\ Opened' = Opened /\ Live' = Live
        /\ pc' = "dispatch"
    BY <1>3 DEF AcceptEnds, kernelVars, Opened, Live
  <2>2. BacklogInv' /\ NoUseAfterFree' /\ RegisterInv'
    BY <1>1, <2>1 DEF BacklogInv, NoUseAfterFree, RegisterInv
  <2>3. BufferInv' /\ ReceivedIntact'
    BY <1>1, <2>1 DEF BufferInv, ReceivedIntact, peerVars
  <2>4. (backlog # <<>> => listenEdge \/ acceptFailed)'
    BY <1>3, <2>1 DEF AcceptEnds, kernelVars
  <2>5. NoLostWakeup'
    BY <1>1, <2>1, <2>4 DEF NoLostWakeup
  <2> QED BY <1>2, <2>2, <2>3, <2>5
<1>4. CASE AcceptOne \/ AcceptRefuses
  <2> DEFINE c == Head(backlog)
  <2>1. /\ c \in Conns /\ sock[c] = "queued" /\ backlog' = Tail(backlog) /\ pc' = "accept"
        /\ \A i \in DOMAIN backlog' : /\ i + 1 \in DOMAIN backlog
                                      /\ backlog'[i] = backlog[i + 1]
                                      /\ backlog'[i] # c
    BY <1>4, BacklogHead DEF AcceptOne, AcceptRefuses, NextStep
  <2>2. c \notin Opened /\ c \notin edges /\ c \notin Batched /\ Opened \subseteq Conns
    BY <2>1, ListenerAssumption DEF NoUseAfterFree, Opened
  <2>3. /\ sock' = [sock EXCEPT ![c] = "open"] \/ sock' = [sock EXCEPT ![c] = "closed"]
        /\ con' = con \/ con' = [con EXCEPT ![c] = FreshCon]
    BY <1>4 DEF AcceptOne, AcceptRefuses
  <2> HIDE DEF c
  <2>4. \A d \in Conns \ {c} : sock'[d] = sock[d] /\ con'[d] = con[d]
    BY <2>1, <2>3 DEF KernelTypeOK, ServerTypeOK
  <2>5. BacklogInv'
    <3>1. \A i \in DOMAIN backlog' : sock'[backlog'[i]] = "queued"
      <4>1. \A i \in DOMAIN backlog : backlog[i] \in Conns
        BY LenProperties, ElementOfSeq DEF KernelTypeOK
      <4> QED BY <2>1, <2>4, <4>1 DEF BacklogInv
    <3>2. \A i \in DOMAIN backlog' : i \in Int
      BY <2>1, BacklogHead, <1>4, LenProperties DEF AcceptOne, AcceptRefuses
    <3>3. ASSUME NEW i \in DOMAIN backlog', NEW j \in DOMAIN backlog', backlog'[i] = backlog'[j]
          PROVE  i = j
      <4>1. backlog[i + 1] = backlog[j + 1] /\ i + 1 \in DOMAIN backlog /\ j + 1 \in DOMAIN backlog
        BY <2>1, <3>3
      <4>2. i + 1 = j + 1
        BY <4>1 DEF BacklogInv
      <4> QED BY <3>2, <4>2
    <3> QED BY <3>1, <3>3 DEF BacklogInv
  <2>6. \A d \in Registered : d # c
    BY <1>1, <2>1 DEF RegisterInv
  <2>7. RegisterInv'
    BY <1>1, <2>1, <2>4, <2>6 DEF RegisterInv
  <2>8. backlog' # <<>> => pc' = "accept"
    BY <2>1
  <2>9. CASE AcceptRefuses
    <3>1. /\ sock' = [sock EXCEPT ![c] = "closed"] /\ rcv' = [rcv EXCEPT ![c] = <<>>]
          /\ UNCHANGED <<edges, acceptFailed>>
      BY <2>9 DEF AcceptRefuses, history, c
    <3>2. Opened' = Opened /\ Opened \cap Live \subseteq Live'
      BY <2>1, <2>2, <2>4, <3>1 DEF Opened, Live, KernelTypeOK
    <3>3. NoUseAfterFree'
      BY <1>1, <2>1, <3>1, <3>2 DEF NoUseAfterFree
    <3>4. NoLostWakeup'
      BY <1>1, <2>1, <2>2, <3>1, <3>2 DEF NoLostWakeup, PeerTypeOK
    <3>5. BufferInv'
      <4>1. \A d \in Conns \ {c} : rcv'[d] = rcv[d]
        BY <2>1, <3>1 DEF PeerTypeOK
      <4>2. sock'[c] = "closed" /\ pc # "wild"
        BY <1>1, <2>1, <3>1 DEF KernelTypeOK
      <4>3. FreshCon.length \in 0 .. MaxSize
        BY SizeAssumption DEF FreshCon
      <4>4. con'[c] = con[c] \/ con'[c] = FreshCon
        BY <2>1, <2>3 DEF ServerTypeOK
      <4>5. \A d \in Live' : con'[d].length \in 0 .. MaxSize
        BY <1>1, <2>4, <4>3, <4>4 DEF BufferInv, Live
      <4>6. \A d \in Conns : sock'[d] \in {"none", "queued"} => d # c /\ sock[d] = sock'[d]
        BY <2>4, <4>2
      <4>7. Opened' \subseteq Live'
        BY <3>2 DEF BufferInv
      <4> QED BY <1>1, <4>1, <4>5, <4>6, <4>7 DEF BufferInv, peerVars
    <3>6. ReceivedIntact'
      BY <1>1, <2>2, <2>4, <3>1, <3>2 DEF ReceivedIntact, PeerTypeOK, peerVars
    <3> QED BY <1>2, <2>5, <2>7, <3>3, <3>4, <3>5, <3>6
  <2>10. CASE AcceptOne
    <3>1. /\ sock' = [sock EXCEPT ![c] = "open"] /\ con' = [con EXCEPT ![c] = FreshCon]
          /\ edges' = (IF rcv[c] # <<>> \/ c \in fin \cup reset THEN edges \cup {c} ELSE edges)
          /\ UNCHANGED <<rcv, acceptFailed>>
      BY <2>10 DEF AcceptOne, AddToEpoll, history, c
    <3>2. con'[c] = FreshCon /\ FreshCon # NoData /\ sock'[c] = "open"
      BY <2>1, <3>1, FreshIsBuffer, BufferIsData DEF ServerTypeOK, KernelTypeOK
    <3>3. Opened' = Opened \cup {c} /\ Opened \cap Live \subseteq Live' /\ c \in Live'
      BY <2>1, <2>4, <3>2 DEF Opened, Live
    <3>4. NoUseAfterFree'
      BY <1>1, <2>1, <3>1, <3>3 DEF NoUseAfterFree
    <3>5. NoLostWakeup'
      BY <1>1, <2>1, <3>1, <3>3 DEF NoLostWakeup
    <3>6. FreshCon.length = 0
      BY DEF FreshCon
    <3>7. BufferInv'
      <4>1. con'[c].length \in 0 .. MaxSize /\ pc # "wild"
        BY <1>1, <3>2, <3>6, SizeAssumption
      <4>2. \A d \in Live' : con'[d].length \in 0 .. MaxSize
        BY <2>4, <4>1 DEF BufferInv, Live
      <4>3. \A d \in Conns : sock'[d] \in {"none", "queued"} => d # c /\ sock[d] = sock'[d]
        BY <2>4, <3>2
      <4>4. Opened' \subseteq Live'
        BY <3>3 DEF BufferInv
      <4> QED BY <1>1, <3>1, <4>2, <4>3, <4>4 DEF BufferInv, peerVars
    <3>8. ReceivedIntact'
      <4>1. request[c] = rcv[c] \o unsent[c] /\ rcv[c] \in Seq(Char) /\ unsent[c] \in Seq(Char)
        BY <2>1 DEF BufferInv, PeerTypeOK
      <4>2. SubSeq(FreshCon.data, 1, 0) = <<>>
        OBVIOUS
      <4>3. <<>> \o rcv[c] = rcv[c]
        BY <4>1, ConcatEmptySeq
      <4>4. request[c] = SubSeq(FreshCon.data, 1, FreshCon.length) \o rcv[c] \o unsent[c]
        BY <3>6, <4>1, <4>2, <4>3
      <4> QED BY <1>1, <2>4, <3>1, <3>2, <3>3, <4>4 DEF ReceivedIntact, peerVars, Opened
    <3> QED BY <1>2, <2>5, <2>7, <3>4, <3>5, <3>7, <3>8
  <2> QED BY <1>4, <2>9, <2>10
<1> QED BY <1>3, <1>4 DEF Accepting

-----------------------------------------------------------------------------
(* The peers.                                                              *)

\* A new connection in the accept queue keeps the invariant.
LEMMA ConnectKeeps ==
    ASSUME HttpInv, Up, NEW c \in Conns, Connect(c)
    PROVE  HttpSafe'
<1> USE DEF HttpInv, HttpSafe, HttpTypeOK
<1>1. /\ sock[c] = "none" /\ sock' = [sock EXCEPT ![c] = "queued"]
      /\ backlog' = Append(backlog, c) /\ listenEdge' = TRUE
      /\ UNCHANGED <<rcv, fin, reset, edges, pc, batch, cur, con, reply, clientMgr, stalled>>
  BY DEF Connect, loopVars
<1>2. /\ Opened' = Opened /\ c \notin Opened /\ Live' = Live
      /\ Batched' = Batched /\ Registered' = Registered /\ Registered \subseteq Conns
      /\ \A d \in Conns \ {c} : sock'[d] = sock[d]
  BY <1>1, RegisteredIsConns DEF Opened, Live, Batched, Registered, KernelTypeOK
<1>3. BacklogInv'
  <2>1. /\ Len(backlog) \in Nat /\ DOMAIN backlog = 1 .. Len(backlog)
        /\ \A i \in DOMAIN backlog : backlog[i] \in Conns
    BY LenProperties, ElementOfSeq DEF KernelTypeOK
  <2>2. /\ DOMAIN backlog' = 1 .. Len(backlog) + 1
        /\ \A i \in DOMAIN backlog : backlog'[i] = backlog[i]
        /\ backlog'[Len(backlog) + 1] = c
    BY <1>1, <2>1, AppendProperties, LenProperties DEF KernelTypeOK
  <2>3. \A i \in DOMAIN backlog : backlog[i] # c
    BY <1>1 DEF BacklogInv
  <2>4. sock'[c] = "queued"
    BY <1>1 DEF KernelTypeOK
  <2>5. \A i \in DOMAIN backlog' : i \in DOMAIN backlog \/ i = Len(backlog) + 1
    BY <2>1, <2>2
  <2>6. \A i \in DOMAIN backlog' : sock'[backlog'[i]] = "queued"
    BY <1>2, <2>1, <2>2, <2>3, <2>4, <2>5 DEF BacklogInv
  <2>7. \A i, j \in DOMAIN backlog' : backlog'[i] = backlog'[j] => i = j
    BY <2>2, <2>3, <2>5 DEF BacklogInv
  <2> QED BY <2>6, <2>7 DEF BacklogInv
<1>4. BatchInv' /\ NoUseAfterFree'
  BY <1>1, <1>2 DEF BatchInv, NoUseAfterFree, Handles
<1>5. NoLostWakeup'
  BY <1>1, <1>2 DEF NoLostWakeup, Up
<1>6. RegisterInv'
  BY <1>1, <1>2 DEF RegisterInv
<1>7. PICK r \in Requests : request' = [request EXCEPT ![c] = r] /\ unsent' = [unsent EXCEPT ![c] = r]
  BY DEF Connect
<1>8. /\ request'[c] = r /\ unsent'[c] = r
      /\ \A d \in Conns \ {c} : request'[d] = request[d] /\ unsent'[d] = unsent[d]
  BY <1>7 DEF PeerTypeOK
<1>9. BufferInv'
  <2>1. rcv[c] = <<>> /\ r \in Seq(Char)
    BY <1>1, RequestsAssumption DEF BufferInv
  <2>2. request'[c] = rcv'[c] \o unsent'[c]
    BY <1>1, <1>8, <2>1, ConcatEmptySeq
  <2> QED BY <1>1, <1>2, <1>8, <2>2 DEF BufferInv
<1>10. ReceivedIntact'
  BY <1>1, <1>2, <1>8 DEF ReceivedIntact, Opened
<1> QED BY <1>3, <1>4, <1>5, <1>6, <1>9, <1>10

\* So does a peer that sends, closes or resets.
LEMMA PeerActsKeeps ==
    ASSUME HttpInv, Up, NEW c \in Conns, PeerSends(c) \/ PeerCloses(c) \/ PeerResets(c)
    PROVE  HttpSafe'
<1> USE DEF HttpInv, HttpSafe, HttpTypeOK
<1>1. /\ sock[c] \in {"queued", "open"} /\ fin \subseteq fin' /\ reset \subseteq reset'
      /\ fin' \subseteq fin \cup {c} /\ reset' \subseteq reset \cup {c}
      /\ edges' = (IF sock[c] = "open" THEN edges \cup {c} ELSE edges)
      /\ UNCHANGED <<request, sock, backlog, listenEdge, pc, batch, cur, con, reply, clientMgr,
                     stalled, acceptFailed>>
  BY DEF PeerSends, PeerCloses, PeerResets, Edge, peerVars, loopVars, history
<1>2. Opened' = Opened /\ Live' = Live /\ Batched' = Batched /\ Registered' = Registered
  BY <1>1 DEF Opened, Live, Batched, Registered
<1>3. BacklogInv' /\ RegisterInv'
  BY <1>1, <1>2 DEF BacklogInv, RegisterInv
<1>4. BatchInv'
  BY <1>1, <1>2 DEF BatchInv, Handles
<1>5. NoUseAfterFree'
  <2>1. c \in Opened => c \in Live
    BY DEF BufferInv
  <2> QED BY <1>1, <1>2, <2>1 DEF NoUseAfterFree, Opened
<1>6. \A d \in Conns \ {c} : rcv'[d] = rcv[d] /\ unsent'[d] = unsent[d]
  BY DEF PeerSends, PeerCloses, PeerResets, PeerTypeOK, peerVars
<1>7. NoLostWakeup'
  BY <1>1, <1>2, <1>6 DEF NoLostWakeup, Opened
<1>8. rcv'[c] \o unsent'[c] = rcv[c] \o unsent[c]
  <2>1. CASE PeerSends(c)
    <3>1. PICK n \in 1 .. Len(unsent[c]) :
            /\ rcv' = [rcv EXCEPT ![c] = @ \o SubSeq(unsent[c], 1, n)]
            /\ unsent' = [unsent EXCEPT ![c] = SubSeq(@, n + 1, Len(@))]
      BY <2>1 DEF PeerSends
    <3> DEFINE a == SubSeq(unsent[c], 1, n)
               b == SubSeq(unsent[c], n + 1, Len(unsent[c]))
    <3>2. rcv[c] \in Seq(Char) /\ unsent[c] \in Seq(Char) /\ Len(unsent[c]) \in Nat
      BY LenProperties DEF PeerTypeOK
    <3>3. a \in Seq(Char) /\ b \in Seq(Char) /\ a \o b = unsent[c]
      BY <3>2, PiecesAreSeqs
    <3>4. rcv'[c] = rcv[c] \o a /\ unsent'[c] = b
      BY <3>1 DEF PeerTypeOK
    <3> HIDE DEF a, b
    <3>5. (rcv[c] \o a) \o b = rcv[c] \o (a \o b)
      BY <3>2, <3>3, Regroup, Zenon
    <3> QED BY <3>3, <3>4, <3>5
  <2>2. CASE PeerCloses(c) \/ PeerResets(c)
    BY <2>2 DEF PeerCloses, PeerResets, peerVars
  <2> QED BY <2>1, <2>2
<1>9. BufferInv'
  BY <1>1, <1>2, <1>6, <1>8 DEF BufferInv
<1>10. ReceivedIntact'
  <2>1. PeerTypeOK'
    BY PeerKeepsTypes DEF Peer
  <2> SUFFICES ASSUME NEW d \in Opened \ stalled
               PROVE  request[d] = SubSeq(con[d].data, 1, con[d].length) \o rcv'[d] \o unsent'[d]
    BY <1>1, <1>2 DEF ReceivedIntact
  <2>2. request[d] = SubSeq(con[d].data, 1, con[d].length) \o rcv[d] \o unsent[d]
    BY DEF ReceivedIntact
  <2>3. CASE d # c
    BY <1>6, <2>2, <2>3 DEF Opened
  <2>4. CASE d = c
    <3> DEFINE got == SubSeq(con[c].data, 1, con[c].length)
    <3>1. got \in Seq(Char)
      BY <2>4, GotIsSeq DEF Opened
    <3>2. /\ rcv[c] \in Seq(Char) /\ unsent[c] \in Seq(Char)
          /\ rcv'[c] \in Seq(Char) /\ unsent'[c] \in Seq(Char)
      BY <2>1 DEF PeerTypeOK
    <3> HIDE DEF got
    <3>3. (got \o rcv[c]) \o unsent[c] = got \o (rcv[c] \o unsent[c])
      BY <3>1, <3>2, Regroup, Zenon
    <3>4. (got \o rcv'[c]) \o unsent'[c] = got \o (rcv'[c] \o unsent'[c])
      BY <3>1, <3>2, Regroup, Zenon
    <3>5. request[c] = got \o rcv'[c] \o unsent'[c]
      BY <1>8, <2>2, <2>4, <3>3, <3>4 DEF got
    <3> QED BY <2>4, <3>5 DEF got
  <2> QED BY <2>3, <2>4
<1> QED BY <1>3, <1>4, <1>5, <1>7, <1>9, <1>10

-----------------------------------------------------------------------------
(* HttpRequestHandle.                                                      *)

\* A read that finds data appends it to what the buffer holds.
LEMMA ReadAppends ==
    ASSUME NEW k \in Buffers, k.length \in 0 .. MaxSize, Room(k.length) > 0,
           NEW in \in Seq(Char), in # <<>>,
           NEW n, n = MinOf(Room(k.length), Len(in))
    PROVE  /\ AfterRead(k, in).length = k.length + n
           /\ n \in 1 .. Len(in) /\ k.length + n \in 0 .. MaxSize
           /\ SubSeq(AfterRead(k, in).data, 1, k.length + n)
                = SubSeq(k.data, 1, k.length) \o SubSeq(in, 1, n)
<1> DEFINE h == k.length
           new == AfterRead(k, in).data
           a == SubSeq(k.data, 1, h)
           b == SubSeq(in, 1, n)
           s == SubSeq(new, 1, h + n)
<1>1. Len(in) \in Nat \ {0} /\ \A j \in 1 .. Len(in) : in[j] \in Char
  BY LenProperties, ElementOfSeq, EmptySeq
<1>2. k.data \in [1 .. MaxSize -> Char] /\ h \in 0 .. MaxSize /\ h < MaxSize
  BY SizeAssumption DEF Buffers, Room
<1>3. n \in 1 .. Len(in) /\ h + n \in 0 .. MaxSize /\ Returned(k, in) = n
  BY <1>1, <1>2, SizeAssumption DEF MinOf, Room, Returned
<1>4. AfterRead(k, in).length = h + n
  BY <1>3 DEF AfterRead
<1>5. new = [i \in 1 .. MaxSize |-> IF i \in h + 1 .. h + n THEN in[i - h] ELSE k.data[i]]
  BY <1>2, <1>3 DEF AfterRead, StoreAt
<1>6. AfterRead(k, in) \in Buffers
  BY ReadIsBuffer
<1>7. new \in [1 .. MaxSize -> Char]
  BY <1>6 DEF Buffers
<1> HIDE DEF new, h
<1>8. a \in Seq(Char) /\ Len(a) = h /\ \A i \in 1 .. h : a[i] = k.data[i]
  <2>1. \A i \in 1 .. h : k.data[i] \in Char
    BY <1>2, SizeAssumption
  <2> QED BY <1>2, <2>1, SubSeqProperties, SizeAssumption
<1>9. b \in Seq(Char) /\ Len(b) = n /\ \A i \in 1 .. n : b[i] = in[i]
  <2>1. \A i \in 1 .. n : in[i] \in Char
    BY <1>1, <1>3
  <2> QED BY <1>1, <1>3, <2>1, SubSeqProperties
<1>10. s \in Seq(Char) /\ Len(s) = h + n /\ \A i \in 1 .. h + n : s[i] = new[i]
  <2>1. \A i \in 1 .. h + n : new[i] \in Char
    BY <1>3, <1>7, SizeAssumption
  <2> QED BY <1>2, <1>3, <2>1, SubSeqProperties, SizeAssumption
<1> HIDE DEF a, b, s
<1>11. /\ a \o b \in Seq(Char) /\ Len(a \o b) = h + n
       /\ \A i \in 1 .. h + n : (a \o b)[i] = IF i <= h THEN a[i] ELSE b[i - h]
  <2>1. a \o b \in Seq(Char) /\ Len(a \o b) = Len(a) + Len(b)
    BY <1>8, <1>9, ConcatProperties
  <2>2. \A i \in 1 .. Len(a) + Len(b) : (a \o b)[i] = IF i <= Len(a) THEN a[i] ELSE b[i - Len(a)]
    BY <1>8, <1>9, ConcatProperties
  <2> QED BY <1>8, <1>9, <2>1, <2>2
<1>12. ASSUME NEW i \in 1 .. h + n PROVE s[i] = (a \o b)[i]
  <2>1. CASE i <= h
    <3>1. i \in 1 .. h /\ i \in 1 .. MaxSize /\ i \notin h + 1 .. h + n
      BY <1>2, <1>3, <2>1, SizeAssumption
    <3> QED BY <1>5, <1>8, <1>10, <1>11, <2>1, <3>1
  <2>2. CASE i > h
    <3>1. i - h \in 1 .. n /\ i \in 1 .. MaxSize /\ i \in h + 1 .. h + n /\ ~(i <= h)
      BY <1>2, <1>3, <2>2, SizeAssumption
    <3> QED BY <1>5, <1>9, <1>10, <1>11, <3>1
  <2>3. h \in Int /\ i \in Int
    BY <1>1, <1>2, <1>3
  <2>4. i <= h \/ i > h
    BY <2>3
  <2> QED BY <2>1, <2>2, <2>4
<1>13. s = a \o b
  BY <1>10, <1>11, <1>12, SeqEqual
<1> QED BY <1>3, <1>4, <1>13 DEF s, a, b, h, new

\* A step of the handler that goes on with the connection.
Stays ==
    /\ Reads
    /\ AfterRead(con[cur], rcv[cur]).length >= 0
    /\ con' = [con EXCEPT ![cur] = AfterRead(con[cur], rcv[cur])]
    /\ rcv' = [rcv EXCEPT ![cur] = Unread]
    /\ \/ pc' = "handle" /\ UNCHANGED <<reply, clientMgr>>
       \/ pc' = "reply" /\ \E v \in {"200", "400"} : reply' = v /\ clientMgr' = Clients(v)
    /\ UNCHANGED <<peerVars, sock, edges, fin, reset, backlog, listenEdge, batch, cur,
                   answer, acceptFailed>>

\* A read that goes on with the connection keeps the invariant: what it has
\* taken from the kernel is what it has added to the buffer.
LEMMA StayKeeps ==
    ASSUME HttpInv, Stays
    PROVE  HttpSafe'
<1> USE DEF HttpInv, HttpSafe, HttpTypeOK
<1> DEFINE new == AfterRead(con[cur], rcv[cur])
<1>1. /\ pc = "handle" /\ Up /\ Handles /\ cur \in Opened /\ cur \in Conns
      /\ pc' \in {"handle", "reply"} /\ Opened' = Opened /\ Opened \subseteq Conns
      /\ UNCHANGED <<peerVars, sock, edges, fin, reset, backlog, listenEdge, batch, cur, acceptFailed>>
  BY DEF Stays, Reads, Up, Handles, NoUseAfterFree, Opened
<1>2. con[cur] \in Buffers /\ con[cur].length \in 0 .. MaxSize
  BY <1>1, GotIsSeq
<1>3. rcv[cur] \in Seq(Char) /\ unsent[cur] \in Seq(Char) /\ Room(con[cur].length) > 0
  BY <1>1 DEF PeerTypeOK, Stays, Reads
<1>4. new \in Buffers /\ new # NoData
  BY <1>2, <1>3, ReadIsBuffer, BufferIsData
<1>5. con'[cur] = new /\ rcv'[cur] = Unread
      /\ \A d \in Conns \ {cur} : con'[d] = con[d] /\ rcv'[d] = rcv[d]
  BY <1>1 DEF Stays, ServerTypeOK, PeerTypeOK
<1>6. Live' = Live /\ Batched' = Batched
  BY <1>1, <1>4, <1>5, LiveIsBuffer, BufferIsData, <1>2 DEF Live, Batched
<1>7. new.length \in 0 .. MaxSize
  <2>1. CASE rcv[cur] = <<>>
    <3>1. new.length = con[cur].length + (-1) /\ new.length >= 0
      BY <2>1 DEF AfterRead, Returned, Stays
    <3> QED BY <1>2, <3>1, SizeAssumption
  <2>2. CASE rcv[cur] # <<>>
    BY <1>2, <1>3, <2>2, ReadAppends
  <2> QED BY <2>1, <2>2
<1> HIDE DEF new
<1>8. BacklogInv' /\ BatchInv'
  BY <1>1, <1>6 DEF BacklogInv, BatchInv, Handles
<1>9. NoUseAfterFree'
  BY <1>1, <1>6 DEF NoUseAfterFree
<1>10. NoLostWakeup'
  <2>1. \A d \in Opened : (rcv'[d] # <<>> \/ d \in fin \cup reset) =>
            d \in edges \cup Batched \/ cur = d
    BY <1>1, <1>5 DEF NoLostWakeup
  <2>2. backlog # <<>> => listenEdge \/ Listener \in Batched \/ acceptFailed
    BY <1>1 DEF NoLostWakeup
  <2> QED BY <1>1, <1>6, <2>1, <2>2 DEF NoLostWakeup
<1>11. RegisterInv'
  <2>1. \A c \in Registered : sock[c] = "closed"
    BY <1>1 DEF RegisterInv
  <2>2. cur \notin Registered
    BY <1>1, <2>1 DEF Opened
  <2>3. CASE pc' = "handle" /\ UNCHANGED <<reply, clientMgr>>
    BY <1>1, <2>1, <2>3 DEF RegisterInv, Registered
  <2>4. ASSUME pc' = "reply", NEW v \in {"200", "400"}, reply' = v, clientMgr' = Clients(v)
        PROVE  RegisterInv'
    <3>1. CASE v = "200"
      <4>1. Registered' = Registered \cup {cur}
        <5>1. clientMgr \in Seq(Conns) /\ clientMgr' = Append(clientMgr, cur)
          BY <2>4, <3>1 DEF Clients, ServerTypeOK
        <5>2. /\ Len(clientMgr) \in Nat /\ DOMAIN clientMgr = 1 .. Len(clientMgr)
              /\ DOMAIN clientMgr' = 1 .. Len(clientMgr) + 1
              /\ \A i \in 1 .. Len(clientMgr) : clientMgr'[i] = clientMgr[i]
              /\ clientMgr'[Len(clientMgr) + 1] = cur
          BY <1>1, <5>1, LenProperties, AppendProperties
        <5>3. DOMAIN clientMgr' = DOMAIN clientMgr \cup {Len(clientMgr) + 1}
          BY <5>2
        <5> QED BY <5>2, <5>3 DEF Registered
      <4> QED BY <1>1, <2>1, <2>4, <3>1, <4>1 DEF RegisterInv
    <3>2. CASE v = "400"
      <4>1. Registered' = Registered
        BY <2>4, <3>2 DEF Clients, Registered
      <4> QED BY <1>1, <2>1, <2>2, <2>4, <3>2, <4>1 DEF RegisterInv
    <3> QED BY <3>1, <3>2, <2>4
  <2> QED BY <2>3, <2>4 DEF Stays
<1>12. BufferInv'
  <2>1. sock[cur] = "open"
    BY <1>1 DEF Opened
  <2> QED BY <1>1, <1>5, <1>6, <1>7, <2>1 DEF BufferInv, peerVars, Live
<1>13. ReceivedIntact'
  <2>1. stalled' = (IF rcv[cur] = <<>> THEN stalled \cup {cur} ELSE stalled) /\ UNCHANGED <<request, unsent>>
    BY <1>1 DEF Stays, Reads, peerVars
  <2> SUFFICES ASSUME NEW d \in Opened, d \notin stalled'
               PROVE  request[d] = SubSeq(con'[d].data, 1, con'[d].length) \o rcv'[d] \o unsent[d]
    BY <1>1, <2>1 DEF ReceivedIntact
  <2>2. d \notin stalled /\ (d = cur => rcv[cur] # <<>>)
    BY <2>1
  <2>3. request[d] = SubSeq(con[d].data, 1, con[d].length) \o rcv[d] \o unsent[d]
    BY <2>2 DEF ReceivedIntact
  <2>4. CASE d # cur
    BY <1>1, <1>5, <2>3, <2>4
  <2>5. CASE d = cur
    <3> DEFINE n == MinOf(Room(con[cur].length), Len(rcv[cur]))
               got == SubSeq(con[cur].data, 1, con[cur].length)
               a == SubSeq(rcv[cur], 1, n)
               b == SubSeq(rcv[cur], n + 1, Len(rcv[cur]))
    <3>1. /\ new.length = con[cur].length + n /\ n \in 1 .. Len(rcv[cur])
          /\ SubSeq(new.data, 1, con[cur].length + n) = got \o a
      <4> DEFINE k == con[cur]
                 in == rcv[cur]
                 m == n
      <4>1. k \in Buffers /\ k.length \in 0 .. MaxSize /\ Room(k.length) > 0
            /\ in \in Seq(Char) /\ in # <<>> /\ m = MinOf(Room(k.length), Len(in))
        BY <1>2, <1>3, <2>2, <2>5
      <4> HIDE DEF k, in, m
      <4>2. /\ AfterRead(k, in).length = k.length + m /\ m \in 1 .. Len(in)
            /\ SubSeq(AfterRead(k, in).data, 1, k.length + m)
                 = SubSeq(k.data, 1, k.length) \o SubSeq(in, 1, m)
        BY <4>1, ReadAppends
      <4> QED BY <4>2 DEF k, in, m, new
    <3>2. n \in Nat /\ n <= Len(rcv[cur])
      BY <1>3, <3>1, LenProperties
    <3>3. got \in Seq(Char)
      BY <1>1, GotIsSeq
    <3>4. a \in Seq(Char) /\ b \in Seq(Char) /\ a \o b = rcv[cur]
      BY <1>3, <3>2, PiecesAreSeqs
    <3>5. rcv'[cur] = b
      BY <1>5 DEF Unread
    <3> HIDE DEF n, got, a, b
    <3>6. (got \o a) \o b = got \o (a \o b)
      BY <3>3, <3>4, Regroup, Zenon
    <3>7. SubSeq(new.data, 1, new.length) \o rcv'[cur] = got \o rcv[cur]
      BY <3>1, <3>4, <3>5, <3>6
    <3> QED BY <1>5, <2>3, <2>5, <3>7 DEF got
  <2> QED BY <2>4, <2>5
<1> QED BY <1>8, <1>9, <1>10, <1>11, <1>12, <1>13

\* Every end of the handler, and a hang-up, closes one open connection and
\* takes its event from the batch.
LEMMA HangupDrops ==
    ASSUME HttpInv, Hangup
    PROVE  \E c \in Conns : c \in Opened /\ c \in reset /\ Drops(c)
<1> USE DEF HttpInv, HttpSafe, HttpTypeOK
<1>1. PICK e \in batch : e.hup /\ batch' = batch \ {e} /\ CloseCon(e.src)
  BY DEF Hangup
<1>2. e.src \in Conns /\ e.src \in reset /\ e.src \in Batched
  BY <1>1 DEF BatchInv, KernelTypeOK, Batched
<1>3. e.src \in Opened
  BY <1>2, ListenerAssumption DEF NoUseAfterFree
<1>4. batch \ {e} = {f \in batch : f.src # e.src}
  BY DEF BatchInv
<1>5. Drops(e.src)
  BY <1>1, <1>4 DEF Hangup, Drops, Handles, history
<1> QED BY <1>2, <1>3, <1>5

\* The handler closes the connection it handles, which is open and has no
\* event in the batch.
LEMMA HandlerDrops ==
    ASSUME HttpInv, HandleEnds \/ Reply \/ ((HandleReads \/ HandleUnderruns) /\ Rejects)
    PROVE  cur \in Conns /\ cur \in Opened /\ Drops(cur)
<1> USE DEF HttpInv, HttpSafe, HttpTypeOK
<1>1. pc \in {"handle", "reply"} /\ CloseCon(cur) /\ pc' = "dispatch" /\ stalled \subseteq stalled'
      /\ UNCHANGED <<peerVars, fin, reset, backlog, listenEdge, batch, clientMgr, acceptFailed>>
  BY DEF HandleEnds, Reply, HandleReads, HandleUnderruns, Reads, Rejects, history
<1>2. cur \in Conns /\ cur \in Opened /\ cur \notin Batched
  BY <1>1 DEF NoUseAfterFree, BatchInv, Handles
<1>3. batch = {e \in batch : e.src # cur}
  BY <1>2 DEF Batched
<1> QED BY <1>1, <1>2, <1>3 DEF Drops, Handles

\* An iteration of the handler that neither stays nor closes the connection
\* goes on with memory before the buffer.
GoesWild ==
    /\ Reads /\ rcv[cur] = <<>>
    /\ con' = [con EXCEPT ![cur].length = -1]
    /\ pc' = "wild"
    /\ UNCHANGED <<peerVars, sock, rcv, edges, reply, clientMgr, fin, reset, backlog, listenEdge,
                   batch, cur, answer, acceptFailed>>

\* An iteration of the handler stays, closes the connection or is lost.
LEMMA IterationCases ==
    ASSUME HandleReads \/ HandleUnderruns
    PROVE  Stays \/ Rejects \/ GoesWild
<1>1. CASE HandleReads
  <2> DEFINE k == AfterRead(con[cur], rcv[cur])
  <2>1. PICK verdict :
          \/ verdict = "more" /\ ReadsOn(k)
          \/ verdict = "close" /\ Rejects
          \/ verdict \in {"200", "400"} /\ Answers(k, verdict)
    BY <1>1 DEF HandleReads
  <2>2. Reads /\ k.length >= 0 /\ UNCHANGED <<peerVars, fin, reset, backlog, listenEdge, batch, cur, answer,
                   acceptFailed>>
    BY <1>1 DEF HandleReads
  <2> HIDE DEF k
  <2>3. CASE ReadsOn(k)
    BY <2>2, <2>3 DEF Stays, ReadsOn, Reads, k
  <2>4. CASE verdict \in {"200", "400"} /\ Answers(k, verdict)
    BY <2>2, <2>4 DEF Stays, Answers, k
  <2> QED BY <2>1, <2>3, <2>4
<1>2. CASE HandleUnderruns
  BY <1>2 DEF HandleUnderruns, GoesWild
<1> QED BY <1>1, <1>2

\* A lost process keeps what is left of the invariant.
LEMMA LossKeeps ==
    ASSUME HttpInv, GoesWild \/ ReplyKills
    PROVE  HttpSafe'
<1> USE DEF HttpInv, HttpSafe, HttpTypeOK
<1>1. /\ UNCHANGED <<peerVars, sock, rcv, edges, clientMgr, fin, reset, backlog, batch, cur>>
      /\ pc \in {"handle", "reply"} /\ pc' \in {"wild", "killed"}
  BY DEF GoesWild, ReplyKills, Reads, kernelVars
<1>2. cur \in Conns /\ con[cur] \in Buffers /\ sock[cur] = "open"
  BY <1>1, LiveIsBuffer DEF NoUseAfterFree, BatchInv, Handles, Opened
<1>3. [con[cur] EXCEPT !.length = -1] \in Buffers
  BY <1>2 DEF Buffers
<1>4. con' = con \/ (con' = [con EXCEPT ![cur] = [con[cur] EXCEPT !.length = -1]] /\ pc' = "wild")
  BY DEF GoesWild, ReplyKills
<1>5. Opened' = Opened /\ Live' = Live /\ Batched' = Batched /\ Registered' = Registered
  BY <1>1, <1>2, <1>3, <1>4, BufferIsData DEF Opened, Live, Batched, Registered, ServerTypeOK
<1>6. BacklogInv' /\ BatchInv' /\ NoUseAfterFree' /\ NoLostWakeup'
  BY <1>1, <1>5 DEF BacklogInv, BatchInv, NoUseAfterFree, NoLostWakeup, Handles, Up
<1>7. RegisterInv'
  <2>1. pc = "handle" \/ pc' = "killed"
    BY DEF GoesWild, Reads, ReplyKills
  <2> QED BY <1>1, <1>5, <2>1 DEF RegisterInv
<1>8. BufferInv'
  BY <1>1, <1>4, <1>5 DEF BufferInv, peerVars
<1>9. ReceivedIntact'
  <2>1. (con' = con /\ stalled' = stalled) \/ (cur \in stalled' /\ stalled \subseteq stalled')
    BY DEF GoesWild, Reads, ReplyKills, history
  <2>2. \A d \in Conns \ {cur} : con'[d] = con[d]
    BY <1>2, <1>4 DEF ServerTypeOK
  <2> QED BY <1>1, <1>5, <2>1, <2>2 DEF ReceivedIntact, peerVars, Opened
<1> QED BY <1>6, <1>7, <1>8, <1>9

-----------------------------------------------------------------------------
(* The invariant.                                                          *)

\* It holds when Run starts.
LEMMA InitHttpInv == Init => HttpInv
<1> SUFFICES ASSUME Init PROVE HttpInv
  OBVIOUS
<1>1. <<>> \in Seq(Char) /\ <<>> \in Seq(Conns)
  BY EmptySeq
<1>2. HttpTypeOK
  BY <1>1 DEF Init, HttpTypeOK, PeerTypeOK, KernelTypeOK, ServerTypeOK, Phases, Steps, Batched
<1>3. Opened = {} /\ Live = {} /\ Batched = {} /\ Registered = {}
  BY DEF Init, Opened, Live, Batched, Registered
<1>4. BacklogInv /\ BatchInv /\ NoUseAfterFree /\ NoLostWakeup
  BY <1>3 DEF Init, BacklogInv, BatchInv, NoUseAfterFree, NoLostWakeup, Handles
<1>5. RegisterInv /\ BufferInv /\ ReceivedIntact
  BY <1>3 DEF Init, RegisterInv, BufferInv, ReceivedIntact
<1> QED BY <1>2, <1>4, <1>5 DEF HttpInv, HttpSafe

\* Every step of a peer or of the loop keeps it.
LEMMA NextHttpInv == HttpInv /\ [Next]_vars => HttpInv'
<1> SUFFICES ASSUME HttpInv, [Next]_vars PROVE HttpInv'
  OBVIOUS
<1>1. HttpTypeOK /\ HttpSafe
  BY DEF HttpInv
<1>2. HttpTypeOK' /\ HttpSafe' => HttpInv'
  BY DEF HttpInv
<1>3. ASSUME Up, NEW c \in Conns, Peer(c) PROVE HttpTypeOK' /\ HttpSafe'
  BY <1>1, <1>3, PeerKeepsTypes, ConnectKeeps, PeerActsKeeps DEF Peer
<1>4. CASE Server
  <2>1. HttpTypeOK'
    BY <1>4, ServerKeepsTypes
  <2>2. CASE EpollWait \/ EndBatch \/ Dispatch
    BY <1>2, <2>1, <2>2, PollKeeps
  <2>3. CASE Hangup
    BY <1>2, <2>1, <2>3, HangupDrops, DropKeeps
  <2>4. CASE Accepting
    BY <1>2, <2>1, <2>4, AcceptKeeps
  <2>5. CASE HandleEnds \/ Reply
    BY <1>2, <2>1, <2>5, HandlerDrops, DropKeeps
  <2>6. CASE HandleReads \/ HandleUnderruns
    BY <1>2, <2>1, <2>6, IterationCases, HandlerDrops, DropKeeps, StayKeeps, LossKeeps
  <2>7. CASE ReplyKills
    BY <1>2, <2>1, <2>7, LossKeeps
  <2> QED BY <1>4, <2>2, <2>3, <2>4, <2>5, <2>6, <2>7 DEF Server, HttpRequestHandle
<1>5. CASE UNCHANGED vars
  <2>1. UNCHANGED <<request, unsent, rcv, sock, fin, reset, edges, backlog, listenEdge, pc, batch, cur, con,
                    reply, clientMgr, stalled, acceptFailed>>
    BY <1>5 DEF vars, peerVars, kernelVars, loopVars, history
  <2>2. Opened' = Opened /\ Live' = Live /\ Batched' = Batched /\ Registered' = Registered
    BY <2>1 DEF Opened, Live, Batched, Registered
  <2>3. HttpTypeOK'
    BY <1>1, <2>1, <2>2 DEF HttpTypeOK, PeerTypeOK, KernelTypeOK, ServerTypeOK
  <2>4. (BacklogInv /\ BatchInv /\ NoUseAfterFree)'
    BY <1>1, <2>1, <2>2 DEF HttpSafe, BacklogInv, BatchInv, NoUseAfterFree, Handles
  <2>5. NoLostWakeup'
    BY <1>1, <2>1, <2>2 DEF HttpSafe, NoLostWakeup, Up
  <2>6. (RegisterInv /\ BufferInv /\ ReceivedIntact)'
    BY <1>1, <2>1, <2>2 DEF HttpSafe, RegisterInv, BufferInv, ReceivedIntact
  <2> QED BY <1>2, <2>3, <2>4, <2>5, <2>6 DEF HttpSafe
<1> QED BY <1>2, <1>3, <1>4, <1>5 DEF Next

\* The inductive invariant of the registration service.
THEOREM HttpInvariant == Spec => []HttpInv
  BY InitHttpInv, NextHttpInv, PTL DEF Spec

\* EpollWait and HttpRequestHandle never use connection data that was deleted,
\* whatever the peers do and in whatever order epoll reports them.
THEOREM NeverUsedAfterFree == Spec => []NoUseAfterFree
<1>1. HttpInv => NoUseAfterFree
  BY DEF HttpInv, HttpSafe
<1> QED BY <1>1, HttpInvariant, PTL

\* With edge triggering no connection that has something to read, an end or an
\* error is forgotten, and no connection that waits for accept is, unless
\* accept has failed.
THEOREM NoWakeupLost == Spec => []NoLostWakeup
<1>1. HttpInv => NoLostWakeup
  BY DEF HttpInv, HttpSafe
<1> QED BY <1>1, HttpInvariant, PTL

\* However a request is cut into pieces and the pieces into reads, con->data
\* holds what the peer sent, in order and without a gap, until a read of that
\* connection finds nothing.
THEOREM RequestsArriveIntact == Spec => []ReceivedIntact
<1>1. HttpInv => ReceivedIntact
  BY DEF HttpInv, HttpSafe
<1> QED BY <1>1, HttpInvariant, PTL

\* con->length counts characters of con->data in every connection, and the
\* parser is called with a range of the buffer, except after the one step that
\* subtracts from 0.
THEOREM LengthUntilLost == Spec => [](pc # "wild" => LengthInRange)
<1>1. HttpInv => (pc # "wild" => LengthInRange)
  BY DEF HttpInv, HttpSafe, BufferInv, LengthInRange
<1> QED BY <1>1, HttpInvariant, PTL

-----------------------------------------------------------------------------
(* The refinement.  The phase of a connection is its socket; a read that   *)
(* completes a good request registers it, the reply and every other close  *)
(* finish it, and the rest of the loop is invisible to the peers.          *)

\* A step that changes nothing the service promises anything about.
LEMMA InvisibleStep ==
    ASSUME UNCHANGED <<sock, answer, clientMgr, reset>>, Up' = Up
    PROVE  UNCHANGED Service!svars
  BY DEF Service!svars

\* Up is what the service sees of pc.
LEMMA UpSteps ==
    /\ \A c \in Conns : Peer(c) => Up' = Up
    /\ EpollWait \/ EndBatch \/ Dispatch \/ Accepting \/ Hangup => Up /\ Up'
    /\ \A c \in Conns : Drops(c) => Up /\ Up'
    /\ Stays => Up /\ Up'
  BY DEF Up, Peer, Connect, PeerSends, PeerCloses, PeerResets, loopVars, EpollWait, EndBatch, Dispatch,
         Accepting, AcceptOne, AcceptRefuses, AcceptEnds, NextStep, Hangup, Drops, Stays, Reads

\* What the peers do.
LEMMA PeerRefines ==
    ASSUME Up, NEW c \in Conns, Peer(c)
    PROVE  [Service!SNext]_(Service!svars)
<1>1. Up' = Up
  BY UpSteps
<1>2. CASE Connect(c)
  <2>1. Service!SConnect(c)
    BY <1>1, <1>2 DEF Connect, Service!SConnect, loopVars
  <2> QED BY <2>1 DEF Service!SNext
<1>3. CASE PeerSends(c) \/ PeerCloses(c)
  <2>1. UNCHANGED <<sock, answer, clientMgr, reset>>
    BY <1>3 DEF PeerSends, PeerCloses, loopVars, history
  <2> QED BY <1>1, <2>1, InvisibleStep
<1>4. CASE PeerResets(c)
  <2>1. Service!SReset(c)
    BY <1>1, <1>4 DEF PeerResets, Service!SReset, loopVars, history
  <2> QED BY <2>1 DEF Service!SNext
<1> QED BY <1>2, <1>3, <1>4 DEF Peer

\* The events and the accept loop.
LEMMA PollRefines ==
    ASSUME HttpInv, EpollWait \/ EndBatch \/ Dispatch \/ Accepting
    PROVE  [Service!SNext]_(Service!svars)
<1>1. Up /\ Up'
  BY UpSteps
<1>2. CASE EpollWait \/ EndBatch \/ Dispatch \/ AcceptEnds
  <2>1. UNCHANGED <<sock, answer, clientMgr, reset>>
    BY <1>2 DEF EpollWait, EndBatch, Dispatch, AcceptEnds, kernelVars, history
  <2> QED BY <1>1, <2>1, InvisibleStep
<1>3. CASE AcceptOne \/ AcceptRefuses
  <2> DEFINE c == Head(backlog)
  <2>1. c \in Conns /\ sock[c] = "queued"
    BY <1>3, BacklogHead DEF HttpInv, HttpSafe, HttpTypeOK, AcceptOne, AcceptRefuses
  <2>2. /\ sock' = [sock EXCEPT ![c] = "open"] \/ sock' = [sock EXCEPT ![c] = "closed"]
        /\ UNCHANGED <<answer, clientMgr, reset>>
    BY <1>3 DEF AcceptOne, AcceptRefuses, history
  <2> HIDE DEF c
  <2>3. Service!SAccept(c)
    BY <1>1, <2>1, <2>2 DEF Service!SAccept
  <2> QED BY <1>1, <2>1, <2>3 DEF Service!SNext
<1> QED BY <1>2, <1>3 DEF Accepting

\* A close without an answer: only a peer that is gone misses its 200.
LEMMA DropRefines ==
    ASSUME HttpInv, NEW c \in Conns, c \in Opened, Drops(c), UNCHANGED answer,
           c \in Registered => c \in reset
    PROVE  [Service!SNext]_(Service!svars)
<1>1. Up /\ Up'
  BY UpSteps
<1>2. Service!SFinish(c)
  BY <1>1 DEF Service!SFinish, Drops, CloseCon, Opened, Registered
<1> QED BY <1>1, <1>2 DEF Service!SNext

\* HttpRequestHandle.
LEMMA HandlerRefines ==
    ASSUME HttpInv, Hangup \/ HttpRequestHandle
    PROVE  [Service!SNext]_(Service!svars)
<1> USE DEF HttpInv, HttpSafe, HttpTypeOK
<1>1. CASE Hangup
  <2>1. UNCHANGED answer
    BY <1>1 DEF Hangup, history
  <2> QED BY <1>1, <2>1, HangupDrops, DropRefines
<1>2. CASE HandleEnds \/ ((HandleReads \/ HandleUnderruns) /\ Rejects)
  <2>1. UNCHANGED answer /\ pc = "handle"
    BY <1>2 DEF HandleEnds, HandleReads, HandleUnderruns, Reads, history
  <2>2. cur \in Conns /\ cur \in Opened /\ Drops(cur)
    BY <1>2, HandlerDrops
  <2>3. cur \notin Registered
    BY <2>1, <2>2 DEF RegisterInv, Opened
  <2> QED BY <2>1, <2>2, <2>3, DropRefines
<1>3. CASE Stays
  <2>1. /\ pc = "handle" /\ Up /\ Up' /\ UNCHANGED <<sock, answer, reset>>
        /\ cur \in Conns /\ cur \in Opened
    BY <1>3, UpSteps DEF Stays, Reads, NoUseAfterFree, BatchInv, Handles
  <2>2. CASE UNCHANGED clientMgr
    BY <2>1, <2>2, InvisibleStep
  <2>3. CASE clientMgr' = Append(clientMgr, cur)
    <3>1. /\ clientMgr \in Seq(Conns) /\ Len(clientMgr) \in Nat /\ DOMAIN clientMgr = 1 .. Len(clientMgr)
          /\ DOMAIN clientMgr' = 1 .. Len(clientMgr) + 1
          /\ \A i \in 1 .. Len(clientMgr) : clientMgr'[i] = clientMgr[i]
          /\ clientMgr'[Len(clientMgr) + 1] = cur
      BY <2>1, <2>3, LenProperties, AppendProperties DEF ServerTypeOK
    <3>2. DOMAIN clientMgr' = DOMAIN clientMgr \cup {Len(clientMgr) + 1}
      BY <3>1
    <3>3. Registered' = Registered \cup {cur}
      BY <3>1, <3>2 DEF Registered
    <3>4. cur \notin Registered
      BY <2>1 DEF RegisterInv, Opened
    <3>5. PICK c \in Conns : c = cur
      BY <2>1
    <3>6. Service!SRegister(c)
      BY <2>1, <3>3, <3>4, <3>5 DEF Service!SRegister, Registered, Opened
    <3> QED BY <2>1, <3>6 DEF Service!SNext
  <2> QED BY <1>3, <2>2, <2>3 DEF Stays, Clients
<1>4. CASE Reply
  <2>1. cur \in Conns /\ cur \in Opened /\ Drops(cur) /\ Up /\ Up'
    BY <1>4, HandlerDrops, UpSteps
  <2>2. answer' = (IF cur \in reset THEN answer ELSE [answer EXCEPT ![cur] = reply])
    BY <1>4 DEF Reply
  <2>3. reply = IF cur \in Registered THEN "200" ELSE "400"
    BY <1>4 DEF Reply, RegisterInv
  <2>4. CASE cur \in reset
    BY <2>1, <2>2, <2>4, DropRefines
  <2>5. CASE cur \notin reset
    <3>1. Service!SFinish(cur)
      BY <2>1, <2>2, <2>3, <2>5 DEF Service!SFinish, Drops, CloseCon, Opened, Registered
    <3> QED BY <2>1, <3>1 DEF Service!SNext
  <2> QED BY <2>4, <2>5
<1>5. CASE GoesWild \/ ReplyKills
  <2>1. /\ UNCHANGED <<sock, answer, clientMgr, reset>> /\ Up /\ Up' = FALSE
    BY <1>5 DEF GoesWild, Reads, ReplyKills, kernelVars, history, Up
  <2>2. Service!SDie
    BY <2>1 DEF Service!SDie
  <2> QED BY <2>1, <2>2 DEF Service!SNext
<1> QED BY <1>1, <1>2, <1>3, <1>4, <1>5, IterationCases DEF HttpRequestHandle

\* The service keeps its promises to every connection: it is closed once, gets
\* at most one answer, 200 exactly when it made a client, and a client whose
\* peer is still there is told so.
THEOREM ServiceRefined == Spec => ImplementsService
<1>1. Init => Service!SInit
  BY DEF Init, Service!SInit, Up
<1>2. HttpInv /\ [Next]_vars => [Service!SNext]_(Service!svars)
  <2> SUFFICES ASSUME HttpInv, [Next]_vars PROVE [Service!SNext]_(Service!svars)
    OBVIOUS
  <2>1. CASE UNCHANGED vars
    <3>1. UNCHANGED <<sock, answer, clientMgr, reset>> /\ Up' = Up
      BY <2>1 DEF vars, kernelVars, loopVars, history, Up
    <3> QED BY <3>1, InvisibleStep
  <2>2. CASE Server
    BY <2>2, PollRefines, HandlerRefines DEF Server
  <2>3. CASE Up /\ \E c \in Conns : Peer(c)
    BY <2>3, PeerRefines
  <2> QED BY <2>1, <2>2, <2>3 DEF Next
<1> QED BY <1>1, <1>2, HttpInvariant, PTL DEF Spec, ImplementsService, Service!SSpec
=============================================================================
