--------------------------- MODULE RuruDtlsProofs ---------------------------
(***************************************************************************)
(* Proofs about the server's side of RuruDtls, for any number of losses,   *)
(* timeouts, empty datagrams and clients.                                  *)
(***************************************************************************)
EXTENDS RuruDtls, TLAPS

\* The report of epoll and the recvfrom loop keep the socket drained.
THEOREM SocketIsDrained == DtlsSpec => []SocketDrained
<1>1. DtlsInit => SocketDrained
  BY DEF DtlsInit, SocketDrained
<1>2. SocketDrained /\ [DtlsNext]_vars => SocketDrained'
  <2> SUFFICES ASSUME SocketDrained, [DtlsNext]_vars PROVE SocketDrained'
    OBVIOUS
  <2> USE DEF SocketDrained
  <2>1. CASE Poll
    BY <2>1 DEF Poll
  <2>2. CASE RecvFrom
    <3>1. CASE sockq = <<>>
      <4>1. sockq' = <<>>
        BY <2>2, <3>1 DEF RecvFrom, Rest
      <4> QED BY <4>1
    <3>2. CASE sockq # <<>> /\ Head(sockq) = Empty
      BY <2>2, <3>2 DEF RecvFrom
    <3>3. CASE sockq # <<>> /\ Head(sockq) # Empty
      <4>1. HandleDtlsPacket(Head(sockq)) /\ pc = "recv"
        BY <2>2, <3>3 DEF RecvFrom
      <4>2. pc' \in {"recv", "read"}
        BY <4>1 DEF HandleDtlsPacket, EnterData, Handshake
      <4> QED BY <4>2
    <3> QED BY <3>1, <3>2, <3>3
  <2>3. CASE ReadTurn \/ ReadEnd
    BY <2>3 DEF ReadTurn, ReadEnd
  <2>4. CASE ClientStep \/ ClientTimeout \/ PeerCloses
    BY <2>4 DEF ClientStep, ClientStarts, ClientConnects, ClientReceives, ClientTimeout, PeerCloses
  <2>5. CASE EmptyArrives \/ Network
    BY <2>5 DEF EmptyArrives, Network, Arrive, Lose
  <2>6. CASE UNCHANGED vars
    BY <2>6 DEF vars
  <2> QED BY <2>1, <2>2, <2>3, <2>4, <2>5, <2>6 DEF DtlsNext, ServerStep
<1> QED BY <1>1, <1>2, PTL DEF DtlsSpec
=============================================================================
