--------------------------- MODULE RuruSctpProofs ---------------------------
(***************************************************************************)
(* Proofs about RuruSctp, for any set of clients and any number of         *)
(* messages.                                                               *)
(***************************************************************************)
EXTENDS RuruSctp, SequenceTheorems, TLAPS

Ordered(p) == \A i, j \in 1 .. Len(p) : i < j => p[i] < p[j]
Elements(p) == {p[i] : i \in 1 .. Len(p)}

-----------------------------------------------------------------------------
(* What the operations do to wire \o cache.                                *)

\* Sending and popping from the front of the cache leaves wire \o cache as
\* it is (SendSctpCacheData).
LEMMA FrontKeepsPipeline ==
    ASSUME NEW w \in Seq(Nat), NEW q \in Seq(Nat), NEW n \in 0 .. Len(q)
    PROVE  /\ w \o SubSeq(q, 1, n) \in Seq(Nat)
           /\ SubSeq(q, n + 1, Len(q)) \in Seq(Nat)
           /\ (w \o SubSeq(q, 1, n)) \o SubSeq(q, n + 1, Len(q)) = w \o q
           /\ n = Len(q) => SubSeq(q, n + 1, Len(q)) = <<>>
<1>1. Len(q) \in Nat
  BY LenProperties
<1>2. SubSeq(q, 1, n) \in Seq(Nat)
  BY <1>1, ElementOfSeq, SubSeqProperties
<1>3. SubSeq(q, n + 1, Len(q)) \in Seq(Nat)
  BY <1>1, ElementOfSeq, SubSeqProperties
<1>4. SubSeq(q, 1, n) \o SubSeq(q, n + 1, Len(q)) = SubSeq(q, 1, Len(q))
  <2>1. 1 \in 1 .. Len(q) + 1 /\ n \in 1 - 1 .. Len(q) /\ Len(q) \in n .. Len(q)
    BY <1>1
  <2> QED BY <2>1, ConcatAdjacentSubSeq, Zenon
<1>5. SubSeq(q, 1, Len(q)) = q
  BY SubSeqFull
<1>6. (w \o SubSeq(q, 1, n)) \o SubSeq(q, n + 1, Len(q)) = w \o q
  <2>1. (w \o SubSeq(q, 1, n)) \o SubSeq(q, n + 1, Len(q))
          = w \o (SubSeq(q, 1, n) \o SubSeq(q, n + 1, Len(q)))
    <3> DEFINE a == SubSeq(q, 1, n)
               b == SubSeq(q, n + 1, Len(q))
    <3>1. a \in Seq(Nat) /\ b \in Seq(Nat)
      BY <1>2, <1>3
    <3> HIDE DEF a, b
    <3>2. (w \o a) \o b = w \o (a \o b)
      BY <3>1, ConcatAssociative
    <3> QED BY <3>2 DEF a, b
  <2> QED BY <2>1, <1>4, <1>5, Zenon
<1>7. w \o SubSeq(q, 1, n) \in Seq(Nat)
  BY <1>2, ConcatProperties
<1>8. n = Len(q) => SubSeq(q, n + 1, Len(q)) = <<>>
  BY <1>1, SubSeqEmpty
<1> QED BY <1>3, <1>6, <1>7, <1>8

\* Appending the next number keeps an ordered sequence of smaller numbers
\* ordered and adds that number to its elements.
LEMMA AppendNext ==
    ASSUME NEW p \in Seq(Nat), NEW n \in Nat, Ordered(p),
           \A m \in Elements(p) : m < n
    PROVE  /\ Append(p, n) \in Seq(Nat)
           /\ Ordered(Append(p, n))
           /\ Elements(Append(p, n)) = Elements(p) \cup {n}
<1>1. Len(p) \in Nat /\ Append(p, n) \in Seq(Nat) /\ Len(Append(p, n)) = Len(p) + 1
  BY LenProperties, AppendProperties
<1>2. /\ \A i \in 1 .. Len(p) : Append(p, n)[i] = p[i]
      /\ Append(p, n)[Len(p) + 1] = n
  BY AppendProperties
<1>3. \A i \in 1 .. Len(p) : p[i] \in Nat /\ p[i] < n
  BY ElementOfSeq DEF Elements
<1>4. Ordered(Append(p, n))
  <2> SUFFICES ASSUME NEW i \in 1 .. Len(p) + 1, NEW j \in 1 .. Len(p) + 1, i < j
               PROVE  Append(p, n)[i] < Append(p, n)[j]
    BY <1>1 DEF Ordered
  <2>1. i \in 1 .. Len(p)
    BY <1>1
  <2>2. CASE j \in 1 .. Len(p)
    BY <1>2, <2>1, <2>2 DEF Ordered
  <2>3. CASE j = Len(p) + 1
    BY <1>2, <1>3, <2>1, <2>3
  <2> QED BY <1>1, <2>2, <2>3
<1>5. Elements(Append(p, n)) = Elements(p) \cup {n}
  <2>1. ASSUME NEW x \in Elements(Append(p, n)) PROVE x \in Elements(p) \cup {n}
    BY <1>1, <1>2 DEF Elements
  <2>2. ASSUME NEW x \in Elements(p) PROVE x \in Elements(Append(p, n))
    BY <1>1, <1>2 DEF Elements
  <2>3. n \in Elements(Append(p, n))
    BY <1>1, <1>2 DEF Elements
  <2> QED BY <2>1, <2>2, <2>3
<1> QED BY <1>1, <1>4, <1>5

\* PushMsg2ClientCache appends to wire \o cache.
LEMMA PushAppends ==
    ASSUME NEW w \in Seq(Nat), NEW q \in Seq(Nat), NEW n \in Nat
    PROVE  /\ Append(q, n) \in Seq(Nat)
           /\ w \o Append(q, n) = Append(w \o q, n)
<1>1. Append(q, n) \in Seq(Nat) /\ Append(w \o q, n) \in Seq(Nat) /\ w \o q \in Seq(Nat)
  BY AppendProperties, ConcatProperties
<1>2. /\ Append(q, n) = q \o <<n>>
      /\ Append(w \o q, n) = (w \o q) \o <<n>>
      /\ <<n>> \in Seq(Nat)
  BY <1>1, AppendIsConcat
<1>3. (w \o q) \o <<n>> = w \o (q \o <<n>>)
  BY <1>2, ConcatAssociative
<1> QED BY <1>1, <1>2, <1>3

-----------------------------------------------------------------------------
(* Each operation keeps an object good.                                    *)

\* A good object stays good when only sock_, the association and
\* bHandShakeDone change and stay consistent.
LEMMA SockChangeKeeps ==
    ASSUME NEW s, GoodObject(s), NEW r, r \in SctpObject, SockConsistent(r),
           r.wire = s.wire, r.cache = s.cache, r.lost = s.lost, r.next = s.next,
           r.bHandShakeDone => r.sock # "closed" /\ r.lost = {},
           r.lost # {} => r.sock \in {"closed", "null"}
    PROVE  GoodObject(r)
<1>1. Pipeline(r) = Pipeline(s)
  BY DEF Pipeline
<1>2. OrderedObject(r)
  BY <1>1 DEF GoodObject, OrderedObject
<1>3. LossObject(r)
  BY <1>1 DEF GoodObject, LossObject, InPipeline
<1> QED BY <1>2, <1>3 DEF GoodObject

\* usrsctp_close with bHandShakeDone = false, after a failed usrsctp_sendv.
LEMMA CloseKeeps ==
    ASSUME NEW s, GoodObject(s), s.bHandShakeDone
    PROVE  /\ GoodObject(CloseSock(s))
           /\ ~CloseSock(s).bHandShakeDone /\ CloseSock(s).sock \in {"closed", "null"}
           /\ CloseSock(s).wire = s.wire /\ CloseSock(s).cache = s.cache
           /\ CloseSock(s).lost = s.lost /\ CloseSock(s).next = s.next
<1>1. /\ CloseSock(s) \in SctpObject
      /\ CloseSock(s).wire = s.wire /\ CloseSock(s).cache = s.cache
      /\ CloseSock(s).lost = s.lost /\ CloseSock(s).next = s.next
      /\ ~CloseSock(s).bHandShakeDone /\ CloseSock(s).sock \in {"closed", "null"}
  BY DEF GoodObject, SctpObject, CloseSock
<1>2. SockConsistent(CloseSock(s))
  BY DEF GoodObject, SctpObject, SockConsistent, CloseSock
<1> QED BY <1>1, <1>2, SockChangeKeeps

\* Sending from the front of the cache.
LEMMA SendFrontKeeps ==
    ASSUME NEW s, GoodObject(s), NEW n \in 0 .. Len(s.cache)
    PROVE  /\ GoodObject(SendFront(s, n))
           /\ SendFront(s, n).bHandShakeDone = s.bHandShakeDone
           /\ n = Len(s.cache) => SendFront(s, n).cache = <<>>
<1> DEFINE r == SendFront(s, n)
<1>1. s.wire \in Seq(Nat) /\ s.cache \in Seq(Nat)
  BY DEF GoodObject, SctpObject
<1>2. /\ r.wire = s.wire \o SubSeq(s.cache, 1, n)
      /\ r.cache = SubSeq(s.cache, n + 1, Len(s.cache))
      /\ r.sock = s.sock /\ r.assoc = s.assoc /\ r.bHandShakeDone = s.bHandShakeDone
      /\ r.lost = s.lost /\ r.next = s.next
  BY DEF GoodObject, SctpObject, SendFront
<1>3. r \in SctpObject
  BY <1>1, FrontKeepsPipeline DEF GoodObject, SctpObject, SendFront
<1>4. Pipeline(r) = Pipeline(s)
  BY <1>1, <1>2, FrontKeepsPipeline DEF Pipeline
<1>5. OrderedObject(r) /\ LossObject(r)
  BY <1>2, <1>4 DEF GoodObject, OrderedObject, LossObject, InPipeline
<1>6. SockConsistent(r)
  BY <1>2 DEF GoodObject, SockConsistent
<1>7. n = Len(s.cache) => r.cache = <<>>
  BY <1>1, <1>2, FrontKeepsPipeline
<1> QED BY <1>2, <1>3, <1>5, <1>6, <1>7 DEF GoodObject

\* SendSctpCacheData keeps an object good; when it returns true the cache is
\* empty and the handshake is still done.
LEMMA FlushKeeps ==
    ASSUME NEW s, GoodObject(s), NEW f \in FlushResults(s)
    PROVE  /\ GoodObject(f.s)
           /\ f.ret => f.s.bHandShakeDone /\ f.s.cache = <<>>
<1>0. Len(s.cache) \in Nat
  BY LenProperties DEF GoodObject, SctpObject
<1>1. CASE ~s.bHandShakeDone
  BY <1>1 DEF FlushResults, Flushed
<1>2. CASE s.bHandShakeDone
  <2>1. SendCounts(s) \subseteq 0 .. Len(s.cache)
    BY <1>0 DEF SendCounts
  <2>2. CASE f \in {Flushed(SendFront(s, n), TRUE) : n \in SendCounts(s) \cap {Len(s.cache)}}
    BY <1>2, <2>1, <2>2, SendFrontKeeps DEF Flushed
  <2>3. CASE f \in {Flushed(SendFront(s, n), FALSE) :
                        n \in IF CanSend(s) THEN SendCounts(s) \ {Len(s.cache)} ELSE {}}
    BY <2>1, <2>3, SendFrontKeeps DEF Flushed
  <2>4. CASE f \in {Flushed(CloseSock(SendFront(s, n)), FALSE) :
                        n \in SendCounts(s) \ {Len(s.cache)}}
    <3>1. PICK n \in 0 .. Len(s.cache) : f = Flushed(CloseSock(SendFront(s, n)), FALSE)
      BY <2>1, <2>4
    <3>2. GoodObject(SendFront(s, n)) /\ SendFront(s, n).bHandShakeDone
      BY <1>2, SendFrontKeeps
    <3> QED BY <3>1, <3>2, CloseKeeps DEF Flushed
  <2> QED BY <1>2, <2>2, <2>3, <2>4 DEF FlushResults
<1> QED BY <1>1, <1>2

\* A message that joins the end of wire \o cache under the next number keeps
\* the object good.
LEMMA JoinKeeps ==
    ASSUME NEW s, GoodObject(s), NEW r, r \in SctpObject,
           r.sock = s.sock, r.assoc = s.assoc, r.bHandShakeDone = s.bHandShakeDone,
           r.lost = s.lost, r.next = s.next + 1,
           Pipeline(r) = Append(Pipeline(s), s.next)
    PROVE  GoodObject(r)
<1>1. Pipeline(s) \in Seq(Nat)
  BY ConcatProperties DEF Pipeline, GoodObject, SctpObject
<1>2. s.next \in Nat \ {0}
  BY DEF GoodObject, SctpObject
<1>3. Ordered(Pipeline(s)) /\ Elements(Pipeline(s)) = InPipeline(s)
  BY DEF GoodObject, OrderedObject, InPipeline, Ordered, Elements
<1>4. 1 .. s.next - 1 = InPipeline(s) \cup s.lost
  BY DEF GoodObject, LossObject
<1>5. \A m \in Elements(Pipeline(s)) : m < s.next
  BY <1>2, <1>3, <1>4
<1>6. Ordered(Pipeline(r)) /\ Elements(Pipeline(r)) = Elements(Pipeline(s)) \cup {s.next}
  BY <1>1, <1>2, <1>3, <1>5, AppendNext
<1>7. 1 .. r.next - 1 = (1 .. s.next - 1) \cup {s.next}
  BY <1>2
<1>8. InPipeline(r) = InPipeline(s) \cup {s.next}
  BY <1>3, <1>6 DEF InPipeline, Elements
<1>9. LossObject(r)
  BY <1>4, <1>7, <1>8 DEF GoodObject, LossObject
<1>10. OrderedObject(r)
  BY <1>6 DEF OrderedObject, Ordered
<1>11. SockConsistent(r)
  BY DEF GoodObject, SockConsistent
<1> QED BY <1>9, <1>10, <1>11 DEF GoodObject

\* PushMsg2ClientCache.
LEMMA PushKeeps ==
    ASSUME NEW s, GoodObject(s)
    PROVE  GoodObject(PushMsg2ClientCache(s))
<1> DEFINE r == PushMsg2ClientCache(s)
<1>1. s.wire \in Seq(Nat) /\ s.cache \in Seq(Nat) /\ s.next \in Nat
  BY DEF GoodObject, SctpObject
<1>2. Append(s.cache, s.next) \in Seq(Nat) /\ s.next + 1 \in Nat \ {0}
  BY <1>1, PushAppends
<1>3. /\ r.sock = s.sock /\ r.assoc = s.assoc /\ r.bHandShakeDone = s.bHandShakeDone
      /\ r.lost = s.lost /\ r.next = s.next + 1
      /\ r.wire = s.wire /\ r.cache = Append(s.cache, s.next)
  BY DEF GoodObject, SctpObject, PushMsg2ClientCache
<1>4. r \in SctpObject
  BY <1>2 DEF GoodObject, SctpObject, PushMsg2ClientCache
<1>5. Pipeline(r) = Append(Pipeline(s), s.next)
  BY <1>1, <1>3, PushAppends DEF Pipeline
<1> HIDE DEF r
<1>6. GoodObject(r)
  BY <1>3, <1>4, <1>5, JoinKeeps
<1> QED BY <1>6 DEF r

\* usrsctp_sendv takes a message while the cache is empty.
LEMMA SendNowKeeps ==
    ASSUME NEW s, GoodObject(s), s.cache = <<>>
    PROVE  GoodObject(SendNow(s))
<1> DEFINE r == SendNow(s)
<1>1. s.wire \in Seq(Nat) /\ s.next \in Nat
  BY DEF GoodObject, SctpObject
<1>2. Append(s.wire, s.next) \in Seq(Nat) /\ s.next + 1 \in Nat \ {0}
  BY <1>1, AppendProperties
<1>3. /\ r.sock = s.sock /\ r.assoc = s.assoc /\ r.bHandShakeDone = s.bHandShakeDone
      /\ r.lost = s.lost /\ r.next = s.next + 1
      /\ r.wire = Append(s.wire, s.next) /\ r.cache = <<>>
  BY DEF GoodObject, SctpObject, SendNow
<1>4. r \in SctpObject
  BY <1>2 DEF GoodObject, SctpObject, SendNow
<1>5. Pipeline(r) = Append(Pipeline(s), s.next)
  BY <1>1, <1>2, <1>3, ConcatEmptySeq DEF Pipeline
<1> HIDE DEF r
<1>6. GoodObject(r)
  BY <1>3, <1>4, <1>5, JoinKeeps
<1> QED BY <1>6 DEF r

\* usrsctp_sendv fails for good: the message is lost with the socket, and it
\* is the first one, because none is lost before the socket is closed.
LEMMA DropNowKeeps ==
    ASSUME NEW s, GoodObject(s), s.bHandShakeDone
    PROVE  GoodObject(DropNow(s))
<1> DEFINE t == CloseSock(s)
           r == DropNow(s)
<1>1. /\ GoodObject(t) /\ ~t.bHandShakeDone /\ t.wire = s.wire /\ t.cache = s.cache
      /\ t.lost = {} /\ t.next = s.next /\ t.sock \in {"closed", "null"}
  BY CloseKeeps DEF GoodObject
<1> HIDE DEF t
<1>2. r = [t EXCEPT !.lost = @ \cup {s.next}, !.next = @ + 1]
  BY DEF DropNow, t
<1>3. t \in SctpObject /\ t.next \in Nat \ {0}
  BY <1>1 DEF GoodObject, SctpObject
<1>4. /\ r.sock = t.sock /\ r.assoc = t.assoc /\ ~r.bHandShakeDone
      /\ r.wire = t.wire /\ r.cache = t.cache
      /\ r.lost = {t.next} /\ r.next = t.next + 1
  BY <1>1, <1>2, <1>3 DEF SctpObject
<1>5. r \in SctpObject
  <2>1. t.lost \cup {s.next} \in SUBSET Nat /\ t.next + 1 \in Nat \ {0}
    BY <1>1, <1>3
  <2> QED BY <1>2, <1>3, <2>1 DEF SctpObject
<1> HIDE DEF r
<1>6. Pipeline(r) = Pipeline(t)
  BY <1>4 DEF Pipeline
<1>7. OrderedObject(r)
  BY <1>1, <1>6 DEF GoodObject, OrderedObject
<1>8. 1 .. t.next - 1 = InPipeline(t)
  BY <1>1 DEF GoodObject, LossObject
<1>9. 1 .. r.next - 1 = (1 .. t.next - 1) \cup {t.next}
  BY <1>3, <1>4
<1>10. InPipeline(r) = InPipeline(t)
  BY <1>6 DEF InPipeline
<1>11. LossObject(r)
  BY <1>4, <1>8, <1>9, <1>10 DEF LossObject
<1>12. SockConsistent(r)
  BY <1>1, <1>4 DEF GoodObject, SockConsistent
<1>13. GoodObject(r)
  BY <1>1, <1>4, <1>5, <1>7, <1>11, <1>12 DEF GoodObject
<1> QED BY <1>13 DEF r

\* SendUsrSctpData keeps an object good.
LEMMA SendKeeps ==
    ASSUME NEW s, GoodObject(s), NEW r \in SendResults(s)
    PROVE  GoodObject(r)
<1>1. PICK f \in FlushResults(s) :
          r \in IF ~f.ret THEN {PushMsg2ClientCache(f.s)}
                ELSE {DropNow(f.s)}
                     \cup (IF CanSend(f.s) THEN {SendNow(f.s), PushMsg2ClientCache(f.s)}
                           ELSE {})
  BY DEF SendResults
<1>2. GoodObject(f.s) /\ (f.ret => f.s.bHandShakeDone /\ f.s.cache = <<>>)
  BY FlushKeeps
<1>3. CASE r = PushMsg2ClientCache(f.s)
  BY <1>2, <1>3, PushKeeps
<1>4. CASE f.ret /\ r = DropNow(f.s)
  BY <1>2, <1>4, DropNowKeeps
<1>5. CASE f.ret /\ r = SendNow(f.s)
  BY <1>2, <1>5, SendNowKeeps
<1> QED BY <1>1, <1>3, <1>4, <1>5

\* The association goes away, by a packet or by usrsctp's timer.
LEMMA GoneKeeps ==
    ASSUME NEW s, GoodObject(s)
    PROVE  GoodObject(AssocGone(s)) /\ AssocGone(s).sock = s.sock /\ AssocGone(s).wire = s.wire
<1>1. /\ AssocGone(s) \in SctpObject /\ SockConsistent(AssocGone(s))
      /\ AssocGone(s).sock = s.sock /\ AssocGone(s).wire = s.wire
      /\ AssocGone(s).cache = s.cache /\ AssocGone(s).lost = s.lost
      /\ AssocGone(s).next = s.next /\ AssocGone(s).bHandShakeDone = s.bHandShakeDone
  BY DEF GoodObject, SctpObject, SockConsistent, AssocGone
<1> QED BY <1>1, SockChangeKeeps DEF GoodObject

\* usrsctp_accept: the accepted socket takes the place of the listening one.
LEMMA AcceptKeeps ==
    ASSUME NEW s, GoodObject(s)
    PROVE  GoodObject(Accept(s))
<1>1. CASE ~s.bHandShakeDone /\ s.sock = "listening" /\ s.assoc = "pending"
  <2>1. /\ Accept(s) \in SctpObject /\ SockConsistent(Accept(s))
        /\ Accept(s).sock = "accepted" /\ Accept(s).wire = s.wire
        /\ Accept(s).cache = s.cache /\ Accept(s).lost = s.lost
        /\ Accept(s).next = s.next
    BY <1>1 DEF GoodObject, SctpObject, SockConsistent, Accept
  <2> QED BY <1>1, <2>1, SockChangeKeeps DEF GoodObject
<1> QED BY <1>1 DEF Accept

\* RecvUsrSctpData keeps an object good.
LEMMA RecvKeeps ==
    ASSUME NEW s, GoodObject(s), NEW pkt \in Packets
    PROVE  GoodObject(RecvResult(s, pkt))
<1> DEFINE t == Accept(s)
<1>1. GoodObject(t)
  BY AcceptKeeps
<1> HIDE DEF t
<1>2. RecvResult(s, pkt) = ConnInput(t, pkt)
  BY DEF RecvResult, t
<1>3. CASE pkt \in {"cookie", "cookieData"} /\ t.sock = "listening" /\ t.assoc = "none"
  <2> DEFINE r == [t EXCEPT !.assoc = "pending"]
  <2>1. ConnInput(t, pkt) = r
    BY <1>3 DEF ConnInput
  <2>2. /\ r \in SctpObject /\ SockConsistent(r)
        /\ r.sock = t.sock /\ r.wire = t.wire /\ r.cache = t.cache /\ r.lost = t.lost
        /\ r.next = t.next /\ r.bHandShakeDone = t.bHandShakeDone
    BY <1>1, <1>3 DEF GoodObject, SctpObject, SockConsistent
  <2> HIDE DEF r
  <2>3. GoodObject(r)
    BY <1>1, <2>2, SockChangeKeeps DEF GoodObject
  <2> QED BY <1>1, <1>2, <1>3, <2>1, <2>3
<1>4. CASE pkt = "abort"
  <2>1. ConnInput(t, pkt) = AssocGone(t)
    BY <1>4 DEF ConnInput
  <2> QED BY <1>1, <1>2, <2>1, GoneKeeps
<1>5. CASE /\ ~(pkt \in {"cookie", "cookieData"} /\ t.sock = "listening" /\ t.assoc = "none")
           /\ pkt # "abort"
  <2>1. ConnInput(t, pkt) = t
    BY <1>5 DEF ConnInput
  <2> QED BY <1>1, <1>2, <2>1
<1> QED BY <1>3, <1>4, <1>5

\* The constructor makes a good object, and so does having none yet.
LEMMA NewIsGood ==
    ASSUME NEW sock, NEW done \in BOOLEAN,
           (sock \in {"unborn", "listening"} /\ ~done) \/ sock = "null"
    PROVE  GoodObject(NewSctp(sock, done))
<1> DEFINE r == NewSctp(sock, done)
<1>1. <<>> \in Seq(Nat) /\ Len(<<>>) = 0 /\ <<>> \o <<>> = <<>>
  BY EmptySeq, ConcatEmptySeq
<1>2. /\ r.sock = sock /\ r.bHandShakeDone = done /\ r.assoc = "none"
      /\ r.cache = <<>> /\ r.wire = <<>> /\ r.lost = {} /\ r.next = 1
  BY DEF NewSctp
<1>3. r \in SctpObject
  BY <1>1 DEF SctpObject, NewSctp
<1>4. Len(Pipeline(r)) = 0
  BY <1>1, <1>2 DEF Pipeline
<1>5. OrderedObject(r) /\ InPipeline(r) = {}
  BY <1>4 DEF OrderedObject, InPipeline
<1>6. LossObject(r)
  BY <1>2, <1>5 DEF LossObject
<1>7. SockConsistent(r)
  BY <1>2 DEF SockConsistent
<1> HIDE DEF r
<1>8. GoodObject(r)
  BY <1>2, <1>3, <1>5, <1>6, <1>7 DEF GoodObject
<1> QED BY <1>8 DEF r

-----------------------------------------------------------------------------
(* The specification.                                                      *)

\* Before any client registers, every object is good.
LEMMA InitSctpInv == SctpInit => SctpInv
<1> SUFFICES ASSUME SctpInit PROVE SctpInv
  OBVIOUS
<1>1. GoodObject(NewSctp("unborn", FALSE))
  BY NewIsGood
<1> QED BY <1>1 DEF SctpInit, SctpInv, GoodObject

\* A step that replaces one object by a good one keeps SctpInv.
LEMMA ReplaceKeeps ==
    ASSUME SctpInv, NEW c \in Clients, NEW r, GoodObject(r),
           sctp' = [sctp EXCEPT ![c] = r], wild' \in BOOLEAN
    PROVE  SctpInv'
<1>1. r \in SctpObject
  BY DEF GoodObject
<1>2. sctp' \in [Clients -> SctpObject]
  BY <1>1 DEF SctpInv
<1>3. ASSUME NEW d \in Clients PROVE GoodObject(sctp'[d])
  BY DEF SctpInv
<1> QED BY <1>2, <1>3 DEF SctpInv

\* Every operation, and the loss of an association, keeps SctpInv.
LEMMA NextSctpInv == SctpInv /\ [SctpNext]_sctpVars => SctpInv'
<1> SUFFICES ASSUME SctpInv, [SctpNext]_sctpVars PROVE SctpInv'
  OBVIOUS
<1>0. wild \in BOOLEAN /\ \A c \in Clients : GoodObject(sctp[c])
  BY DEF SctpInv
<1>1. ASSUME NEW c \in Clients, Construct(c) PROVE SctpInv'
  <2>1. PICK s \in Constructed : sctp' = [sctp EXCEPT ![c] = s]
    BY <1>1 DEF Construct
  <2>2. GoodObject(s)
    BY NewIsGood DEF Constructed
  <2> QED BY <1>0, <1>1, <2>1, <2>2, ReplaceKeeps DEF Construct
<1>2. ASSUME NEW c \in Clients, SendSctpCacheData(c) PROVE SctpInv'
  <2>1. PICK f \in FlushResults(sctp[c]) : sctp' = [sctp EXCEPT ![c] = f.s]
    BY <1>2 DEF SendSctpCacheData
  <2>2. GoodObject(f.s)
    BY <1>0, FlushKeeps
  <2> QED BY <1>0, <1>2, <2>1, <2>2, ReplaceKeeps DEF SendSctpCacheData
<1>3. ASSUME NEW c \in Clients, SendUsrSctpData(c) PROVE SctpInv'
  <2>1. PICK s \in SendResults(sctp[c]) : sctp' = [sctp EXCEPT ![c] = s]
    BY <1>3 DEF SendUsrSctpData
  <2>2. GoodObject(s)
    BY <1>0, SendKeeps
  <2> QED BY <1>0, <1>3, <2>1, <2>2, ReplaceKeeps DEF SendUsrSctpData
<1>4. ASSUME NEW c \in Clients, NEW pkt \in Packets, RecvUsrSctpData(c, pkt) PROVE SctpInv'
  <2>1. sctp' = [sctp EXCEPT ![c] = RecvResult(sctp[c], pkt)]
    BY <1>4 DEF RecvUsrSctpData
  <2>2. GoodObject(RecvResult(sctp[c], pkt))
    BY <1>0, RecvKeeps
  <2>3. wild' \in BOOLEAN
    BY <1>4 DEF RecvUsrSctpData
  <2> QED BY <2>1, <2>2, <2>3, ReplaceKeeps
<1>5. ASSUME NEW c \in Clients, AssocLost(c) PROVE SctpInv'
  <2>1. GoodObject(AssocGone(sctp[c])) /\ sctp' = [sctp EXCEPT ![c] = AssocGone(sctp[c])]
    BY <1>0, <1>5, GoneKeeps DEF AssocLost
  <2> QED BY <1>0, <1>5, <2>1, ReplaceKeeps DEF AssocLost
<1>6. CASE UNCHANGED sctpVars
  BY <1>6 DEF SctpInv, sctpVars
<1> QED BY <1>1, <1>2, <1>3, <1>4, <1>5, <1>6 DEF SctpNext

\* SctpInv holds in every state that calls of the three operations, in any
\* order and with any answer of usrsctp, can reach.
THEOREM SctpInvariant == SctpSpec => []SctpInv
  BY InitSctpInv, NextSctpInv, PTL DEF SctpSpec

\* The objects keep their type and sock_ stays consistent with the
\* association (RuruSctp.h, RecvUsrSctpData).
THEOREM SctpTypes == SctpSpec => []SctpTypeOK
<1>1. SctpInv => SctpTypeOK
  BY DEF SctpInv, SctpTypeOK, GoodObject
<1> QED BY <1>1, SctpInvariant, PTL

\* Messages reach usrsctp in the order of the SendUsrSctpData calls, for any
\* number of messages and clients.
THEOREM SctpSendsInOrder == SctpSpec => []SendOrder
<1>1. SctpInv => SendOrder
  BY DEF SctpInv, SendOrder, GoodObject
<1> QED BY <1>1, SctpInvariant, PTL

\* A client loses at most one message on its way to usrsctp, the one whose
\* usrsctp_sendv failed for good (SendUsrSctpData).
THEOREM SctpLosesOne == SctpSpec => []OneLossAtMost
<1>1. SctpInv => OneLossAtMost
  BY DEF SctpInv, OneLossAtMost, GoodObject
<1> QED BY <1>1, SctpInvariant, PTL

\* No message is sent on, and no usrsctp_close repeated for, a socket that
\* was closed (SendSctpCacheData, SendUsrSctpData).
THEOREM SctpNoUseAfterClose == SctpSpec => []NoUseAfterClose
<1>1. SctpInv => NoUseAfterClose
  BY DEF SctpInv, NoUseAfterClose, GoodObject
<1> QED BY <1>1, SctpInvariant, PTL
=============================================================================
