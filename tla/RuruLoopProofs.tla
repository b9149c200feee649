--------------------------- MODULE RuruLoopProofs ---------------------------
(***************************************************************************)
(* Proofs about RuruLoop, for any clients, addresses, message lengths and  *)
(* sizes of the arena and the rings, and for any number of inputs.         *)
(***************************************************************************)
EXTENDS RuruLoop, RuruSctpProofs, WellFoundedInduction

(***************************************************************************)
(* The inductive invariant: the objects are good (RuruSctpProofs), the     *)
(* variables have their types, and what is to be shown.                    *)
(***************************************************************************)
LoopInv == SctpInv /\ LoopTypeOK /\ LiveDataIntact /\ BeatHasEvent

-----------------------------------------------------------------------------
(* Queues.                                                                 *)

\* que_.push(e): the old events are where they were, e is at the end.
LEMMA PushFacts ==
    ASSUME NEW S, NEW q \in Seq(S), NEW e \in S
    PROVE  /\ Append(q, e) \in Seq(S)
           /\ \A i \in DOMAIN q : i \in DOMAIN Append(q, e) /\ Append(q, e)[i] = q[i]
           /\ \E i \in DOMAIN Append(q, e) : Append(q, e)[i] = e
           /\ \A i \in DOMAIN Append(q, e) :
                 Append(q, e)[i] = e \/ (i \in DOMAIN q /\ Append(q, e)[i] = q[i])
<1>1. /\ Len(q) \in Nat /\ DOMAIN q = 1 .. Len(q) /\ Append(q, e) \in Seq(S)
      /\ DOMAIN Append(q, e) = 1 .. Len(q) + 1
  BY LenProperties, AppendProperties
<1>2. /\ \A i \in 1 .. Len(q) : Append(q, e)[i] = q[i]
      /\ Append(q, e)[Len(q) + 1] = e
  BY AppendProperties
<1>3. \A i \in DOMAIN q : i \in DOMAIN Append(q, e) /\ Append(q, e)[i] = q[i]
  BY <1>1, <1>2
<1>4. \E i \in DOMAIN Append(q, e) : Append(q, e)[i] = e
  BY <1>1, <1>2
<1>5. ASSUME NEW i \in DOMAIN Append(q, e)
      PROVE  Append(q, e)[i] = e \/ (i \in DOMAIN q /\ Append(q, e)[i] = q[i])
  <2>1. i = Len(q) + 1 \/ i \in 1 .. Len(q)
    BY <1>1
  <2> QED BY <1>1, <1>2, <2>1
<1> QED BY <1>1, <1>3, <1>4, <1>5

\* que_.pop(): the front is gone, the others have moved up.
LEMMA PopFacts ==
    ASSUME NEW S, NEW q \in Seq(S), q # <<>>
    PROVE  /\ Tail(q) \in Seq(S) /\ 1 \in DOMAIN q /\ Head(q) = q[1] /\ Head(q) \in S
           /\ \A i \in DOMAIN Tail(q) : \E j \in DOMAIN q : Tail(q)[i] = q[j]
           /\ \A i \in DOMAIN q : q[i] = Head(q) \/ \E j \in DOMAIN Tail(q) : Tail(q)[j] = q[i]
<1>1. /\ Len(q) \in Nat \ {0} /\ DOMAIN q = 1 .. Len(q) /\ Tail(q) \in Seq(S)
      /\ Len(Tail(q)) = Len(q) - 1 /\ Head(q) \in S
  BY LenProperties, EmptySeq, HeadTailProperties
<1>2. DOMAIN Tail(q) = 1 .. Len(q) - 1
  BY <1>1, LenProperties
<1>3. Head(q) = q[1]
  OBVIOUS
<1>4. \A i \in 1 .. Len(q) - 1 : Tail(q)[i] = q[i + 1]
  BY <1>1, HeadTailProperties
<1>5. \A i \in DOMAIN Tail(q) : \E j \in DOMAIN q : Tail(q)[i] = q[j]
  BY <1>1, <1>2, <1>4
<1>6. ASSUME NEW i \in DOMAIN q
      PROVE  q[i] = Head(q) \/ \E j \in DOMAIN Tail(q) : Tail(q)[j] = q[i]
  <2>1. CASE i = 1
    BY <1>3, <2>1
  <2>2. CASE i # 1
    <3>1. i - 1 \in 1 .. Len(q) - 1 /\ Tail(q)[i - 1] = q[i]
      BY <1>1, <1>4, <2>2
    <3> QED BY <1>2, <3>1
  <2> QED BY <2>1, <2>2
<1> QED BY <1>1, <1>3, <1>5, <1>6

\* FindClientByAddress answers null or the first client with that address.
LEMMA FindIsEarliest ==
    ASSUME MgrTypeOK, NEW a, FindClientByAddress(a) # NoClient
    PROVE  \E i \in DOMAIN clientMgr :
              /\ FindClientByAddress(a) = clientMgr[i] /\ address[clientMgr[i]] = a
              /\ \A j \in 1 .. i - 1 : address[clientMgr[j]] # a
<1> DEFINE hits == {i \in DOMAIN clientMgr : address[clientMgr[i]] = a}
<1>1. hits # {} /\ hits \subseteq Nat /\ DOMAIN clientMgr = 1 .. Len(clientMgr) /\ Len(clientMgr) \in Nat
  BY LenProperties DEF FindClientByAddress, MgrTypeOK
<1>2. \E i \in hits : \A j \in hits : i <= j
  <2>1. IsWellFoundedOn(OpToRel(<, Nat), Nat)
    BY NatLessThanWellFounded
  <2>2. PICK i \in hits : \A j \in hits : ~(<<j, i>> \in OpToRel(<, Nat))
    BY <1>1, <2>1, WFMin
  <2>3. \A j \in hits : ~(j < i)
    BY <1>1, <2>2 DEF OpToRel
  <2> QED BY <1>1, <2>3
<1> DEFINE first == CHOOSE i \in hits : \A j \in hits : i <= j
<1>3. first \in hits /\ \A j \in hits : first <= j
  BY <1>2
<1>4. FindClientByAddress(a) = clientMgr[first]
  BY <1>1 DEF FindClientByAddress
<1> HIDE DEF first
<1>5. ASSUME NEW j \in 1 .. first - 1 PROVE address[clientMgr[j]] # a
  <2>1. first \in 1 .. Len(clientMgr)
    BY <1>1, <1>3
  <2>2. j \in 1 .. Len(clientMgr) /\ ~(first <= j)
    BY <1>1, <2>1
  <2> QED BY <1>1, <1>3, <2>2
<1> QED BY <1>3, <1>4, <1>5

\* So it answers null or a client.
LEMMA FindIsClient ==
    ASSUME MgrTypeOK, NEW a, FindClientByAddress(a) # NoClient
    PROVE  FindClientByAddress(a) \in Clients
  BY FindIsEarliest, LenProperties, ElementOfSeq DEF MgrTypeOK

-----------------------------------------------------------------------------
(* LoopInv is inductive.                                                   *)

\* The constructors of the loop and of the application's evt establish it.
LEMMA InitLoopInv == LoopInit => LoopInv
<1> SUFFICES ASSUME LoopInit PROVE LoopInv
  OBVIOUS
<1>1. SctpInv /\ SctpTypeOK
  BY InitSctpInv DEF LoopInit, SctpInv, SctpTypeOK, GoodObject
<1>2. <<>> \in Seq(Clients) /\ <<>> \in Seq(EventRecord) /\ DOMAIN <<>> = {}
      /\ <<>> \in Seq([client : Clients, len : Nat, kept : BOOLEAN]) /\ Len(<<>>) = 0
  BY EmptySeq
<1>3. MgrTypeOK
  BY <1>2, LoopAssumption DEF LoopInit, MgrTypeOK
<1>4. QueTypeOK
  <2>1. evt \in EventRecord /\ evt.type = "None"
    BY DEF LoopInit, EventRecord, EventTypes, NoEvent, Event
  <2> QED BY <1>2, <2>1 DEF LoopInit, QueTypeOK
<1>5. ArenaTypeOK /\ InboxTypeOK
  BY <1>2, LoopAssumption DEF LoopInit, ArenaTypeOK, InboxTypeOK
<1>6. MainTypeOK /\ FlagTypeOK
  <2>1. MainTypeOK
    BY <1>2, LoopAssumption DEF LoopInit, MainTypeOK
  <2> QED BY <2>1 DEF LoopInit, FlagTypeOK
<1>7. BeatTypeOK
  BY LoopAssumption DEF LoopInit, BeatTypeOK
<1>8. LiveDataIntact
  BY <1>2 DEF LoopInit, LiveDataIntact, QueueIntact, Handling
<1>9. BeatHasEvent
  BY DEF LoopInit, BeatHasEvent
<1> QED BY <1>1, <1>3, <1>4, <1>5, <1>6, <1>7, <1>8, <1>9 DEF LoopInv, LoopTypeOK

\* The parts of LoopInv that a step leaves alone with their variables.
LEMMA SctpSame == SctpInv /\ UNCHANGED <<sctp, wild>> => SctpInv'
  BY DEF SctpInv

\* The other types follow the same way.
LEMMA TypesSame ==
    /\ MgrTypeOK /\ UNCHANGED mgrVars => MgrTypeOK'
    /\ QueTypeOK /\ UNCHANGED <<que, evt>> => QueTypeOK'
    /\ ArenaTypeOK /\ UNCHANGED <<mem, pos>> => ArenaTypeOK'
    /\ FlagTypeOK /\ UNCHANGED <<fresh, bHaveData>> => FlagTypeOK'
    /\ MainTypeOK /\ UNCHANGED <<clientMgr, pc, it, count>> => MainTypeOK'
    /\ BeatTypeOK /\ UNCHANGED <<ring, tpc>> => BeatTypeOK'
    /\ InboxTypeOK /\ UNCHANGED inbox => InboxTypeOK'
  BY DEF MgrTypeOK, QueTypeOK, ArenaTypeOK, FlagTypeOK, MainTypeOK, BeatTypeOK, InboxTypeOK,
         mgrVars

\* The pieces make up the whole.
LEMMA LoopInvParts ==
    ASSUME SctpInv', MgrTypeOK', QueTypeOK', ArenaTypeOK', FlagTypeOK', MainTypeOK', BeatTypeOK',
           InboxTypeOK', LiveDataIntact', BeatHasEvent'
    PROVE  LoopInv'
<1>1. SctpTypeOK'
  BY DEF SctpInv, SctpTypeOK, GoodObject
<1> QED BY <1>1 DEF LoopInv, LoopTypeOK

\* An event pushed onto que_ keeps the events intact that were there and, if
\* it carries no message, itself needs none of the arena.
LEMMA PushEvent ==
    ASSUME LoopInv, NEW e \in EventRecord, e.client # NoClient,
           que' = Append(que, e), UNCHANGED evt
    PROVE  /\ QueTypeOK'
           /\ UNCHANGED <<mem, pos>> /\ e.type # "RecvClientData" => QueueIntact'
           /\ \A i \in DOMAIN que : \E j \in DOMAIN que' : que'[j] = que[i]
           /\ \E j \in DOMAIN que' : que'[j] = e
<1>1. que \in Seq(EventRecord) /\ QueTypeOK /\ LiveDataIntact
  BY DEF LoopInv, LoopTypeOK, QueTypeOK
<1>2. QueTypeOK'
  BY <1>1, PushFacts DEF QueTypeOK
<1>3. ASSUME UNCHANGED <<mem, pos>>, e.type # "RecvClientData", NEW i \in DOMAIN que'
      PROVE  Intact(que'[i], mem', pos')
  <2>1. que'[i] = e \/ (i \in DOMAIN que /\ que'[i] = que[i])
    BY <1>1, <1>3, PushFacts
  <2> QED BY <1>1, <1>3, <2>1 DEF LiveDataIntact, QueueIntact, Intact
<1>4. /\ \A i \in DOMAIN que : \E j \in DOMAIN que' : que'[j] = que[i]
      /\ \E j \in DOMAIN que' : que'[j] = e
  BY <1>1, PushFacts
<1> QED BY <1>2, <1>3, <1>4 DEF QueueIntact

\* TakeEvent: the front of que_ becomes evt with the bytes it had.
LEMMA TakeEventKeeps == LoopInv /\ TakeEvent => LoopInv'
<1> SUFFICES ASSUME LoopInv, TakeEvent PROVE LoopInv'
  OBVIOUS
<1> USE DEF LoopInv, LoopTypeOK, TakeEvent, UpdateEvent
<1>1. que \in Seq(EventRecord) /\ que # <<>> /\ evt' = Head(que) /\ que' = Tail(que)
  BY DEF QueTypeOK
<1>2. QueTypeOK'
  BY <1>1, PopFacts DEF QueTypeOK
<1>3. MainTypeOK' /\ FlagTypeOK'
  <2>1. MainTypeOK'
    BY DEF MainTypeOK, mgrVars
  <2> QED BY <2>1 DEF FlagTypeOK
<1>4. LiveDataIntact'
  BY <1>1, PopFacts DEF LiveDataIntact, QueueIntact, Handling
<1>5. BeatHasEvent'
  <2> SUFFICES ASSUME NEW c \in Clients, ring[c] > 0
               PROVE  \/ tpc = c
                      \/ \E i \in DOMAIN que' : que'[i] = HeartBeat(c)
                      \/ evt' = HeartBeat(c)
    BY DEF BeatHasEvent, HeartBeat, Event
  <2>1. tpc = c \/ \E i \in DOMAIN que : que[i] = HeartBeat(c)
    BY DEF BeatHasEvent
  <2> QED BY <1>1, <2>1, PopFacts
<1> QED BY <1>2, <1>3, <1>4, <1>5, SctpSame, TypesSame, LoopInvParts DEF historyVars

\* StartPoll: no event is left when the arena is reset.
LEMMA StartPollKeeps == LoopInv /\ StartPoll => LoopInv'
<1> SUFFICES ASSUME LoopInv, StartPoll PROVE LoopInv'
  OBVIOUS
<1> USE DEF LoopInv, LoopTypeOK, StartPoll
<1>1. ArenaTypeOK'
  BY LoopAssumption DEF ArenaTypeOK
<1>2. MainTypeOK'
  <2>1. count' \in 0 .. Roll - 1
    BY LoopAssumption DEF MainTypeOK, NextCount
  <2>2. Len(clientMgr) \in Nat /\ (clientMgr # <<>> => Len(clientMgr) # 0)
    BY LenProperties, EmptySeq DEF MgrTypeOK
  <2> QED BY <2>1, <2>2 DEF MainTypeOK, mgrVars
<1>3. FlagTypeOK'
  BY DEF FlagTypeOK
<1>4. LiveDataIntact'
  <2>1. DOMAIN que' = {} /\ pc' # "switch"
    OBVIOUS
  <2> QED BY <2>1 DEF LiveDataIntact, QueueIntact, Handling
<1>5. BeatHasEvent'
  BY DEF BeatHasEvent
<1> QED BY <1>1, <1>2, <1>3, <1>4, <1>5, SctpSame, TypesSame, LoopInvParts DEF historyVars

\* What SendCacheData and HeartBeat events are.
LEMMA PlainEvents ==
    ASSUME NEW c \in Clients
    PROVE  /\ SendCacheData(c) \in EventRecord /\ HeartBeat(c) \in EventRecord
           /\ SendCacheData(c).client # NoClient /\ HeartBeat(c).client # NoClient
           /\ SendCacheData(c).type = "SendCacheData" /\ HeartBeat(c).type = "HeartBeat"
           /\ HeartBeat(c).client = c
  BY LoopAssumption DEF SendCacheData, HeartBeat, Event, EventRecord, EventTypes

\* ScanClientCacheData pushes events without a message.
LEMMA ScanClientKeeps == LoopInv /\ ScanClient => LoopInv'
<1> SUFFICES ASSUME LoopInv, ScanClient PROVE LoopInv'
  OBVIOUS
<1> DEFINE c == clientMgr[it]
<1>1. /\ it \in 1 .. Len(clientMgr) /\ Len(clientMgr) \in Nat /\ pc = "scan"
      /\ pc' \in {"scan", "poll"} /\ UNCHANGED <<evt, ring, tpc, mem, pos>>
  BY LenProperties DEF LoopInv, LoopTypeOK, MainTypeOK, MgrTypeOK, ScanClient
<1>2. c \in Clients
  BY <1>1, ElementOfSeq DEF LoopInv, LoopTypeOK, MgrTypeOK
<1>3. que' = que \/ que' = Append(que, SendCacheData(c))
  BY DEF ScanClient
<1> HIDE DEF c
<1>4. QueTypeOK' /\ QueueIntact'
      /\ \A i \in DOMAIN que : \E j \in DOMAIN que' : que'[j] = que[i]
  <2>1. CASE que' = que
    BY <1>1, <2>1 DEF LoopInv, LoopTypeOK, QueTypeOK, LiveDataIntact, QueueIntact
  <2>2. CASE que' = Append(que, SendCacheData(c))
    BY <1>1, <1>2, <2>2, PlainEvents, PushEvent
  <2> QED BY <1>3, <2>1, <2>2
<1>5. MainTypeOK'
  BY <1>1 DEF LoopInv, LoopTypeOK, MainTypeOK, ScanClient, mgrVars
<1>6. FlagTypeOK'
  BY DEF LoopInv, LoopTypeOK, FlagTypeOK, ScanClient
<1>7. LiveDataIntact'
  BY <1>1, <1>4 DEF LiveDataIntact, Handling
<1>8. BeatHasEvent'
  <2> SUFFICES ASSUME NEW d \in Clients, ring[d] > 0
               PROVE  tpc = d \/ \E i \in DOMAIN que' : que'[i] = HeartBeat(d)
    BY <1>1 DEF BeatHasEvent, HeartBeat, Event
  <2> QED BY <1>1, <1>4 DEF LoopInv, BeatHasEvent
<1> QED BY <1>1, <1>4, <1>5, <1>6, <1>7, <1>8, SctpSame, TypesSame, LoopInvParts
        DEF LoopInv, LoopTypeOK, ScanClient, historyVars

\* Loop returns: the event that was handled before is no longer counted as
\* one that was taken off que_.
LEMMA LoopReturnsKeeps == LoopInv /\ LoopReturns => LoopInv'
<1> SUFFICES ASSUME LoopInv, LoopReturns PROVE LoopInv'
  OBVIOUS
<1> USE DEF LoopInv, LoopTypeOK, LoopReturns, queVars
<1>1. QueTypeOK'
  <2>1. NoEvent \in EventRecord /\ NoEvent.type = "None"
    BY DEF NoEvent, Event, EventRecord, EventTypes
  <2> QED BY <2>1 DEF QueTypeOK
<1>2. MainTypeOK'
  BY DEF MainTypeOK, mgrVars
<1>3. FlagTypeOK'
  BY DEF FlagTypeOK
<1>4. LiveDataIntact'
  BY DEF LiveDataIntact, QueueIntact, Handling
<1>5. BeatHasEvent'
  BY DEF BeatHasEvent
<1> QED BY <1>1, <1>2, <1>3, <1>4, <1>5, SctpSame, TypesSame, LoopInvParts DEF historyVars

\* A handler of the application that leaves que_, the arena and the rings
\* alone.
LEMMA HandlerKeeps ==
    ASSUME LoopInv, pc = "switch", evt.type # "HeartBeat", pc' = "call", SctpInv',
           UNCHANGED <<mgrVars, queVars, evt, fresh, it, bHaveData, count, ring, tpc, inbox>>
    PROVE  LoopInv'
<1> USE DEF LoopInv, LoopTypeOK, queVars
<1>1. MainTypeOK'
  BY DEF MainTypeOK, mgrVars
<1>2. LiveDataIntact'
  BY DEF LiveDataIntact, QueueIntact, Handling
<1>3. BeatHasEvent'
  BY PlainEvents DEF BeatHasEvent
<1> QED BY <1>1, <1>2, <1>3, TypesSame, LoopInvParts

\* EVT_RecvClientData.
LEMMA EchoKeeps == LoopInv /\ Echo2Client => LoopInv'
<1> SUFFICES ASSUME LoopInv, Echo2Client PROVE LoopInv'
  OBVIOUS
<1>1. evt.client \in Clients
  BY DEF LoopInv, LoopTypeOK, QueTypeOK, EventRecord, Echo2Client
<1>2. PICK s \in SendResults(sctp[evt.client]) : sctp' = [sctp EXCEPT ![evt.client] = s]
  BY DEF Echo2Client
<1>3. GoodObject(s) /\ wild' \in BOOLEAN
  BY <1>1, SendKeeps DEF LoopInv, SctpInv, Echo2Client
<1>4. SctpInv'
  BY <1>1, <1>2, <1>3, ReplaceKeeps DEF LoopInv
<1> QED BY <1>4, HandlerKeeps DEF Echo2Client

\* EVT_SendCacheData.
LEMMA CacheEventKeeps == LoopInv /\ SendClientCacheData => LoopInv'
<1> SUFFICES ASSUME LoopInv, SendClientCacheData PROVE LoopInv'
  OBVIOUS
<1>1. evt.client \in Clients
  BY DEF LoopInv, LoopTypeOK, QueTypeOK, EventRecord, SendClientCacheData
<1>2. PICK f \in FlushResults(sctp[evt.client]) : sctp' = [sctp EXCEPT ![evt.client] = f.s]
  BY DEF SendClientCacheData
<1>3. GoodObject(f.s) /\ wild' \in BOOLEAN
  BY <1>1, FlushKeeps DEF LoopInv, SctpInv, SendClientCacheData
<1>4. SctpInv'
  BY <1>1, <1>2, <1>3, ReplaceKeeps DEF LoopInv
<1> QED BY <1>4, HandlerKeeps DEF SendClientCacheData, historyVars

\* An event without a type is ignored.
LEMMA IgnoreKeeps == LoopInv /\ IgnoreEvent => LoopInv'
<1> SUFFICES ASSUME LoopInv, IgnoreEvent PROVE LoopInv'
  OBVIOUS
<1>1. SctpInv'
  BY SctpSame DEF IgnoreEvent, LoopInv
<1> QED BY <1>1, HandlerKeeps DEF IgnoreEvent, historyVars

\* EVT_HeartBeat: the ring is emptied, so its beats need no event any more.
LEMMA HeartBeatKeeps == LoopInv /\ SendHeartBeat => LoopInv'
<1> SUFFICES ASSUME LoopInv, SendHeartBeat PROVE LoopInv'
  OBVIOUS
<1> USE DEF LoopInv, LoopTypeOK, SendHeartBeat, queVars
<1>1. MainTypeOK'
  BY DEF MainTypeOK, mgrVars
<1>2. BeatTypeOK'
  <2>1. 0 \in 0 .. RingCap - 1
    BY LoopAssumption
  <2> QED BY <2>1 DEF BeatTypeOK
<1>3. LiveDataIntact'
  BY DEF LiveDataIntact, QueueIntact, Handling
<1>4. BeatHasEvent'
  <2> SUFFICES ASSUME NEW c \in Clients, ring'[c] > 0
               PROVE  tpc = c \/ \E i \in DOMAIN que : que[i] = HeartBeat(c)
    BY DEF BeatHasEvent, HeartBeat, Event
  <2>1. c # evt.client /\ ring[c] > 0
    BY DEF BeatTypeOK
  <2> QED BY <2>1, PlainEvents DEF BeatHasEvent
<1> QED BY <1>1, <1>2, <1>3, <1>4, SctpSame, TypesSame, LoopInvParts DEF historyVars

\* An association is lost.
LEMMA LosesAssocKeeps ==
    ASSUME LoopInv, NEW c \in Clients, TimerLosesAssoc(c)
    PROVE  LoopInv'
<1> USE DEF LoopInv, LoopTypeOK, TimerLosesAssoc, queVars, appVars, historyVars
<1>1. /\ GoodObject(AssocGone(sctp[c])) /\ sctp' = [sctp EXCEPT ![c] = AssocGone(sctp[c])]
      /\ wild' \in BOOLEAN
  BY GoneKeeps DEF AssocLost, SctpInv
<1>2. SctpInv'
  BY <1>1, ReplaceKeeps
<1>3. LiveDataIntact'
  BY DEF LiveDataIntact, QueueIntact, Handling
<1>4. BeatHasEvent'
  BY DEF BeatHasEvent
<1>5. MainTypeOK'
  BY DEF MainTypeOK, mgrVars
<1> QED BY <1>2, <1>3, <1>4, <1>5, TypesSame, LoopInvParts

\* RingBufWrite keeps a ring within its capacity and touches no other ring.
LEMMA RingWriteFacts ==
    ASSUME BeatTypeOK, NEW c \in Clients, RingBufWrite(c)
    PROVE  /\ ring' \in [Clients -> 0 .. RingCap - 1]
           /\ \A d \in Clients : d # c => ring'[d] = ring[d]
  BY LoopAssumption DEF BeatTypeOK, RingBufWrite

\* The timer thread writes a beat and remembers to queue its event.
LEMMA WritesBeatKeeps ==
    ASSUME LoopInv, NEW c \in Clients, TimerWritesBeat(c)
    PROVE  LoopInv'
<1> USE DEF LoopInv, LoopTypeOK, TimerWritesBeat, queVars, appVars, historyVars
<1>1. BeatTypeOK'
  BY RingWriteFacts DEF BeatTypeOK
<1>2. LiveDataIntact'
  BY DEF LiveDataIntact, QueueIntact, Handling
<1>3. BeatHasEvent'
  <2> SUFFICES ASSUME NEW d \in Clients, ring'[d] > 0, d # c
               PROVE  \/ \E i \in DOMAIN que : que[i] = HeartBeat(d)
                      \/ pc = "switch" /\ evt = HeartBeat(d)
    BY DEF BeatHasEvent, HeartBeat, Event
  <2>1. ring[d] > 0
    BY RingWriteFacts
  <2>2. tpc # d
    BY LoopAssumption
  <2> QED BY <2>1, <2>2 DEF BeatHasEvent
<1>4. MainTypeOK'
  BY DEF MainTypeOK, mgrVars
<1> QED BY <1>1, <1>2, <1>3, <1>4, SctpSame, TypesSame, LoopInvParts

\* The timer thread queues the event.
LEMMA QueuesEventKeeps == LoopInv /\ TimerQueuesEvent => LoopInv'
<1> SUFFICES ASSUME LoopInv, TimerQueuesEvent PROVE LoopInv'
  OBVIOUS
<1> USE DEF LoopInv, LoopTypeOK, TimerQueuesEvent, appVars, historyVars
<1>1. tpc \in Clients
  BY DEF BeatTypeOK
<1>2. /\ QueTypeOK' /\ QueueIntact'
      /\ \A i \in DOMAIN que : \E j \in DOMAIN que' : que'[j] = que[i]
      /\ \E j \in DOMAIN que' : que'[j] = HeartBeat(tpc)
  BY <1>1, PlainEvents, PushEvent
<1>3. BeatTypeOK'
  BY DEF BeatTypeOK
<1>4. LiveDataIntact'
  BY <1>2 DEF LiveDataIntact, Handling
<1>5. BeatHasEvent'
  <2> SUFFICES ASSUME NEW d \in Clients, ring[d] > 0
               PROVE  \/ \E i \in DOMAIN que' : que'[i] = HeartBeat(d)
                      \/ pc = "switch" /\ evt = HeartBeat(d)
    BY DEF BeatHasEvent, HeartBeat, Event
  <2> QED BY <1>2 DEF BeatHasEvent
<1>6. MainTypeOK'
  BY DEF MainTypeOK, mgrVars
<1> QED BY <1>2, <1>3, <1>4, <1>5, <1>6, SctpSame, TypesSame, LoopInvParts

\* What every input leaves alone.
LEMMA InputFrame ==
    ASSUME LoopInv, pc = "poll", SctpInv', QueTypeOK', ArenaTypeOK', BeatTypeOK', InboxTypeOK',
           QueueIntact', BeatHasEvent', bHaveData' = TRUE,
           UNCHANGED <<mgrVars, evt, fresh, pc, it, count>>
    PROVE  LoopInv'
<1> USE DEF LoopInv, LoopTypeOK
<1>1. MainTypeOK'
  BY DEF MainTypeOK, mgrVars
<1>2. FlagTypeOK'
  BY DEF FlagTypeOK
<1>3. LiveDataIntact'
  BY DEF LiveDataIntact, Handling
<1> QED BY <1>1, <1>2, <1>3, TypesSame, LoopInvParts

\* PushClientRecvData: the block ArenaAlloc hands out lies behind every
\* block that is in use.
LEMMA PushMessage ==
    ASSUME LoopInv, NEW c \in Clients, NEW len \in Lengths, PushClientRecvData(c, len),
           UNCHANGED evt
    PROVE  /\ QueTypeOK' /\ ArenaTypeOK' /\ InboxTypeOK' /\ QueueIntact'
           /\ \A i \in DOMAIN que : \E j \in DOMAIN que' : que'[j] = que[i]
<1> USE DEF LoopInv, LoopTypeOK
<1> DEFINE id == Len(inbox) + 1
           msg == [client |-> c, len |-> len, kept |-> ArenaFits(len)]
           e == RecvClientData(c, pos, len % LenMod, id)
<1>1. len \in Nat /\ LenMod \in Nat \ {0} /\ ArenaCap \in Nat /\ pos \in 0 .. ArenaCap
  BY LoopAssumption DEF ArenaTypeOK
<1>2. id \in Nat
  BY LenProperties DEF InboxTypeOK
<1>3. InboxTypeOK'
  <2>1. ArenaFits(len) \in BOOLEAN
    BY DEF ArenaFits
  <2>2. msg \in [client : Clients, len : Nat, kept : BOOLEAN]
    BY <1>1, <2>1
  <2>3. inbox' = Append(inbox, msg)
    BY DEF PushClientRecvData
  <2> HIDE DEF msg
  <2> QED BY <2>2, <2>3, AppendProperties DEF InboxTypeOK
<1>4. CASE ~ArenaFits(len)
  <2>1. UNCHANGED <<que, mem, pos>>
    BY <1>4 DEF PushClientRecvData, queVars
  <2> QED BY <1>3, <2>1, TypesSame DEF LiveDataIntact, QueueIntact
<1>5. CASE ArenaFits(len)
  <2>1. /\ mem' = [i \in DOMAIN mem |-> IF i \in pos .. pos + len - 1 THEN id ELSE mem[i]]
        /\ pos' = pos + len
        /\ que' = Append(que, e)
    BY <1>5 DEF PushClientRecvData
  <2>2. pos + len <= ArenaCap /\ len % LenMod \in Nat /\ len % LenMod <= len
    <3>1. len > 0 /\ ArenaCap - pos >= len
      BY <1>5 DEF ArenaFits
    <3>2. len % LenMod \in 0 .. LenMod - 1
      BY <1>1
    <3>3. len % LenMod <= len
      BY <1>1
    <3> QED BY <1>1, <3>1, <3>2, <3>3
  <2>3. ArenaTypeOK'
    <3>1. pos' \in 0 .. ArenaCap
      BY <1>1, <2>1, <2>2
    <3>2. mem' \in [0 .. ArenaCap - 1 -> Nat]
      BY <1>2, <2>1 DEF ArenaTypeOK
    <3> QED BY <3>1, <3>2 DEF ArenaTypeOK
  <2>4. /\ e \in EventRecord /\ e.client # NoClient /\ e.off = pos /\ e.id = id
        /\ e.length = len % LenMod
    BY <1>1, <1>2, <2>2, LoopAssumption
    DEF RecvClientData, Event, EventRecord, EventTypes
  <2> HIDE DEF e, id
  <2>5. QueTypeOK' /\ \A i \in DOMAIN que : \E j \in DOMAIN que' : que'[j] = que[i]
    BY <2>1, <2>4, PushEvent
  <2>6. ASSUME NEW i \in DOMAIN que' PROVE Intact(que'[i], mem', pos')
    <3>1. que'[i] = e \/ (i \in DOMAIN que /\ que'[i] = que[i])
      BY <2>1, <2>4, PushFacts DEF QueTypeOK
    <3>2. CASE que'[i] = e
      <4>1. e.off + e.length <= pos'
        BY <1>1, <2>1, <2>2, <2>4
      <4>2. ASSUME NEW k \in e.off .. e.off + e.length - 1 PROVE mem'[k] = e.id
        <5>1. k \in pos .. pos + len - 1 /\ k \in 0 .. ArenaCap - 1
          BY <1>1, <2>2, <2>4
        <5> QED BY <2>1, <2>4, <5>1 DEF ArenaTypeOK
      <4> QED BY <3>2, <4>1, <4>2 DEF Intact
    <3>3. CASE i \in DOMAIN que /\ que'[i] = que[i]
      <4> DEFINE o == que[i]
      <4>1. o \in EventRecord /\ Intact(o, mem, pos)
        BY <3>3, LenProperties DEF QueTypeOK, LiveDataIntact, QueueIntact
      <4> HIDE DEF o
      <4> SUFFICES ASSUME o.type = "RecvClientData" PROVE Intact(o, mem', pos')
        BY <3>3 DEF Intact, o
      <4>2. /\ o.off \in Nat /\ o.length \in Nat /\ o.off + o.length <= pos
            /\ \A k \in o.off .. o.off + o.length - 1 : mem[k] = o.id
        BY <4>1 DEF EventRecord, Intact
      <4>3. o.off + o.length <= pos'
        BY <1>1, <2>1, <4>2
      <4>4. ASSUME NEW k \in o.off .. o.off + o.length - 1 PROVE mem'[k] = o.id
        <5>1. k \in 0 .. ArenaCap - 1 /\ k \notin pos .. pos + len - 1
          BY <1>1, <4>2
        <5> QED BY <2>1, <4>2, <5>1 DEF ArenaTypeOK
      <4> QED BY <4>3, <4>4 DEF Intact
    <3> QED BY <3>1, <3>2, <3>3
  <2> QED BY <1>3, <2>3, <2>5, <2>6 DEF QueueIntact
<1> QED BY <1>4, <1>5

\* A datagram: a message goes to the arena, a heart beat to the ring with an
\* event behind it.
LEMMA DatagramKeeps ==
    ASSUME LoopInv, NEW a \in Addresses, NEW pkt \in Packets, NEW len \in Lengths,
           Datagram(a, pkt, len)
    PROVE  LoopInv'
<1> DEFINE c == FindClientByAddress(a)
           r == RecvResult(sctp[c], pkt)
<1>1. c \in Clients /\ pc = "poll"
  BY FindIsClient DEF LoopInv, LoopTypeOK, Datagram
<1>2. /\ sctp' = [sctp EXCEPT ![c] = r] /\ wild' \in BOOLEAN /\ bHaveData' = TRUE
      /\ UNCHANGED <<mgrVars, evt, fresh, pc, it, count, tpc>>
  BY DEF Datagram, appVars
<1>3. \/ PushClientRecvData(c, len) /\ UNCHANGED ring
      \/ RingBufWrite(c) /\ que' = Append(que, HeartBeat(c)) /\ UNCHANGED <<mem, pos, inbox>>
      \/ UNCHANGED <<que, mem, pos, ring, inbox>>
  BY DEF Datagram, queVars
<1>4. GoodObject(r)
  BY <1>1, RecvKeeps DEF LoopInv, SctpInv
<1> HIDE DEF c, r
<1>5. SctpInv'
  BY <1>1, <1>2, <1>4, ReplaceKeeps DEF LoopInv
<1>6. CASE PushClientRecvData(c, len) /\ UNCHANGED ring
  <2>1. /\ QueTypeOK' /\ ArenaTypeOK' /\ InboxTypeOK' /\ QueueIntact'
        /\ \A i \in DOMAIN que : \E j \in DOMAIN que' : que'[j] = que[i]
    BY <1>1, <1>2, <1>6, PushMessage
  <2>2. BeatTypeOK'
    BY <1>2, <1>6, TypesSame DEF LoopInv, LoopTypeOK
  <2>3. BeatHasEvent'
    <3> SUFFICES ASSUME NEW d \in Clients, ring[d] > 0
                 PROVE  tpc = d \/ \E i \in DOMAIN que' : que'[i] = HeartBeat(d)
      BY <1>2, <1>6 DEF BeatHasEvent, HeartBeat, Event
    <3> QED BY <1>1, <2>1 DEF LoopInv, BeatHasEvent
  <2> QED BY <1>1, <1>2, <1>5, <2>1, <2>2, <2>3, InputFrame
<1>7. CASE RingBufWrite(c) /\ que' = Append(que, HeartBeat(c)) /\ UNCHANGED <<mem, pos, inbox>>
  <2>1. /\ QueTypeOK' /\ QueueIntact'
        /\ \A i \in DOMAIN que : \E j \in DOMAIN que' : que'[j] = que[i]
        /\ \E j \in DOMAIN que' : que'[j] = HeartBeat(c)
    BY <1>1, <1>2, <1>7, PlainEvents, PushEvent
  <2>2. ArenaTypeOK' /\ InboxTypeOK'
    BY <1>7, TypesSame DEF LoopInv, LoopTypeOK
  <2>3. BeatTypeOK'
    BY <1>1, <1>2, <1>7, RingWriteFacts DEF LoopInv, LoopTypeOK, BeatTypeOK
  <2>4. BeatHasEvent'
    <3> SUFFICES ASSUME NEW d \in Clients, ring'[d] > 0
                 PROVE  tpc = d \/ \E i \in DOMAIN que' : que'[i] = HeartBeat(d)
      BY <1>2 DEF BeatHasEvent, HeartBeat, Event
    <3>1. CASE d = c
      BY <2>1, <3>1
    <3>2. CASE d # c
      <4>1. ring[d] > 0
        BY <1>1, <1>7, <3>2, RingWriteFacts DEF LoopInv, LoopTypeOK
      <4> QED BY <1>1, <2>1, <4>1 DEF LoopInv, BeatHasEvent
    <3> QED BY <3>1, <3>2
  <2> QED BY <1>1, <1>2, <1>5, <2>1, <2>2, <2>3, <2>4, InputFrame
<1>8. CASE UNCHANGED <<que, mem, pos, ring, inbox>>
  <2>1. QueTypeOK' /\ ArenaTypeOK' /\ InboxTypeOK' /\ BeatTypeOK'
    BY <1>2, <1>8, TypesSame DEF LoopInv, LoopTypeOK
  <2>2. QueueIntact' /\ BeatHasEvent'
    BY <1>2, <1>8 DEF LoopInv, LiveDataIntact, QueueIntact, BeatHasEvent
  <2> QED BY <1>1, <1>2, <1>5, <2>1, <2>2, InputFrame
<1> QED BY <1>3, <1>6, <1>7, <1>8

\* A registration appends a client to clientMgr_.
LEMMA RegisterKeeps ==
    ASSUME LoopInv, NEW c \in Clients, NEW a \in Addresses, Register(c, a)
    PROVE  LoopInv'
<1> USE DEF LoopInv, LoopTypeOK, queVars, appVars, historyVars
<1>1. PICK s \in Constructed : sctp' = [sctp EXCEPT ![c] = s]
  BY DEF Register
<1>2. GoodObject(s)
  BY NewIsGood DEF Constructed
<1>3. SctpInv'
  BY <1>1, <1>2, ReplaceKeeps DEF Register, SctpInv
<1>4. MgrTypeOK' /\ Len(clientMgr') = Len(clientMgr) + 1 /\ Len(clientMgr) \in Nat
  BY AppendProperties, LenProperties DEF Register, MgrTypeOK
<1>5. MainTypeOK'
  BY <1>4 DEF MainTypeOK, Register
<1>6. FlagTypeOK'
  BY DEF FlagTypeOK, Register
<1>7. LiveDataIntact' /\ BeatHasEvent'
  BY DEF LiveDataIntact, QueueIntact, Handling, BeatHasEvent, Register
<1>8. QueTypeOK' /\ ArenaTypeOK' /\ BeatTypeOK' /\ InboxTypeOK'
  BY TypesSame DEF Register
<1> QED BY <1>3, <1>4, <1>5, <1>6, <1>7, <1>8, LoopInvParts

\* Any other input only makes Loop return true.
LEMMA OtherInputKeeps == LoopInv /\ OtherInput => LoopInv'
<1> SUFFICES ASSUME LoopInv, OtherInput PROVE LoopInv'
  OBVIOUS
<1> USE DEF LoopInv, LoopTypeOK, OtherInput, queVars, appVars, historyVars
<1>1. QueTypeOK' /\ ArenaTypeOK' /\ BeatTypeOK' /\ InboxTypeOK' /\ SctpInv'
  BY SctpSame, TypesSame
<1>2. QueueIntact' /\ BeatHasEvent'
  BY DEF LiveDataIntact, QueueIntact, BeatHasEvent
<1> QED BY <1>1, <1>2, InputFrame

\* Every step of the two threads keeps LoopInv.
LEMMA NextLoopInv == LoopInv /\ [LoopNext]_vars => LoopInv'
<1> SUFFICES ASSUME LoopInv, [LoopNext]_vars PROVE LoopInv'
  OBVIOUS
<1>1. CASE Main
  BY <1>1, TakeEventKeeps, StartPollKeeps, ScanClientKeeps, LoopReturnsKeeps, EchoKeeps,
     CacheEventKeeps, HeartBeatKeeps, IgnoreKeeps
  DEF Main
<1>2. CASE Input
  BY <1>2, DatagramKeeps, RegisterKeeps, OtherInputKeeps DEF Input
<1>3. CASE Timer
  BY <1>3, WritesBeatKeeps, QueuesEventKeeps, LosesAssocKeeps DEF Timer
<1>4. CASE UNCHANGED vars
  <2> USE <1>4 DEF LoopInv, LoopTypeOK, vars
  <2>1. QueTypeOK' /\ ArenaTypeOK' /\ BeatTypeOK' /\ InboxTypeOK' /\ FlagTypeOK' /\ SctpInv'
    BY SctpSame, TypesSame
  <2>2. MgrTypeOK' /\ MainTypeOK'
    BY DEF MgrTypeOK, MainTypeOK
  <2>3. LiveDataIntact' /\ BeatHasEvent'
    BY DEF LiveDataIntact, QueueIntact, Handling, BeatHasEvent
  <2> QED BY <2>1, <2>2, <2>3, LoopInvParts
<1> QED BY <1>1, <1>2, <1>3, <1>4 DEF LoopNext

\* LoopInv holds in every state of the loop and usrsctp's timer.
THEOREM LoopInvariant == LoopSpec => []LoopInv
  BY InitLoopInv, NextLoopInv, PTL DEF LoopSpec

\* The variables of the loop keep their types; no event with a type is
\* without a client (Loop, EpollWait, the application's switch).
THEOREM LoopTypes == LoopSpec => []LoopTypeOK
<1>1. LoopInv => LoopTypeOK
  BY DEF LoopInv
<1> QED BY <1>1, LoopInvariant, PTL

\* The bytes of every queued message are its own, for an arena of any size
\* and messages of any length (UpdateEvent, ArenaAlloc, PushClientRecvData).
THEOREM ArenaIsSafe == LoopSpec => []LiveDataIntact
<1>1. LoopInv => LiveDataIntact
  BY DEF LoopInv
<1> QED BY <1>1, LoopInvariant, PTL

\* No heart beat is left in a ring without an event on its way
\* (OnSctpOutboundPacket, ClientSendHeartBeatData).
THEOREM NoBeatForgotten == LoopSpec => []BeatHasEvent
<1>1. LoopInv => BeatHasEvent
  BY DEF LoopInv
<1> QED BY <1>1, LoopInvariant, PTL

\* What RuruSctpProofs shows of one object under any calls holds of the
\* objects in the loop: order and loss of what the echo server sends.
THEOREM LoopSendsInOrder == LoopSpec => [](SendOrder /\ OneLossAtMost)
<1>1. LoopInv => SendOrder /\ OneLossAtMost
  BY DEF LoopInv, SctpInv, SendOrder, OneLossAtMost, GoodObject
<1> QED BY <1>1, LoopInvariant, PTL
=============================================================================
