------------------------ MODULE RuruLoopOrderProofs ------------------------
(***************************************************************************)
(* Proofs about RuruLoop that relate its histories: messages are handled   *)
(* in the order they came, and only the first client of an address is      *)
(* served.  LoopInv is the invariant of RuruLoopProofs.                    *)
(***************************************************************************)
EXTENDS RuruLoopProofs

EchoRecord == [id : Nat, client : Clients \cup {NoClient}, bytes : Seq(Nat), fresh : BOOLEAN]

EchoTypeOK == echoed \in Seq(EchoRecord)

\* The bytes evt names lie inside the arena, also when evt is left over from
\* an earlier call of Loop and the arena was reset since.
EvtInArena == IsRecv(evt) => evt.off + evt.length <= ArenaCap

OrderInv == EchoTypeOK /\ EvtInArena /\ HandledInOrder

-----------------------------------------------------------------------------
(* Steps that handle no message and receive none.                          *)

\* The application is not handling an event outside its switch.
LEMMA NoCurrent == ~Handling => CurrentIds = {}
  BY DEF CurrentIds

\* Such a step keeps the order, whether or not it puts an event without a
\* message on que_.
LEMMA QuietKeepsOrder ==
    ASSUME LoopInv, OrderInv, EvtInArena', CurrentIds' = CurrentIds, UNCHANGED <<inbox, echoed>>,
           que' = que \/ \E e \in EventRecord : ~IsRecv(e) /\ que' = Append(que, e)
    PROVE  OrderInv'
<1>1. /\ Waiting' = Waiting
      /\ \A i \in Waiting : que'[i] = que[i]
  <2>1. CASE que' = que
    BY <2>1 DEF Waiting
  <2>2. ASSUME NEW e \in EventRecord, ~IsRecv(e), que' = Append(que, e)
        PROVE  Waiting' = Waiting /\ \A i \in Waiting : que'[i] = que[i]
    <3>1. que \in Seq(EventRecord)
      BY DEF LoopInv, LoopTypeOK, QueTypeOK
    <3>2. /\ \A i \in DOMAIN que : i \in DOMAIN que' /\ que'[i] = que[i]
          /\ \A i \in DOMAIN que' : que'[i] = e \/ (i \in DOMAIN que /\ que'[i] = que[i])
      BY <2>2, <3>1, PushFacts
    <3> QED BY <2>2, <3>2 DEF Waiting
  <2> QED BY <2>1, <2>2
<1>2. WaitingIds' = WaitingIds
  BY <1>1 DEF WaitingIds
<1>3. Rising(que, Waiting)'
  BY <1>1 DEF OrderInv, HandledInOrder, Rising
<1>4. Handled' = Handled /\ HandledIds' = HandledIds
  BY DEF Handled, HandledIds
<1> QED BY <1>2, <1>3, <1>4 DEF OrderInv, EchoTypeOK, HandledInOrder, Rising

-----------------------------------------------------------------------------
(* The steps that move a message on.                                       *)

\* TakeEvent: the message at the front becomes the one that is handled.
LEMMA TakeKeepsOrder == LoopInv /\ OrderInv /\ TakeEvent => OrderInv'
<1> SUFFICES ASSUME LoopInv, OrderInv, TakeEvent PROVE OrderInv'
  OBVIOUS
<1>1. /\ que \in Seq(EventRecord) /\ que # <<>> /\ que' = Tail(que) /\ evt' = Head(que)
      /\ UNCHANGED <<inbox, echoed>> /\ Handling' /\ ~Handling
  BY DEF LoopInv, LoopTypeOK, QueTypeOK, TakeEvent, UpdateEvent, historyVars, Handling
<1>2. /\ Len(que) \in Nat \ {0} /\ DOMAIN que = 1 .. Len(que) /\ DOMAIN que' = 1 .. Len(que) - 1
      /\ evt' = que[1] /\ \A i \in DOMAIN que' : que'[i] = que[i + 1]
  <2>1. /\ Len(que) \in Nat \ {0} /\ DOMAIN que = 1 .. Len(que)
        /\ Tail(que) \in Seq(EventRecord) /\ Len(Tail(que)) = Len(que) - 1
    BY <1>1, LenProperties, EmptySeq, HeadTailProperties
  <2>2. DOMAIN Tail(que) = 1 .. Len(que) - 1
    BY <2>1, LenProperties
  <2>3. \A i \in 1 .. Len(que) - 1 : Tail(que)[i] = que[i + 1]
    BY <1>1, <2>1, HeadTailProperties
  <2>4. Head(que) = que[1]
    OBVIOUS
  <2> QED BY <1>1, <2>1, <2>2, <2>3, <2>4
<1>3. \A i \in Waiting' : i \in Nat /\ i + 1 \in Waiting /\ que'[i] = que[i + 1] /\ 1 < i + 1
  BY <1>2 DEF Waiting
<1>4. \A i \in Waiting : i = 1 \/ (i - 1 \in Waiting' /\ que'[i - 1] = que[i])
  <2> SUFFICES ASSUME NEW i \in Waiting, i # 1 PROVE i - 1 \in Waiting' /\ que'[i - 1] = que[i]
    OBVIOUS
  <2>1. i \in 1 .. Len(que) /\ IsRecv(que[i])
    BY <1>2 DEF Waiting
  <2>2. i - 1 \in DOMAIN que' /\ (i - 1) + 1 = i
    BY <1>2, <2>1
  <2>3. que'[i - 1] = que[i]
    BY <1>2, <2>2
  <2> QED BY <2>1, <2>2, <2>3 DEF Waiting
<1>5. Handled' = Handled /\ HandledIds' = HandledIds /\ CurrentIds = {}
  BY <1>1, NoCurrent DEF Handled, HandledIds
<1>6. 1 \in Waiting <=> IsRecv(evt')
  BY <1>2 DEF Waiting
<1>7. CurrentIds' = IF IsRecv(evt') THEN {evt'.id} ELSE {}
  BY <1>1 DEF CurrentIds, IsRecv
<1>8. CurrentIds' \cup WaitingIds' = WaitingIds
  <2>1. CurrentIds' \cup WaitingIds' \subseteq WaitingIds
    BY <1>2, <1>3, <1>6, <1>7 DEF WaitingIds
  <2>2. ASSUME NEW i \in Waiting PROVE que[i].id \in CurrentIds' \cup WaitingIds'
    <3>1. CASE i = 1
      BY <1>2, <1>6, <1>7, <3>1
    <3>2. CASE i - 1 \in Waiting' /\ que'[i - 1] = que[i]
      BY <3>2 DEF WaitingIds
    <3> QED BY <1>4, <3>1, <3>2
  <2> QED BY <2>1, <2>2 DEF WaitingIds
<1>9. Rising(que, Waiting)
  BY DEF OrderInv, HandledInOrder
<1>10. Rising(que, Waiting)'
  <2> SUFFICES ASSUME NEW i \in Waiting', NEW j \in Waiting', i < j PROVE que'[i].id < que'[j].id
    BY DEF Rising
  <2>1. i + 1 < j + 1
    BY <1>3
  <2> QED BY <1>3, <1>9, <2>1 DEF Rising
<1>11. Precede(CurrentIds', WaitingIds')
  BY <1>2, <1>3, <1>6, <1>7, <1>9 DEF Rising, Precede, WaitingIds
<1>12. EvtInArena'
  <2>1. Intact(que[1], mem, pos) /\ pos \in 0 .. ArenaCap /\ que[1] \in EventRecord
    BY <1>1, <1>2, ElementOfSeq DEF LoopInv, LoopTypeOK, LiveDataIntact, QueueIntact, ArenaTypeOK
  <2>2. IsRecv(que[1]) => que[1].off + que[1].length <= pos
    BY <2>1 DEF Intact, IsRecv
  <2>3. que[1].off \in Nat /\ que[1].length \in Nat /\ ArenaCap \in Nat
    BY <2>1, LoopAssumption DEF EventRecord
  <2> QED BY <1>2, <2>1, <2>2, <2>3 DEF EvtInArena, IsRecv
<1>13. EchoTypeOK' /\ Rising(echoed, Handled)'
  BY <1>1, <1>5 DEF OrderInv, EchoTypeOK, HandledInOrder, Rising
<1>14. HandledIds' \cup CurrentIds' \cup WaitingIds' = {n \in DOMAIN inbox' : inbox'[n].kept}
  BY <1>1, <1>5, <1>8 DEF OrderInv, HandledInOrder
<1>15. Precede(HandledIds', CurrentIds' \cup WaitingIds')
  BY <1>5, <1>8 DEF OrderInv, HandledInOrder
<1> QED BY <1>10, <1>11, <1>12, <1>13, <1>14, <1>15 DEF OrderInv, HandledInOrder, Precede, Rising

\* Echo2Client: the message being handled joins those handled before; with an
\* evt of an earlier call nothing does.
LEMMA EchoKeepsOrder == LoopInv /\ OrderInv /\ Echo2Client => OrderInv'
<1> SUFFICES ASSUME LoopInv, OrderInv, Echo2Client PROVE OrderInv'
  OBVIOUS
<1> DEFINE x == [id |-> evt.id, client |-> evt.client, bytes |-> EventBytes(evt), fresh |-> fresh]
<1>1. /\ pc = "switch" /\ pc' = "call" /\ IsRecv(evt) /\ echoed' = Append(echoed, x)
      /\ UNCHANGED <<inbox, que, evt>> /\ echoed \in Seq(EchoRecord)
  BY DEF Echo2Client, queVars, IsRecv, OrderInv, EchoTypeOK
<1>2. EventBytes(evt) \in Seq(Nat)
  <2>1. evt \in EventRecord /\ evt.off + evt.length <= ArenaCap
    BY <1>1 DEF OrderInv, EvtInArena, LoopInv, LoopTypeOK, QueTypeOK
  <2>2. evt.off \in Nat /\ evt.length \in Nat /\ ArenaCap \in Nat
    BY <2>1, LoopAssumption DEF EventRecord
  <2>3. \A k \in 1 .. evt.length : mem[evt.off + k - 1] \in Nat
    <3> SUFFICES ASSUME NEW k \in 1 .. evt.length PROVE mem[evt.off + k - 1] \in Nat
      OBVIOUS
    <3>1. evt.off + k - 1 \in 0 .. ArenaCap - 1
      BY <2>1, <2>2
    <3> QED BY <3>1 DEF LoopInv, LoopTypeOK, ArenaTypeOK
  <2> QED BY <2>2, <2>3 DEF EventBytes
<1>3. x \in EchoRecord
  <2>1. evt.id \in Nat /\ evt.client \in Clients \cup {NoClient}
    BY DEF LoopInv, LoopTypeOK, QueTypeOK, EventRecord
  <2>2. fresh \in BOOLEAN
    BY DEF LoopInv, LoopTypeOK, FlagTypeOK
  <2> QED BY <1>2, <2>1, <2>2, Zenon DEF EchoRecord
<1>4. x.id = evt.id
  OBVIOUS
<1>5. x.fresh <=> fresh
  BY Zenon
<1> HIDE DEF x
<1>6. /\ Len(echoed) \in Nat /\ DOMAIN echoed = 1 .. Len(echoed)
      /\ DOMAIN echoed' = 1 .. Len(echoed) + 1
      /\ \A k \in 1 .. Len(echoed) : echoed'[k] = echoed[k]
      /\ echoed'[Len(echoed) + 1] = x /\ echoed' \in Seq(EchoRecord)
  BY <1>1, <1>3, LenProperties, AppendProperties
<1>7. /\ Waiting' = Waiting /\ WaitingIds' = WaitingIds /\ CurrentIds' = {}
      /\ CurrentIds = IF fresh THEN {evt.id} ELSE {}
  <2>1. ~Handling' /\ (Handling <=> fresh)
    BY <1>1 DEF Handling
  <2> QED BY <1>1, <2>1 DEF CurrentIds, Waiting, WaitingIds, IsRecv
<1>8. Handled' = Handled \cup (IF fresh THEN {Len(echoed) + 1} ELSE {})
  <2>1. DOMAIN echoed' = DOMAIN echoed \cup {Len(echoed) + 1} /\ Len(echoed) + 1 \notin DOMAIN echoed
    BY <1>6
  <2>2. \A k \in DOMAIN echoed : echoed'[k] = echoed[k]
    BY <1>6
  <2>3. echoed'[Len(echoed) + 1] = x
    BY <1>6
  <2> QED BY <1>5, <2>1, <2>2, <2>3 DEF Handled
<1>9. HandledIds' = HandledIds \cup CurrentIds
  <2>1. \A k \in Handled : echoed'[k] = echoed[k]
    BY <1>6 DEF Handled
  <2> QED BY <1>4, <1>6, <1>7, <1>8, <2>1 DEF HandledIds
<1>10. Rising(echoed, Handled)'
  <2> SUFFICES ASSUME NEW i \in Handled', NEW j \in Handled', i < j
               PROVE  echoed'[i].id < echoed'[j].id
    BY DEF Rising
  <2>1. \A k \in Handled : k \in 1 .. Len(echoed) /\ echoed'[k] = echoed[k]
    BY <1>6 DEF Handled
  <2>2. i \in Handled
    BY <1>6, <1>8, <2>1
  <2>3. CASE j \in Handled
    BY <2>1, <2>2, <2>3 DEF OrderInv, HandledInOrder, Rising
  <2>4. CASE fresh /\ j = Len(echoed) + 1
    <3>1. echoed'[j].id \in CurrentIds /\ echoed'[i].id \in HandledIds
      BY <1>4, <1>6, <1>7, <2>1, <2>2, <2>4 DEF HandledIds
    <3> QED BY <3>1 DEF OrderInv, HandledInOrder, Precede
  <2> QED BY <1>8, <2>3, <2>4
<1>11. EchoTypeOK' /\ EvtInArena' /\ Rising(que, Waiting)'
  BY <1>1, <1>6, <1>7 DEF OrderInv, EchoTypeOK, EvtInArena, HandledInOrder, Rising
<1>12. HandledIds' \cup CurrentIds' \cup WaitingIds' = {n \in DOMAIN inbox' : inbox'[n].kept}
  BY <1>1, <1>7, <1>9 DEF OrderInv, HandledInOrder
<1>13. Precede(HandledIds', CurrentIds' \cup WaitingIds') /\ Precede(CurrentIds', WaitingIds')
  BY <1>7, <1>9 DEF OrderInv, HandledInOrder, Precede
<1> QED BY <1>10, <1>11, <1>12, <1>13 DEF OrderInv, HandledInOrder, Precede, Rising

\* PushClientRecvData: the newest message goes behind all others, or is
\* dropped.
LEMMA PushKeepsOrder ==
    ASSUME LoopInv, OrderInv, NEW c \in Clients, NEW len \in Lengths, PushClientRecvData(c, len),
           pc = "poll", UNCHANGED <<evt, pc, fresh, echoed>>
    PROVE  OrderInv'
<1> DEFINE id == Len(inbox) + 1
           msg == [client |-> c, len |-> len, kept |-> ArenaFits(len)]
           e == RecvClientData(c, pos, len % LenMod, id)
           Kept == {n \in DOMAIN inbox : inbox[n].kept}
<1>1. /\ inbox \in Seq([client : Clients, len : Nat, kept : BOOLEAN]) /\ que \in Seq(EventRecord)
      /\ len \in Nat
  BY LoopAssumption DEF LoopInv, LoopTypeOK, InboxTypeOK, QueTypeOK
<1>2. inbox' = Append(inbox, msg) /\ msg \in [client : Clients, len : Nat, kept : BOOLEAN]
      /\ (msg.kept <=> ArenaFits(len))
  <2>1. ArenaFits(len) \in BOOLEAN
    BY DEF ArenaFits
  <2>2. msg.kept <=> ArenaFits(len)
    BY Zenon
  <2> QED BY <1>1, <2>1, <2>2 DEF PushClientRecvData
<1>3. e.id = id /\ IsRecv(e)
  BY DEF RecvClientData, Event, IsRecv
<1>4. ArenaFits(len) => que' = Append(que, e) /\ e \in EventRecord
  <2>1. len % LenMod \in Nat /\ pos \in Nat /\ id \in Nat
    BY <1>1, LoopAssumption, LenProperties DEF LoopInv, LoopTypeOK, ArenaTypeOK
  <2> QED BY <2>1 DEF PushClientRecvData, RecvClientData, Event, EventRecord, EventTypes
<1>5. ~ArenaFits(len) => que' = que
  BY DEF PushClientRecvData, queVars
<1> HIDE DEF msg, e
<1>6. /\ Len(inbox) \in Nat /\ DOMAIN inbox = 1 .. Len(inbox) /\ DOMAIN inbox' = 1 .. id
      /\ inbox'[id] = msg /\ \A n \in 1 .. Len(inbox) : inbox'[n] = inbox[n]
  BY <1>1, <1>2, LenProperties, AppendProperties
<1>7. id \in Nat /\ id \notin DOMAIN inbox /\ \A n \in DOMAIN inbox : n < id
  BY <1>6
<1>8. Kept' = IF ArenaFits(len) THEN Kept \cup {id} ELSE Kept
  <2>1. DOMAIN inbox' = DOMAIN inbox \cup {id}
    BY <1>6
  <2> QED BY <1>2, <1>6, <1>7, <2>1
<1>9. CurrentIds = {} /\ CurrentIds' = {} /\ Handled' = Handled /\ HandledIds' = HandledIds
  BY DEF CurrentIds, Handling, Handled, HandledIds
<1>10. HandledIds \cup WaitingIds = Kept
  BY <1>9 DEF OrderInv, HandledInOrder
<1>11. EchoTypeOK' /\ EvtInArena' /\ Rising(echoed, Handled)'
  BY <1>9 DEF OrderInv, EchoTypeOK, EvtInArena, HandledInOrder, Rising, IsRecv
<1>12. CASE ~ArenaFits(len)
  <2>1. Waiting' = Waiting /\ WaitingIds' = WaitingIds /\ Rising(que, Waiting)'
    BY <1>5, <1>12 DEF Waiting, WaitingIds, OrderInv, HandledInOrder, Rising
  <2>2. HandledIds' \cup CurrentIds' \cup WaitingIds' = Kept'
    BY <1>8, <1>9, <1>10, <1>12, <2>1
  <2>3. Precede(HandledIds', CurrentIds' \cup WaitingIds') /\ Precede(CurrentIds', WaitingIds')
    BY <1>9, <2>1 DEF OrderInv, HandledInOrder, Precede
  <2> QED BY <1>11, <2>1, <2>2, <2>3 DEF OrderInv, HandledInOrder, Precede, Rising
<1>13. CASE ArenaFits(len)
  <2>1. /\ Len(que) \in Nat /\ DOMAIN que = 1 .. Len(que) /\ DOMAIN que' = 1 .. Len(que) + 1
        /\ que'[Len(que) + 1] = e /\ \A i \in 1 .. Len(que) : que'[i] = que[i]
    BY <1>1, <1>4, <1>13, LenProperties, AppendProperties
  <2>2. Waiting' = Waiting \cup {Len(que) + 1} /\ \A i \in Waiting : que'[i] = que[i] /\ i \in 1 .. Len(que)
    <3>1. DOMAIN que' = DOMAIN que \cup {Len(que) + 1}
      BY <2>1
    <3> QED BY <1>3, <2>1, <3>1 DEF Waiting
  <2>3. WaitingIds' = WaitingIds \cup {id}
    BY <1>3, <2>1, <2>2 DEF WaitingIds
  <2>4. Rising(que, Waiting)'
    <3> SUFFICES ASSUME NEW i \in Waiting', NEW j \in Waiting', i < j PROVE que'[i].id < que'[j].id
      BY DEF Rising
    <3>1. i \in Waiting
      BY <2>1, <2>2
    <3>2. CASE j \in Waiting
      BY <2>2, <3>1, <3>2 DEF OrderInv, HandledInOrder, Rising
    <3>3. CASE j = Len(que) + 1
      <4>1. que[i].id \in Kept
        BY <1>10, <3>1 DEF WaitingIds
      <4> QED BY <1>3, <1>7, <2>1, <2>2, <3>1, <3>3, <4>1
    <3> QED BY <2>2, <3>2, <3>3
  <2>5. HandledIds' \cup CurrentIds' \cup WaitingIds' = Kept'
    BY <1>8, <1>9, <1>10, <1>13, <2>3
  <2>6. Precede(HandledIds', CurrentIds' \cup WaitingIds') /\ Precede(CurrentIds', WaitingIds')
    BY <1>7, <1>9, <1>10, <2>3 DEF OrderInv, HandledInOrder, Precede
  <2> QED BY <1>11, <2>4, <2>5, <2>6 DEF OrderInv, HandledInOrder, Precede, Rising
<1> QED BY <1>12, <1>13

\* A datagram brings a message, a heart beat or neither.
LEMMA DatagramKeepsOrder ==
    ASSUME LoopInv, OrderInv, NEW a \in Addresses, NEW pkt \in Packets, NEW len \in Lengths,
           Datagram(a, pkt, len)
    PROVE  OrderInv'
<1> DEFINE c == FindClientByAddress(a)
<1>1. c \in Clients /\ pc = "poll" /\ UNCHANGED <<evt, pc, fresh, echoed>>
  BY FindIsClient DEF LoopInv, LoopTypeOK, Datagram, appVars
<1>2. \/ PushClientRecvData(c, len)
      \/ que' = Append(que, HeartBeat(c)) /\ UNCHANGED inbox
      \/ UNCHANGED <<que, inbox>>
  BY DEF Datagram, queVars
<1> HIDE DEF c
<1>3. CurrentIds' = CurrentIds /\ EvtInArena'
  BY <1>1 DEF CurrentIds, Handling, IsRecv, OrderInv, EvtInArena
<1>4. HeartBeat(c) \in EventRecord /\ ~IsRecv(HeartBeat(c))
  BY <1>1, PlainEvents DEF IsRecv
<1> QED BY <1>1, <1>2, <1>3, <1>4, PushKeepsOrder, QuietKeepsOrder

\* Nothing was received at the start.
LEMMA InitOrderInv == LoopInit => OrderInv
<1> SUFFICES ASSUME LoopInit PROVE OrderInv
  OBVIOUS
<1>1. EchoTypeOK /\ EvtInArena
  BY EmptySeq DEF LoopInit, EchoTypeOK, EvtInArena, IsRecv, NoEvent, Event
<1>2. Handled = {} /\ Waiting = {} /\ CurrentIds = {} /\ DOMAIN inbox = {}
  BY DEF LoopInit, Handled, Waiting, CurrentIds, Handling
<1>3. HandledIds = {} /\ WaitingIds = {}
  BY <1>2 DEF HandledIds, WaitingIds
<1> QED BY <1>1, <1>2, <1>3 DEF OrderInv, HandledInOrder, Rising, Precede

\* Every step of the two threads keeps the order.
LEMMA NextOrderInv == LoopInv /\ OrderInv /\ [LoopNext]_vars => OrderInv'
<1> SUFFICES ASSUME LoopInv, OrderInv, [LoopNext]_vars PROVE OrderInv'
  OBVIOUS
<1> DEFINE Quiet ==
      /\ UNCHANGED <<inbox, echoed>>
      /\ que' = que \/ \E e \in EventRecord : ~IsRecv(e) /\ que' = Append(que, e)
      /\ ~Handling \/ UNCHANGED <<evt, pc, fresh>> \/ ~IsRecv(evt)
      /\ ~Handling' \/ UNCHANGED <<evt, pc, fresh>>
      /\ UNCHANGED evt \/ evt' = NoEvent
<1>1. ASSUME Quiet PROVE OrderInv'
  <2>1. EvtInArena'
    BY <1>1 DEF OrderInv, EvtInArena, IsRecv, NoEvent, Event
  <2>2. CurrentIds' = CurrentIds
    <3>1. CASE UNCHANGED <<evt, pc, fresh>>
      BY <3>1 DEF CurrentIds, Handling, IsRecv
    <3>2. CASE ~Handling' /\ (~Handling \/ ~IsRecv(evt))
      BY <3>2 DEF CurrentIds
    <3> QED BY <1>1, <3>1, <3>2
  <2> QED BY <1>1, <2>1, <2>2, QuietKeepsOrder
<1>2. CASE StartPoll \/ LoopReturns
  <2>1. Quiet
    BY <1>2 DEF StartPoll, LoopReturns, Handling, historyVars, queVars
  <2> QED BY <1>1, <2>1
<1>3. CASE SendClientCacheData \/ SendHeartBeat \/ IgnoreEvent
  <2>1. Quiet
    BY <1>3 DEF SendClientCacheData, SendHeartBeat, IgnoreEvent, Handling, historyVars, queVars, IsRecv
  <2> QED BY <1>1, <2>1
<1>4. CASE ScanClient
  <2>1. clientMgr[it] \in Clients
    BY <1>4, LenProperties, ElementOfSeq DEF ScanClient, LoopInv, LoopTypeOK, MgrTypeOK, MainTypeOK
  <2>2. SendCacheData(clientMgr[it]) \in EventRecord /\ ~IsRecv(SendCacheData(clientMgr[it]))
    BY <2>1, PlainEvents DEF IsRecv
  <2>3. Quiet
    BY <1>4, <2>2 DEF ScanClient, Handling, historyVars
  <2> QED BY <1>1, <2>3
<1>5. CASE OtherInput \/ \E c \in Clients, a \in Addresses : Register(c, a)
  <2>1. Quiet
    BY <1>5 DEF OtherInput, Register, Handling, historyVars, queVars, appVars
  <2> QED BY <1>1, <2>1
<1>6. CASE Timer
  <2>1. UNCHANGED <<inbox, echoed, evt, pc, fresh>>
    BY <1>6 DEF Timer, TimerWritesBeat, TimerQueuesEvent, TimerLosesAssoc, historyVars, appVars
  <2>2. que' = que \/ (tpc # NoClient /\ que' = Append(que, HeartBeat(tpc)))
    BY <1>6 DEF Timer, TimerWritesBeat, TimerQueuesEvent, TimerLosesAssoc, queVars
  <2>3. tpc # NoClient => HeartBeat(tpc) \in EventRecord /\ ~IsRecv(HeartBeat(tpc))
    BY PlainEvents DEF IsRecv, LoopInv, LoopTypeOK, BeatTypeOK
  <2>4. Quiet
    BY <2>1, <2>2, <2>3
  <2> QED BY <1>1, <2>4
<1>7. CASE UNCHANGED vars
  <2>1. Quiet
    BY <1>7 DEF vars
  <2> QED BY <1>1, <2>1
<1> HIDE DEF Quiet
<1>8. CASE Main
  BY <1>2, <1>3, <1>4, <1>8, TakeKeepsOrder, EchoKeepsOrder DEF Main
<1>9. CASE Input
  BY <1>5, <1>9, DatagramKeepsOrder DEF Input
<1> QED BY <1>6, <1>7, <1>8, <1>9 DEF LoopNext

\* Received messages reach the application in the order they came and once
\* each with their event, for any number of messages of any lengths, whatever
\* the timer thread puts between them (PushClientRecvData, UpdateEvent).
THEOREM MessagesInOrder == LoopSpec => []HandledInOrder
<1>1. OrderInv => HandledInOrder
  BY DEF OrderInv
<1> QED BY <1>1, InitOrderInv, NextOrderInv, LoopInvariant, PTL DEF LoopSpec

\* Echo2Client never reads outside the arena, not even with an evt that is
\* left over from an earlier call of Loop.
THEOREM EchoReadsArena == LoopSpec => []EvtInArena
<1>1. OrderInv => EvtInArena
  BY DEF OrderInv
<1> QED BY <1>1, InitOrderInv, NextOrderInv, LoopInvariant, PTL DEF LoopSpec

-----------------------------------------------------------------------------
(* Only the first client of an address is served.                          *)

\* c is registered, and is the one FindClientByAddress finds.
IsFirst(c) ==
    \E i \in DOMAIN clientMgr :
        clientMgr[i] = c /\ \A j \in 1 .. i - 1 : address[clientMgr[j]] # address[c]

\* c is as its constructor left it, or has none yet.
Untouched(c) ==
    sctp[c] \in Constructed \cup {NewSctp("unborn", FALSE)} /\ ring[c] = 0

RegisteredOnce ==
    /\ \A i, j \in DOMAIN clientMgr : clientMgr[i] = clientMgr[j] => i = j
    /\ \A i \in DOMAIN clientMgr : Exists(clientMgr[i])

EventsForFirst ==
    /\ \A i \in DOMAIN que : IsFirst(que[i].client)
    /\ evt.client # NoClient => IsFirst(evt.client)
    /\ tpc # NoClient => IsFirst(tpc)

ServedInv ==
    RegisteredOnce /\ EventsForFirst /\ \A c \in Clients : IsFirst(c) \/ Untouched(c)

\* An untouched object has no association and no cached message, so neither
\* usrsctp's timer nor the scan of the caches finds anything to do for it.
LEMMA UntouchedIsIdle ==
    ASSUME NEW c \in Clients, Untouched(c)
    PROVE  sctp[c].assoc = "none" /\ sctp[c].cache = <<>> /\ AssocGone(sctp[c]) = sctp[c]
<1>1. PICK sock, done : sctp[c] = NewSctp(sock, done)
  BY DEF Untouched, Constructed
<1> QED BY <1>1 DEF NewSctp, AssocGone

\* No operation takes an object's constructor back.
LEMMA ExistsStays ==
    ASSUME NEW s, GoodObject(s), s.sock # "unborn"
    PROVE  /\ \A f \in FlushResults(s) : f.s.sock # "unborn"
           /\ \A r \in SendResults(s) : r.sock # "unborn"
           /\ \A pkt \in Packets : RecvResult(s, pkt).sock # "unborn"
           /\ AssocGone(s).sock # "unborn"
<1>1. \A t \in SctpObject : CloseSock(t).sock # "unborn" /\ AssocGone(t).sock = t.sock
  BY DEF SctpObject, CloseSock, AssocGone
<1>2. s \in SctpObject
  BY DEF GoodObject
<1>3. ASSUME NEW f \in FlushResults(s) PROVE f.s.sock # "unborn"
  <2>1. CASE ~s.bHandShakeDone
    BY <1>3, <2>1 DEF FlushResults, Flushed
  <2>2. CASE s.bHandShakeDone
    <3>1. SendCounts(s) \subseteq 0 .. Len(s.cache)
      BY <1>2, LenProperties DEF SctpObject, SendCounts
    <3>2. PICK n \in 0 .. Len(s.cache) : f.s \in {SendFront(s, n), CloseSock(SendFront(s, n))}
      BY <1>3, <2>2, <3>1 DEF FlushResults, Flushed
    <3>3. SendFront(s, n) \in SctpObject /\ SendFront(s, n).sock = s.sock
      BY <1>2, SendFrontKeeps DEF GoodObject, SendFront, SctpObject
    <3> QED BY <1>1, <3>2, <3>3
  <2> QED BY <2>1, <2>2
<1>4. ASSUME NEW r \in SendResults(s) PROVE r.sock # "unborn"
  <2>1. PICK f \in FlushResults(s) :
          r \in {PushMsg2ClientCache(f.s), DropNow(f.s), SendNow(f.s)}
    BY <1>4 DEF SendResults
  <2>2. f.s \in SctpObject /\ f.s.sock # "unborn"
    BY <1>3, FlushKeeps DEF GoodObject
  <2>3. /\ PushMsg2ClientCache(f.s).sock = f.s.sock /\ SendNow(f.s).sock = f.s.sock
        /\ DropNow(f.s).sock = CloseSock(f.s).sock
    BY <2>2 DEF SctpObject, PushMsg2ClientCache, SendNow, DropNow, CloseSock
  <2> QED BY <1>1, <2>1, <2>2, <2>3
<1>5. ASSUME NEW pkt \in Packets PROVE RecvResult(s, pkt).sock # "unborn"
  <2>1. Accept(s) \in SctpObject /\ Accept(s).sock # "unborn"
    BY <1>2, AcceptKeeps DEF Accept, GoodObject, SctpObject
  <2>2. ConnInput(Accept(s), pkt).sock = Accept(s).sock
    BY <1>1, <2>1 DEF ConnInput, SctpObject
  <2> QED BY <2>1, <2>2 DEF RecvResult
<1> QED BY <1>1, <1>2, <1>3, <1>4, <1>5

\* FindClientByAddress answers the first client with that address.
LEMMA FindIsFirst ==
    ASSUME MgrTypeOK, NEW a, FindClientByAddress(a) # NoClient
    PROVE  IsFirst(FindClientByAddress(a))
  BY FindIsEarliest DEF IsFirst

\* A step that leaves clientMgr_ alone and changes only clients that are the
\* first of their address.
LEMMA ServeFirstKeeps ==
    ASSUME ServedInv, UNCHANGED <<clientMgr, address>>, MgrTypeOK,
           \A c \in Clients : IsFirst(c) \/ (sctp'[c] = sctp[c] /\ ring'[c] = ring[c]),
           \A c \in Clients : Exists(c) => Exists(c)',
           EventsForFirst'
    PROVE  ServedInv'
<1>1. \A c : IsFirst(c)' <=> IsFirst(c)
  BY DEF IsFirst
<1>2. RegisteredOnce'
  <2>1. \A i \in DOMAIN clientMgr : clientMgr[i] \in Clients
    BY LenProperties, ElementOfSeq DEF MgrTypeOK
  <2> QED BY <2>1 DEF ServedInv, RegisteredOnce
<1>3. \A c \in Clients : IsFirst(c)' \/ Untouched(c)'
  BY <1>1 DEF ServedInv, Untouched
<1> QED BY <1>2, <1>3 DEF ServedInv

\* The events stay those of first clients when one for a first client is
\* pushed, when the front is taken, and when evt is made anew.
LEMMA EventsKeep ==
    ASSUME LoopInv, ServedInv, UNCHANGED <<clientMgr, address>>,
           \/ que' = que
           \/ \E e \in EventRecord : IsFirst(e.client) /\ que' = Append(que, e)
           \/ que # <<>> /\ que' = Tail(que),
           evt' = evt \/ evt' = NoEvent \/ (que # <<>> /\ evt' = Head(que)),
           tpc' = tpc \/ tpc' = NoClient \/ IsFirst(tpc')
    PROVE  EventsForFirst'
<1>1. \A c : IsFirst(c)' <=> IsFirst(c)
  BY DEF IsFirst
<1>2. que \in Seq(EventRecord) /\ EventsForFirst
  BY DEF LoopInv, LoopTypeOK, QueTypeOK, ServedInv
<1>3. \A i \in DOMAIN que' : IsFirst(que'[i].client)
  <2>1. CASE que' = que
    BY <1>2, <2>1 DEF EventsForFirst
  <2>2. ASSUME NEW e \in EventRecord, IsFirst(e.client), que' = Append(que, e)
        PROVE  \A i \in DOMAIN que' : IsFirst(que'[i].client)
    BY <1>2, <2>2, PushFacts DEF EventsForFirst
  <2>3. CASE que # <<>> /\ que' = Tail(que)
    BY <1>2, <2>3, PopFacts DEF EventsForFirst
  <2> QED BY <2>1, <2>2, <2>3
<1>4. evt'.client # NoClient => IsFirst(evt'.client)
  <2>1. CASE que # <<>> /\ evt' = Head(que)
    BY <1>2, <2>1, PopFacts DEF EventsForFirst
  <2>2. CASE evt' = NoEvent
    BY <2>2 DEF NoEvent, Event
  <2> QED BY <1>2, <2>1, <2>2 DEF EventsForFirst
<1>5. tpc' # NoClient => IsFirst(tpc')
  BY <1>2 DEF EventsForFirst
<1> QED BY <1>1, <1>3, <1>4, <1>5 DEF EventsForFirst

\* First clients are clients, and exist.
LEMMA FirstExists ==
    ASSUME LoopInv, ServedInv, NEW c, IsFirst(c)
    PROVE  c \in Clients /\ Exists(c)
  BY LenProperties, ElementOfSeq DEF LoopInv, LoopTypeOK, MgrTypeOK, ServedInv, RegisteredOnce, IsFirst

\* An operation on the object of a first client.
LEMMA ObjectStep ==
    ASSUME LoopInv, ServedInv, NEW c \in Clients, IsFirst(c), NEW r, r.sock # "unborn",
           sctp' = [sctp EXCEPT ![c] = r]
    PROVE  /\ \A d \in Clients : IsFirst(d) \/ sctp'[d] = sctp[d]
           /\ \A d \in Clients : Exists(d) => Exists(d)'
<1>1. sctp'[c] = r /\ \A d \in Clients \ {c} : sctp'[d] = sctp[d]
  BY DEF LoopInv, LoopTypeOK, SctpTypeOK
<1> QED BY <1>1 DEF Exists

\* A beat in the ring of a first client, or the ring emptied.
LEMMA RingStep ==
    ASSUME LoopInv, NEW c \in Clients, IsFirst(c), RingBufWrite(c) \/ ring' = [ring EXCEPT ![c] = 0]
    PROVE  \A d \in Clients : IsFirst(d) \/ ring'[d] = ring[d]
  BY DEF RingBufWrite, LoopInv, LoopTypeOK, BeatTypeOK

\* The calls of Loop.
LEMMA LoopKeepsServed ==
    ASSUME LoopInv, ServedInv, TakeEvent \/ StartPoll \/ ScanClient \/ LoopReturns
    PROVE  ServedInv'
<1>1. UNCHANGED <<sctp, ring, clientMgr, address, tpc>> /\ MgrTypeOK
  BY DEF TakeEvent, StartPoll, ScanClient, LoopReturns, mgrVars, LoopInv, LoopTypeOK
<1>2. EventsForFirst'
  <2>1. CASE TakeEvent
    BY <1>1, <2>1, EventsKeep DEF TakeEvent, UpdateEvent
  <2>2. CASE StartPoll \/ LoopReturns
    <3>1. que' = que /\ (evt' = evt \/ evt' = NoEvent)
      BY <2>2 DEF StartPoll, LoopReturns, queVars
    <3> QED BY <1>1, <3>1, EventsKeep
  <2>3. CASE ScanClient
    <3> DEFINE c == clientMgr[it]
    <3>1. c \in Clients
      BY <2>3, LenProperties, ElementOfSeq DEF ScanClient, LoopInv, LoopTypeOK, MgrTypeOK, MainTypeOK
    <3>2. sctp[c].cache # <<>> => IsFirst(c)
      BY <3>1, UntouchedIsIdle DEF ServedInv
    <3>3. SendCacheData(c) \in EventRecord /\ SendCacheData(c).client = c
      BY <3>1, PlainEvents DEF SendCacheData, Event
    <3>4. /\ evt' = evt
          /\ que' = que \/ (sctp[c].cache # <<>> /\ que' = Append(que, SendCacheData(c)))
      BY <2>3 DEF ScanClient
    <3> HIDE DEF c
    <3> QED BY <1>1, <3>2, <3>3, <3>4, EventsKeep
  <2> QED BY <2>1, <2>2, <2>3
<1> QED BY <1>1, <1>2, ServeFirstKeeps DEF Exists

\* The application's handlers touch the client of the event only.
LEMMA HandlersKeepServed ==
    ASSUME LoopInv, ServedInv,
           Echo2Client \/ SendClientCacheData \/ SendHeartBeat \/ IgnoreEvent
    PROVE  ServedInv'
<1>1. UNCHANGED <<clientMgr, address, tpc, evt, que>> /\ MgrTypeOK
  BY DEF Echo2Client, SendClientCacheData, SendHeartBeat, IgnoreEvent, mgrVars, queVars, LoopInv, LoopTypeOK
<1>2. EventsForFirst'
  BY <1>1, EventsKeep
<1>3. CASE IgnoreEvent
  BY <1>1, <1>2, <1>3, ServeFirstKeeps DEF IgnoreEvent, Exists
<1>4. CASE evt.type # "None"
  <2> DEFINE c == evt.client
  <2>1. c \in Clients /\ IsFirst(c) /\ Exists(c) /\ GoodObject(sctp[c])
    BY <1>4, FirstExists DEF LoopInv, LoopTypeOK, QueTypeOK, SctpInv, ServedInv, EventsForFirst
  <2>2. sctp[c].sock # "unborn"
    BY <2>1 DEF Exists
  <2> HIDE DEF c
  <2>3. CASE Echo2Client
    <3>1. PICK r \in SendResults(sctp[c]) : sctp' = [sctp EXCEPT ![c] = r]
      BY <2>3 DEF Echo2Client, c
    <3>2. r.sock # "unborn" /\ UNCHANGED ring
      BY <2>1, <2>2, <2>3, ExistsStays DEF Echo2Client
    <3> QED BY <1>1, <1>2, <2>1, <3>1, <3>2, ObjectStep, ServeFirstKeeps
  <2>4. CASE SendClientCacheData
    <3>1. PICK f \in FlushResults(sctp[c]) : sctp' = [sctp EXCEPT ![c] = f.s]
      BY <2>4 DEF SendClientCacheData, c
    <3>2. f.s.sock # "unborn" /\ UNCHANGED ring
      BY <2>1, <2>2, <2>4, ExistsStays DEF SendClientCacheData
    <3> QED BY <1>1, <1>2, <2>1, <3>1, <3>2, ObjectStep, ServeFirstKeeps
  <2>5. CASE SendHeartBeat
    <3>1. UNCHANGED sctp /\ ring' = [ring EXCEPT ![c] = 0]
      BY <2>5 DEF SendHeartBeat, c
    <3> QED BY <1>1, <1>2, <2>1, <3>1, RingStep, ServeFirstKeeps DEF Exists
  <2> QED BY <1>3, <2>3, <2>4, <2>5
<1> QED BY <1>3, <1>4 DEF Echo2Client, SendClientCacheData, SendHeartBeat

\* usrsctp's timer has nothing to do for a client without an association.
LEMMA TimerKeepsServed ==
    ASSUME LoopInv, ServedInv, Timer
    PROVE  ServedInv'
<1>1. UNCHANGED <<clientMgr, address, evt>> /\ MgrTypeOK
  BY DEF Timer, TimerWritesBeat, TimerLosesAssoc, TimerQueuesEvent, mgrVars, appVars, LoopInv, LoopTypeOK
<1>2. ASSUME NEW c \in Clients, TimerWritesBeat(c) PROVE ServedInv'
  <2>1. IsFirst(c)
    BY <1>2, UntouchedIsIdle DEF ServedInv, TimerWritesBeat
  <2>2. UNCHANGED <<sctp, que>> /\ tpc' = c /\ RingBufWrite(c)
    BY <1>2 DEF TimerWritesBeat, queVars
  <2>3. EventsForFirst'
    BY <1>1, <2>1, <2>2, EventsKeep
  <2> QED BY <1>1, <2>1, <2>2, <2>3, RingStep, ServeFirstKeeps DEF Exists
<1>3. ASSUME NEW c \in Clients, TimerLosesAssoc(c) PROVE ServedInv'
  <2>1. /\ UNCHANGED <<que, tpc, ring>> /\ Exists(c) /\ GoodObject(sctp[c])
        /\ sctp' = [sctp EXCEPT ![c] = AssocGone(sctp[c])]
    BY <1>3 DEF TimerLosesAssoc, AssocLost, queVars, LoopInv, SctpInv
  <2>2. EventsForFirst'
    BY <1>1, <2>1, EventsKeep
  <2>3. CASE IsFirst(c)
    <3>1. AssocGone(sctp[c]).sock # "unborn"
      BY <2>1, ExistsStays DEF Exists
    <3> QED BY <1>1, <2>1, <2>2, <2>3, <3>1, ObjectStep, ServeFirstKeeps
  <2>4. CASE Untouched(c)
    <3>1. \A d \in Clients : sctp'[d] = sctp[d]
      BY <2>1, <2>4, UntouchedIsIdle DEF LoopInv, LoopTypeOK, SctpTypeOK
    <3> QED BY <1>1, <2>1, <2>2, <3>1, ServeFirstKeeps DEF Exists
  <2> QED BY <2>3, <2>4 DEF ServedInv
<1>4. CASE TimerQueuesEvent
  <2>1. tpc # NoClient /\ que' = Append(que, HeartBeat(tpc)) /\ tpc' = NoClient /\ UNCHANGED <<sctp, ring>>
    BY <1>4 DEF TimerQueuesEvent
  <2>2. HeartBeat(tpc) \in EventRecord /\ HeartBeat(tpc).client = tpc
    BY <2>1, PlainEvents DEF LoopInv, LoopTypeOK, BeatTypeOK
  <2>3. IsFirst(tpc)
    BY <2>1 DEF ServedInv, EventsForFirst
  <2>4. EventsForFirst'
    BY <1>1, <2>1, <2>2, <2>3, EventsKeep
  <2> QED BY <1>1, <2>1, <2>4, ServeFirstKeeps DEF Exists
<1> QED BY <1>2, <1>3, <1>4 DEF Timer

\* A datagram goes to the first client of its address.
LEMMA DatagramKeepsServed ==
    ASSUME LoopInv, ServedInv, NEW a \in Addresses, NEW pkt \in Packets, NEW len \in Lengths,
           Datagram(a, pkt, len)
    PROVE  ServedInv'
<1> DEFINE c == FindClientByAddress(a)
           r == RecvResult(sctp[c], pkt)
<1>1. c \in Clients /\ IsFirst(c) /\ MgrTypeOK
  BY FindIsClient, FindIsFirst DEF LoopInv, LoopTypeOK, Datagram
<1>2. sctp' = [sctp EXCEPT ![c] = r] /\ UNCHANGED <<clientMgr, address, evt, tpc>>
  BY DEF Datagram, mgrVars, appVars
<1>3. r.sock # "unborn"
  BY <1>1, FirstExists, ExistsStays DEF Exists, LoopInv, SctpInv
<1>4. \/ PushClientRecvData(c, len) /\ UNCHANGED ring
      \/ RingBufWrite(c) /\ que' = Append(que, HeartBeat(c))
      \/ UNCHANGED <<que, ring>>
  BY DEF Datagram, queVars
<1> HIDE DEF c, r
<1>5. \A d \in Clients : IsFirst(d) \/ ring'[d] = ring[d]
  BY <1>1, <1>4, RingStep
<1>6. que' = que \/ \E e \in EventRecord : IsFirst(e.client) /\ que' = Append(que, e)
  <2>1. CASE PushClientRecvData(c, len)
    <3> DEFINE e == RecvClientData(c, pos, len % LenMod, Len(inbox) + 1)
    <3>1. que' = que \/ que' = Append(que, e)
      BY <2>1 DEF PushClientRecvData, queVars
    <3>2. len % LenMod \in Nat /\ pos \in Nat /\ Len(inbox) + 1 \in Nat
      BY LoopAssumption, LenProperties DEF LoopInv, LoopTypeOK, ArenaTypeOK, InboxTypeOK
    <3>3. e \in EventRecord /\ e.client = c
      BY <1>1, <3>2 DEF RecvClientData, Event, EventRecord, EventTypes
    <3> HIDE DEF e
    <3> QED BY <1>1, <3>1, <3>3
  <2>2. CASE que' = Append(que, HeartBeat(c))
    BY <1>1, <2>2, PlainEvents
  <2> QED BY <1>4, <2>1, <2>2
<1>7. EventsForFirst'
  BY <1>2, <1>6, EventsKeep
<1> QED BY <1>1, <1>2, <1>3, <1>5, <1>7, ObjectStep, ServeFirstKeeps

\* A registration puts a new object behind the others, so who was first of
\* an address still is.
LEMMA RegisterKeepsServed ==
    ASSUME LoopInv, ServedInv, NEW c \in Clients, NEW a \in Addresses, Register(c, a)
    PROVE  ServedInv'
<1>1. /\ clientMgr \in Seq(Clients) /\ address \in [Clients -> Addresses]
      /\ ~Exists(c) /\ clientMgr' = Append(clientMgr, c) /\ address' = [address EXCEPT ![c] = a]
      /\ UNCHANGED <<ring, que, evt, tpc>>
  BY DEF LoopInv, LoopTypeOK, MgrTypeOK, Register, queVars, appVars
<1>2. PICK s \in Constructed : sctp' = [sctp EXCEPT ![c] = s]
  BY DEF Register
<1>3. /\ Len(clientMgr) \in Nat /\ DOMAIN clientMgr = 1 .. Len(clientMgr)
      /\ DOMAIN clientMgr' = 1 .. Len(clientMgr) + 1
      /\ clientMgr'[Len(clientMgr) + 1] = c
      /\ \A i \in DOMAIN clientMgr : clientMgr'[i] = clientMgr[i] /\ clientMgr[i] \in Clients
  BY <1>1, LenProperties, ElementOfSeq, AppendProperties
<1>4. \A i \in DOMAIN clientMgr : clientMgr[i] # c
  BY <1>1 DEF ServedInv, RegisteredOnce
<1>5. /\ sctp'[c] = s /\ \A d \in Clients \ {c} : sctp'[d] = sctp[d] /\ address'[d] = address[d]
  BY <1>1, <1>2 DEF LoopInv, LoopTypeOK, SctpTypeOK
<1>6. s.sock # "unborn"
  BY DEF Constructed, NewSctp
<1>7. \A i \in DOMAIN clientMgr' : i \in DOMAIN clientMgr \/ i = Len(clientMgr) + 1
  BY <1>3
<1>8. RegisteredOnce'
  <2>1. \A i, j \in DOMAIN clientMgr' : clientMgr'[i] = clientMgr'[j] => i = j
    BY <1>3, <1>4, <1>7 DEF ServedInv, RegisteredOnce
  <2>2. \A i \in DOMAIN clientMgr' : sctp'[clientMgr'[i]].sock # "unborn"
    BY <1>3, <1>4, <1>5, <1>6, <1>7 DEF ServedInv, RegisteredOnce, Exists
  <2> QED BY <2>1, <2>2 DEF RegisteredOnce, Exists
<1>9. ASSUME NEW d, IsFirst(d) PROVE IsFirst(d)'
  <2>1. PICK i \in DOMAIN clientMgr :
          clientMgr[i] = d /\ \A j \in 1 .. i - 1 : address[clientMgr[j]] # address[d]
    BY <1>9 DEF IsFirst
  <2>2. \A j \in 1 .. i - 1 : j \in DOMAIN clientMgr
    BY <1>3
  <2>3. \A j \in DOMAIN clientMgr : address'[clientMgr'[j]] = address[clientMgr[j]]
    BY <1>3, <1>4, <1>5
  <2>4. address'[d] = address[d] /\ clientMgr'[i] = d /\ i \in DOMAIN clientMgr'
    BY <1>3, <1>4, <1>5, <2>1
  <2>5. \A j \in 1 .. i - 1 : address'[clientMgr'[j]] # address'[d]
    BY <2>1, <2>2, <2>3, <2>4
  <2> QED BY <2>4, <2>5 DEF IsFirst
<1>10. ~IsFirst(c)
  BY <1>4 DEF IsFirst
<1>11. \A d \in Clients : IsFirst(d)' \/ Untouched(d)'
  BY <1>1, <1>5, <1>9, <1>10 DEF ServedInv, Untouched
<1>12. EventsForFirst'
  BY <1>1, <1>9 DEF ServedInv, EventsForFirst
<1> QED BY <1>8, <1>11, <1>12 DEF ServedInv

\* No client is registered at the start.
LEMMA InitServedInv == LoopInit => ServedInv
<1> SUFFICES ASSUME LoopInit PROVE ServedInv
  OBVIOUS
<1>1. RegisteredOnce /\ EventsForFirst
  BY DEF LoopInit, RegisteredOnce, EventsForFirst, NoEvent, Event
<1>2. \A c \in Clients : Untouched(c)
  BY DEF LoopInit, SctpInit, Untouched
<1> QED BY <1>1, <1>2 DEF ServedInv

\* Every step of the two threads keeps it.
LEMMA NextServedInv == LoopInv /\ ServedInv /\ [LoopNext]_vars => ServedInv'
<1> SUFFICES ASSUME LoopInv, ServedInv, [LoopNext]_vars PROVE ServedInv'
  OBVIOUS
<1>1. CASE UNCHANGED vars \/ OtherInput
  <2>1. UNCHANGED <<sctp, ring, clientMgr, address, que, evt, tpc>>
    BY <1>1 DEF vars, OtherInput, mgrVars, queVars, appVars
  <2>2. EventsForFirst'
    BY <2>1, EventsKeep
  <2> QED BY <2>1, <2>2, ServeFirstKeeps DEF Exists, LoopInv, LoopTypeOK
<1>2. CASE Main
  BY <1>2, LoopKeepsServed, HandlersKeepServed DEF Main
<1>3. CASE Input
  BY <1>1, <1>3, DatagramKeepsServed, RegisterKeepsServed DEF Input
<1>4. CASE Timer
  BY <1>4, TimerKeepsServed
<1> QED BY <1>1, <1>2, <1>3, <1>4 DEF LoopNext

\* Of the clients registered with one address only the first is ever served,
\* for any number of clients, addresses and inputs: the others keep the object
\* their constructor made and an empty ring (FindClientByAddress).
THEOREM FirstIsServed == LoopSpec => []OnlyFirstServed
<1>1. LoopInv /\ ServedInv => OnlyFirstServed
  <2> SUFFICES ASSUME LoopInv, ServedInv,
                      NEW j \in DOMAIN clientMgr, NEW i \in 1 .. j - 1,
                      address[clientMgr[i]] = address[clientMgr[j]]
               PROVE  sctp[clientMgr[j]] \in Constructed /\ ring[clientMgr[j]] = 0
    BY DEF OnlyFirstServed
  <2>1. clientMgr[j] \in Clients /\ Exists(clientMgr[j])
    BY LenProperties, ElementOfSeq DEF LoopInv, LoopTypeOK, MgrTypeOK, ServedInv, RegisteredOnce
  <2>2. ~IsFirst(clientMgr[j])
    BY DEF IsFirst, ServedInv, RegisteredOnce
  <2>3. Untouched(clientMgr[j])
    BY <2>1, <2>2 DEF ServedInv
  <2>4. sctp[clientMgr[j]] # NewSctp("unborn", FALSE)
    BY <2>1 DEF Exists, NewSctp
  <2> QED BY <2>3, <2>4 DEF Untouched
<1> QED BY <1>1, InitServedInv, NextServedInv, LoopInvariant, PTL DEF LoopSpec
=============================================================================
