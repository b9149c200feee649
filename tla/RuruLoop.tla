------------------------------ MODULE RuruLoop ------------------------------
(***************************************************************************)
(* RuruLoop and the application that drives it (EchoServer).               *)
(*                                                                         *)
(* The application calls Loop(evt) again and again and handles evt         *)
(* whenever Loop returns true.  Loop takes one event off que_ if there is  *)
(* one; otherwise it resets the arena that holds the events' data, looks   *)
(* for clients with cached messages and polls the sockets, which puts new  *)
(* events on que_.  The application's evt keeps its value when Loop        *)
(* returns true without having taken an event.                             *)
(*                                                                         *)
(* The main thread is pc, evt and everything it calls; usrsctp's timer     *)
(* thread is tpc, which puts heart beats into a client's ring and an event *)
(* on que_.  Operations on que_ are atomic here.  A ring is the number of  *)
(* beats in it: RuruRingBuf says that it is a bounded queue.               *)
(*                                                                         *)
(* RuruSctp's operators say what the SCTP end of a client does.            *)
(***************************************************************************)
EXTENDS RuruSctp, Integers

CONSTANTS
    Addresses,      \* remote addresses
    NoClient,       \* the null client pointer
    ArenaCap,       \* bytes in the arena (1 << 20)
    LenMod,         \* values of RuruEvent::length, a uint16_t (2^16)
    Lengths,        \* lengths of received messages
    RingCap,        \* cap of heartBeatRing (100)
    Roll,           \* ScanClientCacheData scans every Roll-th time (100)
    MaxInputs,      \* bound: datagrams and HTTP requests
    MaxBeats        \* bound: heart beats of the timer thread

ASSUME LoopAssumption ==
    /\ NoClient \notin Clients
    /\ Addresses # {}
    /\ ArenaCap \in Nat \ {0}
    /\ LenMod \in Nat \ {0}
    /\ Lengths \subseteq Nat
    /\ RingCap \in Nat \ {0}
    /\ Roll \in Nat \ {0}
    /\ MaxInputs \in Nat
    /\ MaxBeats \in Nat

VARIABLES
    clientMgr,  \* clientMgr_: client objects in the order of registration
    address,    \* address[c]: the member of that name
    que,        \* que_
    mem, pos,   \* the arena: its bytes and the first free one
    evt,        \* the application's evt
    fresh,      \* history: the last call of Loop took evt off que_
    pc,         \* main thread: about to "call" Loop, in "scan" (ScanClientCacheData)
                \* or "poll" (EpollWait) inside Loop, at the "switch" on evt
    it,         \* the scan's iterator into clientMgr_, 0 outside the scan
    bHaveData,  \* what Loop returns if EpollWait finds nothing more
    count,      \* the static count of ScanClientCacheData, modulo Roll
    ring,       \* ring[c]: beats in heartBeatRing
    tpc,        \* timer thread: client whose beat is written, event not queued
    inbox,      \* history: messages given to OnSctpInboundPacket
    echoed,     \* history: messages given to SendUsrSctpData
    inputs,     \* number of inputs so far
    beats       \* number of heart beats of the timer so far

queVars == <<que, mem, pos>>
appVars == <<evt, fresh, pc, it>>
historyVars == <<inbox, echoed>>
mgrVars == <<clientMgr, address>>
vars == <<sctp, wild, clientMgr, address, que, mem, pos, evt, fresh, pc, it,
          bHaveData, count, ring, tpc, inbox, echoed, inputs, beats>>

-----------------------------------------------------------------------------
(* Events.                                                                 *)

\* struct RuruEvent.  off is evt.data as an offset into the arena; id tells
\* which message of inbox the event was made for.
Event(type, c, off, length, id) ==
    [type |-> type, client |-> c, off |-> off, length |-> length, id |-> id]

NoEvent == Event("None", NoClient, 0, 0, 0)
HeartBeat(c) == Event("HeartBeat", c, 0, 0, 0)
SendCacheData(c) == Event("SendCacheData", c, 0, 0, 0)
RecvClientData(c, off, length, id) == Event("RecvClientData", c, off, length, id)

\* Faulty variant: the last client registered with that address.
FindLastByAddress(a) ==
    LET hits == {i \in DOMAIN clientMgr : address[clientMgr[i]] = a}
    IN  IF hits = {} THEN NoClient
        ELSE clientMgr[CHOOSE i \in hits : \A j \in hits : j <= i]

\* FindClientByAddress: the first client registered with that address.
FindClientByAddress(a) ==
    LET hits == {i \in DOMAIN clientMgr : address[clientMgr[i]] = a}
    IN  IF hits = {} THEN NoClient
        ELSE clientMgr[CHOOSE i \in hits : \A j \in hits : i <= j]

LoopInit ==
    /\ SctpInit
    /\ clientMgr = <<>>
    /\ address = [c \in Clients |-> CHOOSE a \in Addresses : TRUE]
    /\ que = <<>>
    /\ mem = [i \in 0 .. ArenaCap - 1 |-> 0]
    /\ pos = 0
    /\ evt = NoEvent
    /\ fresh = FALSE
    /\ pc = "call"
    /\ it = 0
    /\ bHaveData = FALSE
    /\ count = 0
    /\ ring = [c \in Clients |-> 0]
    /\ tpc = NoClient
    /\ inbox = <<>>
    /\ echoed = <<>>
    /\ inputs = 0
    /\ beats = 0

-----------------------------------------------------------------------------
(* Loop: UpdateEvent and ScanClientCacheData.                              *)

\* Faulty variant: the arena is reset before que_ is looked at.
UpdateEventResetsFirst ==
    evt' = Head(que) /\ que' = Tail(que) /\ pos' = 0 /\ UNCHANGED mem

\* Faulty variant: the newest event is taken.
UpdateEventNewest ==
    evt' = que[Len(que)] /\ que' = SubSeq(que, 1, Len(que) - 1) /\ UNCHANGED <<mem, pos>>

\* Faulty variant: the events behind the front are thrown away.
UpdateEventClears ==
    evt' = Head(que) /\ que' = <<>> /\ UNCHANGED <<mem, pos>>

\* UpdateEvent with an event on que_.
UpdateEvent ==
    evt' = Head(que) /\ que' = Tail(que) /\ UNCHANGED <<mem, pos>>

\* Loop returns true at once when UpdateEvent does.
TakeEvent ==
    /\ pc = "call"
    /\ que # <<>>
    /\ UpdateEvent
    /\ fresh' = TRUE
    /\ pc' = "switch"
    /\ UNCHANGED <<sctp, wild, mgrVars, it, bHaveData, count, ring, tpc, historyVars,
                   inputs, beats>>

\* Faulty variant: count sticks instead of coming round.
NextCountSticks == IF count < Roll - 1 THEN count + 1 ELSE count

\* count++, of which only the remainder by Roll matters.
NextCount == (count + 1) % Roll

\* UpdateEvent with que_ empty resets the arena; every Roll-th time
\* ScanClientCacheData then goes through the clients.
StartPoll ==
    /\ pc = "call"
    /\ que = <<>>
    /\ pos' = 0
    /\ bHaveData' = FALSE
    /\ count' = NextCount
    /\ IF count = 0 /\ clientMgr # <<>>
       THEN pc' = "scan" /\ it' = 1
       ELSE pc' = "poll" /\ UNCHANGED it
    /\ UNCHANGED <<sctp, wild, mgrVars, que, mem, evt, fresh, ring, tpc, historyVars,
                   inputs, beats>>

\* One round of ScanClientCacheData: an event for a client with cached
\* messages.
ScanClient ==
    LET c == clientMgr[it]
        cached == sctp[c].cache # <<>>
    IN  /\ pc = "scan"
        /\ que' = IF cached THEN Append(que, SendCacheData(c)) ELSE que
        /\ bHaveData' = (bHaveData \/ cached)
        /\ IF it < Len(clientMgr)
           THEN it' = it + 1 /\ UNCHANGED pc
           ELSE it' = 0 /\ pc' = "poll"
        /\ UNCHANGED <<sctp, wild, mgrVars, mem, pos, evt, fresh, count, ring, tpc,
                       historyVars, inputs, beats>>

-----------------------------------------------------------------------------
(* EpollWait: what the sockets hold, one input at a time.                  *)

\* ArenaAlloc(blockSize) has room.
ArenaFits(blockSize) == blockSize > 0 /\ ArenaCap - pos >= blockSize

\* OnSctpInboundPacket -> PushClientRecvData: copy the message into the
\* arena and queue an event for it; without room in the arena it is dropped.
PushClientRecvData(c, len) ==
    LET id == Len(inbox) + 1
    IN  /\ inbox' = Append(inbox, [client |-> c, len |-> len, kept |-> ArenaFits(len)])
        /\ IF ArenaFits(len)
           THEN /\ mem' = [i \in DOMAIN mem |-> IF i \in pos .. pos + len - 1 THEN id ELSE mem[i]]
                /\ pos' = pos + len
                /\ que' = Append(que, RecvClientData(c, pos, len % LenMod, id))
           ELSE UNCHANGED queVars

\* Faulty variant: no test for a full ring.
RingBufWriteUnchecked(c) == ring' = [ring EXCEPT ![c] = @ + 1]

\* RingBufWrite: refused when RingCap - 1 beats are in the ring.
RingBufWrite(c) ==
    ring' = [ring EXCEPT ![c] = IF @ < RingCap - 1 THEN @ + 1 ELSE @]

\* A datagram for a client object that reaches RecvUsrSctpData.  A message
\* in it comes back through OnSctpInboundPacket, a heart beat is answered
\* through OnSctpOutboundPacket, which writes to the ring and queues an event.
Datagram(a, pkt, len) ==
    LET c == FindClientByAddress(a)
        s == sctp[c]
    IN  /\ pc = "poll"
        /\ inputs < MaxInputs
        /\ c # NoClient
        /\ sctp' = [sctp EXCEPT ![c] = RecvResult(s, pkt)]
        /\ wild' \in IF AcceptsFreedSocket(s) THEN BOOLEAN ELSE {FALSE}
        /\ IF Delivers(RecvResult(s, pkt), pkt)
           THEN PushClientRecvData(c, len) /\ UNCHANGED ring
           ELSE IF pkt = "heartbeat" /\ RecvResult(s, pkt).assoc \in {"pending", "up"}
           THEN /\ RingBufWrite(c)
                /\ que' = Append(que, HeartBeat(c))
                /\ UNCHANGED <<mem, pos, inbox>>
           ELSE UNCHANGED <<queVars, ring, inbox>>
        /\ bHaveData' = TRUE
        /\ inputs' = inputs + 1
        /\ UNCHANGED <<mgrVars, appVars, count, tpc, echoed, beats>>

\* HttpRequestHandle with a good request: a new client with that address.
Register(c, a) ==
    /\ pc = "poll"
    /\ inputs < MaxInputs
    /\ ~Exists(c)
    /\ \E s \in Constructed : sctp' = [sctp EXCEPT ![c] = s]
    /\ address' = [address EXCEPT ![c] = a]
    /\ clientMgr' = Append(clientMgr, c)
    /\ bHaveData' = TRUE
    /\ inputs' = inputs + 1
    /\ UNCHANGED <<wild, queVars, appVars, count, ring, tpc, historyVars, beats>>

\* Everything else EpollWait reads and that counts as data: a datagram from
\* an unknown address or one that carries no SCTP packet, a connection that
\* is accepted, an HTTP request that is incomplete or bad.
OtherInput ==
    /\ pc = "poll"
    /\ inputs < MaxInputs
    /\ bHaveData' = TRUE
    /\ inputs' = inputs + 1
    /\ UNCHANGED <<sctp, wild, mgrVars, queVars, appVars, count, ring, tpc,
                   historyVars, beats>>

\* EpollWait is done.  With data Loop returns true and evt is as it was;
\* without, the inner while of main ends and evt is made anew.
LoopReturns ==
    /\ pc = "poll"
    /\ fresh' = FALSE
    /\ IF bHaveData
       THEN pc' = "switch" /\ UNCHANGED evt
       ELSE pc' = "call" /\ evt' = NoEvent
    /\ UNCHANGED <<sctp, wild, mgrVars, it, queVars, bHaveData, count, ring, tpc,
                   historyVars, inputs, beats>>

-----------------------------------------------------------------------------
(* The application's switch (evt.type).                                    *)

\* The bytes evt.data and evt.length name.
EventBytes(e) == [k \in 1 .. e.length |-> mem[e.off + k - 1]]

\* EVT_RecvClientData: Echo2Client.
Echo2Client ==
    /\ pc = "switch"
    /\ evt.type = "RecvClientData"
    /\ \E s \in SendResults(sctp[evt.client]) :
          sctp' = [sctp EXCEPT ![evt.client] = s]
    /\ echoed' = Append(echoed, [id |-> evt.id, client |-> evt.client,
                                 bytes |-> EventBytes(evt), fresh |-> fresh])
    /\ pc' = "call"
    /\ UNCHANGED <<wild, mgrVars, it, queVars, evt, fresh, bHaveData, count, ring, tpc,
                   inbox, inputs, beats>>

\* EVT_SendCacheData: SendClientCacheData.
SendClientCacheData ==
    /\ pc = "switch"
    /\ evt.type = "SendCacheData"
    /\ \E f \in FlushResults(sctp[evt.client]) :
          sctp' = [sctp EXCEPT ![evt.client] = f.s]
    /\ pc' = "call"
    /\ UNCHANGED <<wild, mgrVars, it, queVars, evt, fresh, bHaveData, count, ring, tpc,
                   historyVars, inputs, beats>>

\* EVT_HeartBeat: SendHeartBeat -> ClientSendHeartBeatData empties the ring.
SendHeartBeat ==
    /\ pc = "switch"
    /\ evt.type = "HeartBeat"
    /\ ring' = [ring EXCEPT ![evt.client] = 0]
    /\ pc' = "call"
    /\ UNCHANGED <<sctp, wild, mgrVars, it, queVars, evt, fresh, bHaveData, count, tpc,
                   historyVars, inputs, beats>>

\* default: break;
IgnoreEvent ==
    /\ pc = "switch"
    /\ evt.type = "None"
    /\ pc' = "call"
    /\ UNCHANGED <<sctp, wild, mgrVars, it, queVars, evt, fresh, bHaveData, count, ring,
                   tpc, historyVars, inputs, beats>>

-----------------------------------------------------------------------------
(* usrsctp's timer thread: OnSctpOutboundPacket with a heart beat, in two  *)
(* steps, and the loss of an association.                                  *)

\* The code copies as many bytes as usrsctp says into a record of 1024 and does
\* not compare the two.  The model has beats without a length: that every one
\* fits is an assumption, here and in Datagram.
TimerWritesBeat(c) ==
    /\ tpc = NoClient
    /\ beats < MaxBeats
    /\ sctp[c].assoc \in {"pending", "up"}
    /\ RingBufWrite(c)
    /\ tpc' = c
    /\ beats' = beats + 1
    /\ UNCHANGED <<sctp, wild, mgrVars, queVars, appVars, bHaveData, count,
                   historyVars, inputs>>

\* Faulty variant: the event is only queued for an idle loop.
TimerQueuesEventIfIdle ==
    /\ tpc # NoClient
    /\ que' = IF que = <<>> THEN <<HeartBeat(tpc)>> ELSE que
    /\ tpc' = NoClient
    /\ UNCHANGED <<sctp, wild, mgrVars, mem, pos, appVars, bHaveData, count, ring,
                   historyVars, inputs, beats>>

TimerQueuesEvent ==
    /\ tpc # NoClient
    /\ que' = Append(que, HeartBeat(tpc))
    /\ tpc' = NoClient
    /\ UNCHANGED <<sctp, wild, mgrVars, mem, pos, appVars, bHaveData, count, ring,
                   historyVars, inputs, beats>>

TimerLosesAssoc(c) ==
    /\ AssocLost(c)
    /\ UNCHANGED <<mgrVars, queVars, appVars, bHaveData, count, ring, tpc, historyVars,
                   inputs, beats>>

-----------------------------------------------------------------------------
Main ==
    /\ ~wild
    /\ \/ TakeEvent \/ StartPoll \/ ScanClient \/ LoopReturns
       \/ Echo2Client \/ SendClientCacheData \/ SendHeartBeat \/ IgnoreEvent

Input ==
    /\ ~wild
    /\ \/ \E a \in Addresses, pkt \in Packets, len \in Lengths : Datagram(a, pkt, len)
       \/ \E c \in Clients, a \in Addresses : Register(c, a)
       \/ OtherInput

Timer ==
    /\ ~wild
    /\ \/ \E c \in Clients : TimerWritesBeat(c) \/ TimerLosesAssoc(c)
       \/ TimerQueuesEvent

LoopNext == Main \/ Input \/ Timer

LoopSpec == LoopInit /\ [][LoopNext]_vars

\* The process keeps running: the main thread never stops calling Loop and a
\* callback of the timer thread ends.  The last conjunct is about the peer:
\* while it is there it takes data, so of infinitely many flushes for one
\* client some empties the cache.
FairLoopSpec ==
    /\ LoopSpec
    /\ WF_vars(Main)
    /\ WF_vars(~wild /\ TimerQueuesEvent)
    /\ \A c \in Clients :
          SF_vars(~wild /\ SendClientCacheData /\ evt.client = c /\ sctp'[c].cache = <<>>)

(***************************************************************************)
(* Properties.                                                             *)
(***************************************************************************)

EventTypes == {"None", "RecvClientData", "HeartBeat", "SendCacheData"}

EventRecord ==
    [type : EventTypes, client : Clients \cup {NoClient}, off : Nat, length : Nat, id : Nat]

MgrTypeOK ==
    /\ clientMgr \in Seq(Clients)
    /\ address \in [Clients -> Addresses]

QueTypeOK ==
    /\ que \in Seq(EventRecord)
    /\ \A i \in DOMAIN que : que[i].client # NoClient
    /\ evt \in EventRecord
    /\ evt.type # "None" => evt.client # NoClient

ArenaTypeOK ==
    /\ mem \in [0 .. ArenaCap - 1 -> Nat]
    /\ pos \in 0 .. ArenaCap

FlagTypeOK == fresh \in BOOLEAN /\ bHaveData \in BOOLEAN

MainTypeOK ==
    /\ pc \in {"call", "scan", "poll", "switch"}
    /\ it \in 0 .. Len(clientMgr)
    /\ pc = "scan" => it # 0
    /\ count \in 0 .. Roll - 1

BeatTypeOK ==
    /\ ring \in [Clients -> 0 .. RingCap - 1]
    /\ tpc \in Clients \cup {NoClient}

InboxTypeOK == inbox \in Seq([client : Clients, len : Nat, kept : BOOLEAN])

\* Every variable keeps its type: pos stays inside the arena, the iterator
\* inside clientMgr_, no ring holds more than cap - 1 beats, and only an event
\* without a type is without a client, so no handler of the application
\* dereferences a null client.
LoopTypeOK ==
    SctpTypeOK /\ MgrTypeOK /\ QueTypeOK /\ ArenaTypeOK /\ FlagTypeOK /\ MainTypeOK
        /\ BeatTypeOK /\ InboxTypeOK

\* The event the application is handling, if this Loop call took it off que_.
Handling == pc = "switch" /\ fresh

\* The bytes of e's message are its own in an arena with bytes m, filled up
\* to p.
Intact(e, m, p) ==
    e.type = "RecvClientData" =>
        /\ e.off + e.length <= p
        /\ \A i \in e.off .. e.off + e.length - 1 : m[i] = e.id

QueueIntact == \A i \in DOMAIN que : Intact(que[i], mem, pos)

\* The arena is reset while no event points into it: the bytes of every
\* message still on que_, and of the one being handled, are its own
\* (UpdateEvent, ArenaAlloc, PushClientRecvData).
LiveDataIntact == QueueIntact /\ (Handling => Intact(evt, mem, pos))

IsRecv(e) == e.type = "RecvClientData"

\* The messages that were handled with their own event, the one that is being
\* handled, and those on que_.
Handled == {k \in DOMAIN echoed : echoed[k].fresh}
Waiting == {i \in DOMAIN que : IsRecv(que[i])}
HandledIds == {echoed[k].id : k \in Handled}
CurrentIds == IF Handling /\ IsRecv(evt) THEN {evt.id} ELSE {}
WaitingIds == {que[i].id : i \in Waiting}

Rising(s, places) == \A i, j \in places : i < j => s[i].id < s[j].id
Precede(A, B) == \A m \in A, n \in B : m < n

\* Received messages reach the application in the order they came, each
\* exactly once with its event, whatever heart beats and cache events come
\* between; only those the arena had no room for are missing
\* (PushClientRecvData, UpdateEvent).
HandledInOrder ==
    /\ HandledIds \cup CurrentIds \cup WaitingIds = {n \in DOMAIN inbox : inbox[n].kept}
    /\ Rising(echoed, Handled) /\ Rising(que, Waiting)
    /\ Precede(HandledIds, CurrentIds \cup WaitingIds)
    /\ Precede(CurrentIds, WaitingIds)

\* No heart beat is left behind in a ring: an event that makes the loop
\* empty the ring is on its way, also while the timer thread is between its
\* write and its push (OnSctpOutboundPacket, ClientSendHeartBeatData).
BeatHasEvent ==
    \A c \in Clients : ring[c] > 0 =>
        \/ tpc = c
        \/ \E i \in DOMAIN que : que[i] = HeartBeat(c)
        \/ pc = "switch" /\ evt = HeartBeat(c)

\* Of several clients registered with one address only the first is ever
\* served: the others stay as their constructor left them, for good
\* (FindClientByAddress; nothing removes a client from clientMgr_).
OnlyFirstServed ==
    \A j \in DOMAIN clientMgr : \A i \in 1 .. j - 1 :
        address[clientMgr[i]] = address[clientMgr[j]] =>
            /\ sctp[clientMgr[j]] \in Constructed
            /\ ring[clientMgr[j]] = 0

\* Every message the arena had room for is handled by the application, with
\* the event made for it (Loop, UpdateEvent).
EveryKeptEchoed ==
    \A n \in 1 .. MaxInputs :
        (n \in DOMAIN inbox /\ inbox[n].kept)
            ~> (wild \/ \E k \in DOMAIN echoed : echoed[k].id = n /\ echoed[k].fresh)

\* Every heart beat in a ring is sent (OnSctpOutboundPacket, SendHeartBeat).
EveryBeatAnswered == \A c \in Clients : (ring[c] > 0) ~> (wild \/ ring[c] = 0)

\* Cached messages are sent without further messages from the client: the
\* scan of the clients finds them, as long as the association is good
\* (ScanClientCacheData, SendSctpCacheData).
CacheDrains ==
    \A c \in Clients :
        (sctp[c].cache # <<>> /\ sctp[c].bHandShakeDone)
            ~> (wild \/ sctp[c].cache = <<>> \/ ~sctp[c].bHandShakeDone)

\* The echo server answers each message once, with the bytes it received
\* (Echo2Client).  Loop may return true with the evt of an earlier call, and
\* the application then handles that event again, after the arena was reset.
EchoedOnce ==
    \A k \in DOMAIN echoed :
        /\ \A j \in 1 .. k - 1 : echoed[j].id # echoed[k].id
        /\ \A i \in DOMAIN echoed[k].bytes : echoed[k].bytes[i] = echoed[k].id
=============================================================================
