------------------------------ MODULE RuruSctp ------------------------------
(***************************************************************************)
(* RuruSctp: the SCTP end of one client, and the client's cache of         *)
(* messages that usrsctp could not take yet.                               *)
(*                                                                         *)
(* sctp[c] stands for the RuruSctp object of client c together with        *)
(* RuruClient::cache and with what usrsctp (external) knows of the         *)
(* association.  A message is a number: the n-th message the application   *)
(* gives to SendUsrSctpData for c is message n.  Everything here runs on   *)
(* the loop's thread, except AssocLost.                                    *)
(*                                                                         *)
(* Each operation is a set of results, one for each answer usrsctp may     *)
(* give, so that RuruLoop can build its handlers from them.                *)
(***************************************************************************)
EXTENDS Naturals, Sequences

CONSTANTS
    Clients,    \* the client objects
    MaxMsgs     \* bound: messages sent to one client in SctpSpec

ASSUME MaxMsgsAssumption == MaxMsgs \in Nat

VARIABLES
    sctp,       \* sctp[c]: the RuruSctp object of client c
    wild        \* usrsctp_accept read a freed socket and did not answer null:
                \* nothing is modelled after that

sctpVars == <<sctp, wild>>

(***************************************************************************)
(* sock            what sock_ points to: nothing, the listening socket,    *)
(*                 the accepted one, or one that usrsctp_close has freed   *)
(* bHandShakeDone  the member of that name                                 *)
(* assoc           the association in usrsctp: none, waiting in the accept *)
(*                 queue, up, or down (aborted, shut down or timed out)    *)
(* cache           RuruClient::cache                                       *)
(* wire            history: the messages usrsctp_sendv did not refuse      *)
(* lost            history: messages dropped after a failed usrsctp_sendv  *)
(* next            number of the next message given to SendUsrSctpData     *)
(***************************************************************************)
SctpObject ==
    [sock : {"unborn", "null", "listening", "accepted", "closed"},
     bHandShakeDone : BOOLEAN,
     assoc : {"none", "pending", "up", "down"},
     cache : Seq(Nat),
     wire : Seq(Nat),
     lost : SUBSET Nat,
     next : Nat \ {0}]

NewSctp(sock, done) ==
    [sock |-> sock, bHandShakeDone |-> done, assoc |-> "none",
     cache |-> <<>>, wire |-> <<>>, lost |-> {}, next |-> 1]

\* The constructor.  When usrsctp_socket, ConfigureSctpSocket or
\* usrsctp_listen fails it returns with sock_ null and leaves
\* bHandShakeDone unset, so it may hold either value.
Constructed ==
    {NewSctp("listening", FALSE)} \cup {NewSctp("null", done) : done \in BOOLEAN}

-----------------------------------------------------------------------------
(* usrsctp_sendv and usrsctp_close.                                        *)

\* usrsctp_sendv can take a message.  On any other socket it fails with an
\* error that is not EAGAIN.
CanSend(s) == s.sock = "accepted" /\ s.assoc = "up"

\* Faulty variant: bHandShakeDone survives the close of a socket.
CloseSockKeepsFlag(s) ==
    [s EXCEPT !.sock = IF @ = "null" THEN @ ELSE "closed",
              !.assoc = IF @ = "up" THEN "down" ELSE @,
              !.bHandShakeDone = s.sock # "null"]

\* usrsctp_close(sock_); bHandShakeDone = false;  sock_ keeps its value.
\* usrsctp_close does nothing with a null socket.
CloseSock(s) ==
    [s EXCEPT !.sock = IF @ = "null" THEN @ ELSE "closed",
              !.assoc = IF @ = "up" THEN "down" ELSE @,
              !.bHandShakeDone = FALSE]

\* The first n messages of the cache are sent and popped.
SendFront(s, n) ==
    [s EXCEPT !.wire = @ \o SubSeq(s.cache, 1, n),
              !.cache = SubSeq(@, n + 1, Len(@))]

-----------------------------------------------------------------------------
(* SendSctpCacheData: send from the front until the cache is empty or      *)
(* usrsctp_sendv fails.  A full send buffer leaves the rest in the cache;  *)
(* any other error closes the socket as well.                              *)

Flushed(s, ret) == [s |-> s, ret |-> ret]

\* How many messages can be sent before the first failure.
SendCounts(s) == IF CanSend(s) THEN 0 .. Len(s.cache) ELSE {0}

FlushResults(s) ==
    IF ~s.bHandShakeDone
    THEN {Flushed(s, FALSE)}
    ELSE {Flushed(SendFront(s, n), TRUE) : n \in SendCounts(s) \cap {Len(s.cache)}}
         \cup {Flushed(SendFront(s, n), FALSE) :
                  n \in IF CanSend(s) THEN SendCounts(s) \ {Len(s.cache)} ELSE {}}
         \cup {Flushed(CloseSock(SendFront(s, n)), FALSE) :
                  n \in SendCounts(s) \ {Len(s.cache)}}

(* SendUsrSctpData(msg): flush the cache first; if that did not empty it,  *)
(* queue msg behind it.                                                    *)

PushMsg2ClientCache(s) == [s EXCEPT !.cache = Append(@, s.next), !.next = @ + 1]

\* usrsctp_sendv answers with a number of bytes that is not negative, and the
\* code asks for no more: it may have taken only the beginning of the message.
SendNow(s) == [s EXCEPT !.wire = Append(@, s.next), !.next = @ + 1]

DropNow(s) == [CloseSock(s) EXCEPT !.lost = @ \cup {s.next}, !.next = @ + 1]

\* Faulty variant: the message is sent even when the cache is not empty.
SendResultsOvertake(s) ==
    UNION {IF CanSend(f.s) THEN {SendNow(f.s)} ELSE {PushMsg2ClientCache(f.s)} :
              f \in FlushResults(s)}

\* Faulty variant: a message that meets a full send buffer is not cached.
SendResultsForget(s) ==
    UNION {IF ~f.ret THEN {[f.s EXCEPT !.next = @ + 1]}
           ELSE {DropNow(f.s)} \cup (IF CanSend(f.s) THEN {SendNow(f.s)} ELSE {}) :
              f \in FlushResults(s)}

SendResults(s) ==
    UNION {IF ~f.ret
           THEN {PushMsg2ClientCache(f.s)}
           ELSE {DropNow(f.s)}
                \cup (IF CanSend(f.s)
                      THEN {SendNow(f.s), PushMsg2ClientCache(f.s)}
                      ELSE {}) :
              f \in FlushResults(s)}

-----------------------------------------------------------------------------
(* RecvUsrSctpData: before the handshake is done, try to accept; then pass *)
(* the packet to usrsctp_conninput.                                        *)

\* usrsctp_accept answers with the association that waits in the queue of
\* the listening socket; on every other live socket it answers null, and on a
\* freed one this is the case that it answers null (see AcceptsFreedSocket).
Accept(s) ==
    IF ~s.bHandShakeDone /\ s.sock = "listening" /\ s.assoc = "pending"
    THEN [s EXCEPT !.sock = "accepted", !.assoc = "up", !.bHandShakeDone = TRUE]
    ELSE s

\* usrsctp_accept reads the freed socket sock_ still points to.  Besides null
\* the call may do anything: the process dies, or the memory holds the
\* listening socket of a client made since, whose association is then taken
\* and sets bHandShakeDone.  Of these the model only says that they happen:
\* wild is set, and no step follows.
AcceptsFreedSocket(s) == ~s.bHandShakeDone /\ s.sock = "closed"

AssocGone(s) ==
    [s EXCEPT !.assoc = IF @ = "up" THEN "down"
                        ELSE IF @ = "pending" THEN "none" ELSE @]

\* What usrsctp does with a packet, as far as this object can tell: the
\* packet that completes the SCTP handshake, with or without a message in
\* it, one with a message or a heart beat, one that ends the association,
\* and all others.
Packets == {"cookie", "cookieData", "data", "heartbeat", "abort", "other"}

ConnInput(s, pkt) ==
    CASE pkt \in {"cookie", "cookieData"} /\ s.sock = "listening" /\ s.assoc = "none" ->
            [s EXCEPT !.assoc = "pending"]
      [] pkt = "abort" -> AssocGone(s)
      [] OTHER -> s

\* OnSctpInboundPacket is called with a message.
Delivers(s, pkt) == pkt \in {"data", "cookieData"} /\ s.assoc \in {"pending", "up"}

RecvResult(s, pkt) == ConnInput(Accept(s), pkt)

-----------------------------------------------------------------------------
(* The object on its own: an application that calls the three operations   *)
(* in any order.                                                           *)

Exists(c) == sctp[c].sock # "unborn"

SctpInit ==
    /\ sctp = [c \in Clients |-> NewSctp("unborn", FALSE)]
    /\ wild = FALSE

Construct(c) ==
    /\ ~Exists(c)
    /\ \E s \in Constructed : sctp' = [sctp EXCEPT ![c] = s]
    /\ UNCHANGED wild

SendSctpCacheData(c) ==
    /\ Exists(c)
    /\ \E f \in FlushResults(sctp[c]) : sctp' = [sctp EXCEPT ![c] = f.s]
    /\ UNCHANGED wild

SendUsrSctpData(c) ==
    /\ Exists(c)
    /\ \E s \in SendResults(sctp[c]) : sctp' = [sctp EXCEPT ![c] = s]
    /\ UNCHANGED wild

RecvUsrSctpData(c, pkt) ==
    /\ Exists(c)
    /\ sctp' = [sctp EXCEPT ![c] = RecvResult(@, pkt)]
    /\ wild' \in IF AcceptsFreedSocket(sctp[c]) THEN BOOLEAN ELSE {FALSE}

\* usrsctp's timer gives the peer up.
AssocLost(c) ==
    /\ Exists(c)
    /\ sctp' = [sctp EXCEPT ![c] = AssocGone(@)]
    /\ UNCHANGED wild

SctpNext ==
    /\ ~wild
    /\ \E c \in Clients :
        \/ Construct(c)
        \/ SendSctpCacheData(c)
        \/ sctp[c].next <= MaxMsgs /\ SendUsrSctpData(c)
        \/ \E pkt \in Packets : RecvUsrSctpData(c, pkt)
        \/ AssocLost(c)

SctpSpec == SctpInit /\ [][SctpNext]_sctpVars

(***************************************************************************)
(* Properties.                                                             *)
(***************************************************************************)

\* What bHandShakeDone and usrsctp's association say about sock_.
SockConsistent(s) ==
    /\ s.assoc = "pending" => s.sock = "listening"
    /\ s.assoc = "up" => s.sock = "accepted"
    /\ s.sock \in {"unborn", "listening"} => ~s.bHandShakeDone

\* Every RuruSctp object keeps its type, and sock_ is the socket of the live
\* association: the accepted one replaces the listening one as soon as
\* usrsctp_accept returns it (RecvUsrSctpData).
SctpTypeOK ==
    /\ sctp \in [Clients -> SctpObject]
    /\ \A c \in Clients : SockConsistent(sctp[c])
    /\ wild \in BOOLEAN

Pipeline(s) == s.wire \o s.cache

OrderedObject(s) ==
    \A i, j \in 1 .. Len(Pipeline(s)) : i < j => Pipeline(s)[i] < Pipeline(s)[j]

\* Messages reach usrsctp in the order of the SendUsrSctpData calls and at
\* most once, whatever mix of full buffers, errors and cache flushes comes
\* between (SendUsrSctpData, SendSctpCacheData, PushMsg2ClientCache).
SendOrder == \A c \in Clients : OrderedObject(sctp[c])

InPipeline(s) == {Pipeline(s)[i] : i \in 1 .. Len(Pipeline(s))}

\* Every message given to SendUsrSctpData is on the wire, in the cache, or
\* was dropped by the usrsctp_sendv error that closed the socket; and that
\* happens to at most one message of a client, as long as usrsctp_accept on
\* the closed socket answers null.
LossObject(s) ==
    /\ 1 .. s.next - 1 = InPipeline(s) \cup s.lost
    /\ \A m, n \in s.lost : m = n

OneLossAtMost == \A c \in Clients : LossObject(sctp[c])

\* No message is given to a socket after usrsctp_close freed it, and none is
\* closed twice: bHandShakeDone is off whenever sock_ dangles, as long as
\* usrsctp_accept on that socket answers null.
NoUseAfterClose == \A c \in Clients : sctp[c].bHandShakeDone => sctp[c].sock # "closed"

(***************************************************************************)
(* The inductive invariant behind these.  It adds that a message is only   *)
(* lost together with the socket, so that a second one is never sent       *)
(* directly: it waits in the cache.                                        *)
(***************************************************************************)
GoodObject(s) ==
    /\ s \in SctpObject
    /\ SockConsistent(s)
    /\ OrderedObject(s)
    /\ LossObject(s)
    /\ s.bHandShakeDone => s.sock # "closed" /\ s.lost = {}
    /\ s.lost # {} => s.sock \in {"closed", "null"}

\* Every object is good, in every state the operations can reach.
SctpInv ==
    /\ sctp \in [Clients -> SctpObject]
    /\ wild \in BOOLEAN
    /\ \A c \in Clients : GoodObject(sctp[c])
=============================================================================
