---------------------------- MODULE RuruRingBuf ----------------------------
(***************************************************************************)
(* RuruRingBuf<HeartBeatData>, the ring each RuruClient keeps for SCTP     *)
(* heart-beat packets (heartBeatRing, RuruClient.h).                       *)
(*                                                                         *)
(* Two threads use one ring without a lock.  The producer is               *)
(* OnSctpOutboundPacket, which usrsctp calls under its association lock,   *)
(* so calls for one client never overlap each other; the heart-beat timer  *)
(* makes them on usrsctp's own thread.  The consumer is                    *)
(* ClientSendHeartBeatData on the loop's thread.                           *)
(*                                                                         *)
(* RingBufWrite and RingBufRead are cut at every access to a variable the  *)
(* other thread writes.  The memcpy of a HeartBeatData is two steps, one   *)
(* for each field of the struct, so a reader that overtakes the writer     *)
(* sees a torn beat.                                                       *)
(***************************************************************************)
EXTENDS Naturals, Sequences

CONSTANTS
    Cap,        \* the cap given to the constructor (100 in RuruClient)
    MaxBeats    \* bound: how many beats the producer offers

ASSUME CapAssumption == Cap \in Nat \ {0}
ASSUME MaxBeatsAssumption == MaxBeats \in Nat

VARIABLES
    memory,     \* memory[0 .. cap-1]
    rd, wt,     \* the two indices, each written by one thread only
    wpc,        \* where the producer is in RingBufWrite
    rpc,        \* where the consumer is in RingBufRead
    beat,       \* the consumer's local HeartBeatData
    out,        \* history: beats handed to ClientSendData
    refused,    \* history: beats for which RingBufWrite returned false
    next        \* number of the beat the producer writes or offers next

vars == <<memory, rd, wt, wpc, rpc, beat, out, refused, next>>

Slots == 0 .. Cap - 1

\* struct HeartBeatData: beat number n fills both fields.
Beat(n) == [data |-> n, length |-> n]
HeartBeatData == [data : Nat, length : Nat]

\* new T[cap] leaves the slots unset; beat numbers start at 1.
Unset == Beat(0)

\* (i + 1) % cap
Succ(i) == (i + 1) % Cap

Init ==
    /\ memory = [i \in Slots |-> Unset]
    /\ rd = 0
    /\ wt = 0
    /\ wpc = "idle"
    /\ rpc = "idle"
    /\ beat = Unset
    /\ out = <<>>
    /\ refused = {}
    /\ next = 1

(***************************************************************************)
(* The producer: RingBufWrite.                                             *)
(***************************************************************************)

\* Faulty variant: the test for a full ring is missing.
HasRoomUnchecked == TRUE

\* Faulty variant: two slots are kept free instead of one.
HasRoomOffByOne == rd # Succ(wt) /\ rd # Succ(Succ(wt))

\* rd != ((wt + 1) % cap)
HasRoom == rd # Succ(wt)

WriteBegin ==
    /\ wpc = "idle"
    /\ next <= MaxBeats
    /\ HasRoom
    /\ wpc' = "data"
    /\ UNCHANGED <<memory, rd, wt, rpc, beat, out, refused, next>>

WriteFull ==
    /\ wpc = "idle"
    /\ next <= MaxBeats
    /\ ~HasRoom
    /\ refused' = refused \cup {next}
    /\ next' = next + 1
    /\ UNCHANGED <<memory, rd, wt, wpc, rpc, beat, out>>

\* Faulty variant: only the first part of the struct is copied.
WriteDataShort ==
    /\ wpc = "data"
    /\ memory' = [memory EXCEPT ![wt].data = next]
    /\ wpc' = "publish"
    /\ UNCHANGED <<rd, wt, rpc, beat, out, refused, next>>

WriteData ==
    /\ wpc = "data"
    /\ memory' = [memory EXCEPT ![wt].data = next]
    /\ wpc' = "length"
    /\ UNCHANGED <<rd, wt, rpc, beat, out, refused, next>>

WriteLength ==
    /\ wpc = "length"
    /\ memory' = [memory EXCEPT ![wt].length = next]
    /\ wpc' = "publish"
    /\ UNCHANGED <<rd, wt, rpc, beat, out, refused, next>>

WritePublish ==
    /\ wpc = "publish"
    /\ wt' = Succ(wt)
    /\ next' = next + 1
    /\ wpc' = "idle"
    /\ UNCHANGED <<memory, rd, rpc, beat, out, refused>>

(***************************************************************************)
(* The consumer: one round of ClientSendHeartBeatData's loop.  Its test    *)
(* RingBufEmpty and the test in RingBufRead see the same answer, since     *)
(* only this thread moves rd and the producer never takes a beat back.     *)
(***************************************************************************)

\* Faulty variant: a ring with one beat counts as empty.
RingBufEmptyOffByOne == rd = wt \/ Succ(rd) = wt

RingBufEmpty == rd = wt

ReadBegin ==
    /\ rpc = "idle"
    /\ ~RingBufEmpty
    /\ rpc' = "data"
    /\ UNCHANGED <<memory, rd, wt, wpc, beat, out, refused, next>>

ReadData ==
    /\ rpc = "data"
    /\ beat' = [beat EXCEPT !.data = memory[rd].data]
    /\ rpc' = "length"
    /\ UNCHANGED <<memory, rd, wt, wpc, out, refused, next>>

ReadLength ==
    /\ rpc = "length"
    /\ beat' = [beat EXCEPT !.length = memory[rd].length]
    /\ rpc' = "advance"
    /\ UNCHANGED <<memory, rd, wt, wpc, out, refused, next>>

ReadAdvance ==
    /\ rpc = "advance"
    /\ rd' = Succ(rd)
    /\ out' = Append(out, beat)
    /\ rpc' = "idle"
    /\ UNCHANGED <<memory, wt, wpc, beat, refused, next>>

RingBufWrite == WriteBegin \/ WriteFull \/ WriteData \/ WriteLength \/ WritePublish
RingBufRead == ReadBegin \/ ReadData \/ ReadLength \/ ReadAdvance

Next == RingBufWrite \/ RingBufRead

Spec == Init /\ [][Next]_vars

(***************************************************************************)
(* Both calls run to their end: neither waits for the other thread.  The   *)
(* producer need not offer another beat, so only its later steps are fair. *)
(***************************************************************************)
Fairness ==
    /\ WF_vars(WriteData \/ WriteLength \/ WritePublish)
    /\ WF_vars(RingBufRead)

FairSpec == Spec /\ Fairness

(***************************************************************************)
(* Properties.                                                             *)
(***************************************************************************)

\* Every variable stays in its type; in particular both indices stay inside
\* memory[0 .. cap-1] (RingBufRead, RingBufWrite).
TypeOK ==
    /\ memory \in [Slots -> HeartBeatData]
    /\ rd \in Slots
    /\ wt \in Slots
    /\ wpc \in {"idle", "data", "length", "publish"}
    /\ rpc \in {"idle", "data", "length", "advance"}
    /\ beat \in HeartBeatData
    /\ out \in Seq(HeartBeatData)
    /\ refused \subseteq Nat
    /\ next \in Nat \ {0}

Writing == wpc # "idle"
Reading == rpc # "idle"

\* The slot RingBufWrite fills is never the slot RingBufRead copies out,
\* however the two threads interleave.
NoSlotShared == Writing /\ Reading => rd # wt

\* The beats between rd and wt, oldest first.
Count == IF wt >= rd THEN wt - rd ELSE wt + Cap - rd
SlotAt(k) == IF rd + k < Cap THEN rd + k ELSE rd + k - Cap
Unread == [k \in 1 .. Count |-> memory[SlotAt(k - 1)]]

Fifo == INSTANCE BoundedFifo WITH Capacity <- Cap - 1, q <- Unread

\* The ring implements a first-in first-out queue of cap - 1 beats: it
\* refuses a beat only when cap - 1 are unread, loses and repeats none, and
\* hands out each one whole and in order (RingBufWrite, RingBufRead).
ImplementsFifo == Fifo!Spec

\* Every beat RingBufWrite took in is handed to ClientSendData.
EveryBeatSent ==
    \A n \in 1 .. MaxBeats :
        (n < next /\ n \notin refused) ~> (\E i \in DOMAIN out : out[i] = Beat(n))

(***************************************************************************)
(* The inductive invariant behind NoSlotShared and ImplementsFifo.         *)
(***************************************************************************)

\* While RingBufWrite runs, the room its test saw is still there.
WriterRoom == Writing => rd # Succ(wt)

\* While RingBufRead runs, the beat its test saw is still there.
ReaderBeat == Reading => rd # wt

\* What the producer has copied so far is in the slot.
WriterCopy ==
    /\ wpc \in {"length", "publish"} => memory[wt].data = next
    /\ wpc = "publish" => memory[wt].length = next

\* What the consumer has copied so far still equals the slot.
ReaderCopy ==
    /\ rpc \in {"length", "advance"} => beat.data = memory[rd].data
    /\ rpc = "advance" => beat.length = memory[rd].length

RingInv == TypeOK /\ WriterRoom /\ ReaderBeat /\ WriterCopy /\ ReaderCopy
=============================================================================
