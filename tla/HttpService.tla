---------------------------- MODULE HttpService ----------------------------
(***************************************************************************)
(* What the registration service of RuruLoop promises to each connection:  *)
(* it is accepted once and closed once, it gets at most one answer, 200    *)
(* goes only to a connection that was registered, 400 only to one that was *)
(* not, and a registered connection misses its 200 only when its peer is   *)
(* gone.  The process may die; nothing happens after that.                 *)
(***************************************************************************)
EXTENDS Naturals

CONSTANT Conns

VARIABLES
    phase,          \* "none", "queued", "open", "closed"
    answer,         \* "none", "200", "400"
    registered,     \* the connections that made a client
    gone,           \* the connections whose peer has reset them
    up              \* the process runs

svars == <<phase, answer, registered, gone, up>>

SInit ==
    /\ phase = [c \in Conns |-> "none"]
    /\ answer = [c \in Conns |-> "none"]
    /\ registered = {}
    /\ gone = {}
    /\ up = TRUE

SConnect(c) ==
    /\ phase[c] = "none"
    /\ phase' = [phase EXCEPT ![c] = "queued"]
    /\ UNCHANGED <<answer, registered, gone, up>>

SReset(c) ==
    /\ phase[c] \in {"queued", "open"}
    /\ gone' = gone \cup {c}
    /\ UNCHANGED <<phase, answer, registered, up>>

\* Accepted, or refused with a close.
SAccept(c) ==
    /\ phase[c] = "queued"
    /\ phase' \in {[phase EXCEPT ![c] = p] : p \in {"open", "closed"}}
    /\ UNCHANGED <<answer, registered, gone, up>>

SRegister(c) ==
    /\ phase[c] = "open"
    /\ c \notin registered
    /\ registered' = registered \cup {c}
    /\ UNCHANGED <<phase, answer, gone, up>>

\* Closed with an answer, or without one.
SFinish(c) ==
    /\ phase[c] = "open"
    /\ phase' = [phase EXCEPT ![c] = "closed"]
    /\ \/ c \in registered /\ answer' = [answer EXCEPT ![c] = "200"]
       \/ c \notin registered /\ answer' = [answer EXCEPT ![c] = "400"]
       \/ (c \in registered => c \in gone) /\ UNCHANGED answer
    /\ UNCHANGED <<registered, gone, up>>

SDie ==
    /\ up' = FALSE
    /\ UNCHANGED <<phase, answer, registered, gone>>

SNext ==
    /\ up
    /\ \/ \E c \in Conns :
            SConnect(c) \/ SReset(c) \/ SAccept(c) \/ SRegister(c) \/ SFinish(c)
       \/ SDie

SSpec == SInit /\ [][SNext]_svars
=============================================================================
