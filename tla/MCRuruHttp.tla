---------------------------- MODULE MCRuruHttp ----------------------------
(* Requests for the instances of RuruHttp that TLC checks. *)
EXTENDS RuruHttp

Line == <<"m", "SP", "m", "SP", "ver", "LF">>
Head2 == Line \o <<"len", ":", "2", "LF", "LF">>

Good == Head2 \o <<"{", "}">>

\* The same with CR LF at the ends of its lines.
GoodCRLF ==
    <<"m", "SP", "m", "SP", "ver", "CR", "LF",
      "len", ":", "2", "CR", "LF", "CR", "LF", "{", "}">>

Excess == GoodCRLF \o <<"m">>
BadBody == Head2 \o <<"m", "m">>
NoBody == Line \o <<"LF">>
Malformed == <<"m", "CR", "m">>
Long == [i \in 1 .. MaxSize + 1 |-> "m"]

AllRequests == {Good, GoodCRLF, Excess, BadBody, NoBody, Malformed, Long}
ShortRequests == {<<"m", "m">>, <<"LF", "LF">>}

Registrations == {Good, GoodCRLF}
BodySize == 2       \* what their content-length says

-----------------------------------------------------------------------------
\* What a connection has received.
Got(c) == SubSeq(con[c].data, 1, con[c].length)

\* A head ends with two line ends in a row.
HasHead(s) ==
    \E i, j \in DOMAIN s :
        /\ i < j /\ s[i] = "LF" /\ s[j] = "LF"
        /\ \A k \in i + 1 .. j - 1 : s[k] = "CR"

\* Whatever pieces a request comes in, as long as every read has found data:
\* HttpRequestHandle answers 200 only to exactly a registration, and 400 only to
\* a whole request with another body or when its buffer is full; and when the
\* buffer is full it reads on, to close without an answer, only if the head is
\* there.
AnswersRight ==
    pc \in {"handle", "reply"} /\ cur \notin stalled =>
        /\ reply = "200" => Got(cur) \in Registrations
        /\ reply = "400" => Got(cur) = BadBody \/ Len(Got(cur)) = MaxSize
        /\ pc = "handle" /\ Len(Got(cur)) = MaxSize => HasHead(Got(cur))

\* HttpRequestHandle answers a registration at the read that completes it, as long
\* as every read has found data, unless the read before ended inside the body.
\* (After that one the parser has accepted the head, but the handler passes its
\* length as last_len all the same, and is_complete may miss the end of the head.)
AnsweredWhenWhole ==
    [][pc = "handle" /\ pc' = "handle" /\ cur \notin stalled'
          /\ Got(cur)' \in Registrations
       => con[cur].length > Len(Got(cur)') - BodySize]_vars
=============================================================================
