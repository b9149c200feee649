---------------------------- MODULE MCPicoHttp ----------------------------
(***************************************************************************)
(* The library's parsers and its chunked decoder, each on every text up to *)
(* a bound after one of the beginnings in Starts, cut into reads in every  *)
(* way.  A caller that keeps to the contract reads more only while the     *)
(* answer is -2.  It passes a parser the whole text and the length of its  *)
(* last call as last_len, and the decoder only what is new.  The answers   *)
(* are compared with a reference grammar and with those of a call that     *)
(* gets the whole text afresh.                                             *)
(***************************************************************************)
EXTENDS PicoHttp, PhrChunked, SequencesExt

CONSTANTS
    MaxMore,    \* bound: how many characters follow a beginning, for each kind
    MaxTail     \* bound: how much follows the end of a chunked body

Bodies == {"body", "trailers"}      \* the decoder, without and with trailers
Kinds == {"request", "response", "headers"} \cup Bodies

ASSUME DOMAIN MaxMore = Kinds

\* The characters texts are made of.
Alphabet(kind) ==
    CASE kind = "request"  -> {"m", "SP", ":", "CR", "LF", "ver"}
      [] kind = "response" -> {"m", "SP", ":", "CR", "LF", "1"}
      [] kind = "headers"  -> {"m", "SP", ":", "CR", "LF"}
      [] kind \in Bodies   -> {"0", "1", "CR", "LF"}

\* Nothing yet, or a whole first line, or a whole chunk.
Starts(kind) ==
    CASE kind = "request"  -> {<<>>, <<"m", "SP", "m", "SP", "ver", "LF">>}
      [] kind = "response" -> {<<"ver", "SP">>, <<"ver", "SP", "1", "1", "1", "LF">>}
      [] kind = "headers"  -> {<<>>, <<"m", ":", "LF">>}
      [] kind \in Bodies   -> {<<>>, <<"1", "LF", "1", "LF">>}

VARIABLES
    kind,       \* what is called
    start,      \* how the text begins
    text,       \* what was read so far
    last        \* how much of it the last call got

\* Two calls of the decoder, with the first n characters and with the rest.
Decode2(n) ==
    LET one == phr_decode_chunked(NewDecoder(kind = "trailers"), SubSeq(text, 1, n))
        two == phr_decode_chunked(one.decoder, SubSeq(text, n + 1, Len(text)))
    IN  [two EXCEPT !.data = one.data \o @]

Parse(last_len) ==
    CASE kind = "request"  -> phr_parse_request(text, Len(text), last_len)
      [] kind = "response" -> phr_parse_response(text, Len(text), last_len)
      [] kind = "headers"  -> phr_parse_headers(text, Len(text), last_len)
      [] kind \in Bodies   -> Decode2(last_len)

Fresh == Parse(0)
Answer == Parse(last)

FeedInit ==
    /\ kind \in Kinds
    /\ start \in Starts(kind)
    /\ text = start
    /\ last \in 0 .. Len(start)

\* More is worth reading; something may follow a body.
WantsMore ==
    \E r \in {Fresh.ret} : r = -2 \/ (kind \in Bodies /\ r \in 0 .. MaxTail - 1)

\* More characters arrive before the next call.
Arrive(c) ==
    /\ Len(text) < Len(start) + MaxMore[kind]
    /\ text' = Append(text, c)
    /\ UNCHANGED <<kind, start, last>>

\* The call answers -2 and the caller remembers how far it got.
Call ==
    /\ last < Len(text)
    /\ Answer.ret = -2
    /\ last' = Len(text)
    /\ UNCHANGED <<kind, start, text>>

FeedNext == (WantsMore /\ \E c \in Alphabet(kind) : Arrive(c)) \/ Call

FeedSpec == FeedInit /\ [][FeedNext]_<<kind, start, text, last>>

(***************************************************************************)
(* The reference: a message is a sequence of lines.                        *)
(***************************************************************************)
Ends(s) == SetToSortSeq({i \in DOMAIN s : s[i] = "LF"}, LAMBDA i, j : i < j)

\* The lines of a text that ends with a line end, CR LF and LF removed.
Lines(s) ==
    [k \in DOMAIN Ends(s) |->
       LET from == IF k = 1 THEN 1 ELSE Ends(s)[k - 1] + 1
           upto == Ends(s)[k] - 1
       IN  SubSeq(s, from, IF upto >= from /\ s[upto] = "CR" THEN upto - 1 ELSE upto)]

IsText(s) == \A i \in DOMAIN s : s[i] \notin Control
IsToken(s) == s # <<>> /\ \A i \in DOMAIN s : s[i] \in TokenChar
Spaces(s) == s # <<>> /\ \A i \in DOMAIN s : s[i] = "SP"

\* method SP+ path SP+ HTTP/1.x
IsRequestLine(s) ==
    /\ IsText(s)
    /\ \E a \in DOMAIN s : \E b \in a + 1 .. Len(s) : \E c \in b + 1 .. Len(s) :
         /\ IsToken(SubSeq(s, 1, a - 1))
         /\ Spaces(SubSeq(s, a, b - 1))
         /\ \A i \in b .. c - 1 : s[i] # "SP"
         /\ Spaces(SubSeq(s, c, Len(s) - 1))
         /\ s[Len(s)] = "ver"

\* HTTP/1.x SP+ three digits, then nothing or a space and the message
IsStatusLine(s) ==
    /\ IsText(s)
    /\ s # <<>> /\ s[1] = "ver"
    /\ \E d \in 3 .. Len(s) - 2 :
         /\ Spaces(SubSeq(s, 2, d - 1))
         /\ \A k \in d .. d + 2 : s[k] \in Numeral
         /\ Len(s) > d + 2 => s[d + 3] = "SP"

IsHeader(s, first) ==
    /\ IsText(s)
    /\ \/ \E a \in DOMAIN s : s[a] = ":" /\ IsToken(SubSeq(s, 1, a - 1))
       \/ ~first /\ s # <<>> /\ s[1] = "SP"

\* Headers, then an empty line.
IsHead(lines) ==
    /\ Len(lines) \in 1 .. MaxHeaders + 1
    /\ \A k \in 1 .. Len(lines) - 1 : IsHeader(lines[k], k = 1)
    /\ lines[Len(lines)] = <<>>

\* One empty line may come before a request.
IsMessage(s) ==
    /\ s # <<>> /\ s[Len(s)] = "LF"
    /\ \E lines \in {Lines(s)} :
         CASE kind = "headers"  -> IsHead(lines)
           [] kind = "response" -> IsStatusLine(lines[1]) /\ IsHead(Tail(lines))
           [] kind = "request"  ->
                \E r \in {IF lines[1] = <<>> THEN Tail(lines) ELSE lines} :
                   r # <<>> /\ IsRequestLine(r[1]) /\ IsHead(Tail(r))

\* A parser accepts a text exactly when some prefix of it is a message of the
\* grammar, and then reports the length of that prefix.
AcceptsGrammar ==
    kind \notin Bodies =>
        LET heads == {n \in 1 .. Len(text) : IsMessage(SubSeq(text, 1, n))}
        IN  IF heads = {} THEN Fresh.ret < 0 ELSE heads = {Fresh.ret}

(***************************************************************************)
(* The reference: a chunked body is a sequence of lines and chunks.        *)
(***************************************************************************)
From(s, i) == SubSeq(s, i, Len(s))

\* The position of the first LF, 0 if there is none.
FirstEnd(s) ==
    IF \E i \in DOMAIN s : s[i] = "LF"
    THEN CHOOSE i \in DOMAIN s : s[i] = "LF" /\ \A j \in 1 .. i - 1 : s[j] # "LF"
    ELSE 0

\* How many digits a line begins with, and the number they write.
Digits(s) ==
    CHOOSE n \in 0 .. Len(s) : /\ \A i \in 1 .. n : IsHex(s[i])
                               /\ n = Len(s) \/ ~IsHex(s[n + 1])
RECURSIVE Number(_)
Number(s) ==
    IF s = <<>> THEN 0
    ELSE Number(SubSeq(s, 1, Len(s) - 1)) * Radix + decode_hex[s[Len(s)]]

IsEol(s) == s # <<>> /\ s[Len(s)] = "LF" /\ \A i \in 1 .. Len(s) - 1 : s[i] = "CR"

None == [ok |-> FALSE, data |-> <<>>, rest |-> <<>>]
Found(data, rest) == [ok |-> TRUE, data |-> data, rest |-> rest]

\* The text behind the trailers and the empty line that ends them; a run of CR
\* before LF counts as an empty line.
RECURSIVE AfterTrailers(_)
AfterTrailers(s) ==
    CASE FirstEnd(s) = 0 -> None
      [] FirstEnd(s) > 0 /\ IsEol(SubSeq(s, 1, FirstEnd(s))) -> Found(<<>>, From(s, FirstEnd(s) + 1))
      [] OTHER -> AfterTrailers(From(s, FirstEnd(s) + 1))

\* The body a text begins with, and what follows it.
RECURSIVE Chunks(_)
Chunks(s) ==
    LET e == FirstEnd(s)
        d == Digits(s)
        size == Number(SubSeq(s, 1, d))
        rest == From(s, e + 1)
        eol == FirstEnd(From(rest, size + 1))
    IN  CASE e = 0 \/ d \notin 1 .. HexDigits -> None
          [] e > 0 /\ d \in 1 .. HexDigits /\ size = 0 ->
               IF kind = "trailers" THEN AfterTrailers(rest) ELSE Found(<<>>, rest)
          [] OTHER ->
               IF eol = 0 \/ ~IsEol(SubSeq(rest, size + 1, size + eol)) THEN None
               ELSE \* the set of one element is evaluated once
                    CHOOSE r \in {[more EXCEPT !.data = SubSeq(rest, 1, size) \o @] :
                                     more \in {Chunks(From(rest, size + eol + 1))}} : TRUE

\* When the decoder reports the end, the data it delivered is the concatenation
\* of the chunks, and the octets it says it left undecoded are, at the tail of
\* the caller's buffer, exactly what follows the body.  A text that holds a
\* whole body is never reported incomplete or wrong.  While the decoder waits,
\* phr_decode_chunked_is_in_data tells whether the next octet will be data.
DecodesBody ==
    kind \in Bodies =>
        \E ref \in {Chunks(text)}, now \in {Fresh} :
           /\ IF ref.ok
              THEN now.ret = Len(ref.rest) /\ now.tail = ref.rest /\ now.data = ref.data
              ELSE now.ret < 0
           /\ now.ret = -2 =>
                 \A c \in Alphabet(kind) :
                    (phr_decode_chunked(now.decoder, <<c>>).data = <<c>>)
                       <=> phr_decode_chunked_is_in_data(now.decoder)

\* However a text is cut into reads, the calls agree with one that gets it afresh.
\* A parser that is passed last_len accepts a message of two lines or more
\* when it would without, with the same length and headers, and nothing else:
\* is_complete is only a short cut.  The decoder delivers the same data and
\* verdict and ends in the same state: no part of its progress (digits
\* counted, bytes left, the place in a line end) is lost between two calls.
ResumeAgrees ==
    \E fresh \in {Fresh}, now \in {Answer} :
        IF kind \in Bodies
        THEN now.ret = fresh.ret /\ (now.ret # -1 => now = fresh)
        ELSE /\ now.ret > 0 => now = fresh
             /\ fresh.ret > 0 /\ Len(Ends(SubSeq(text, 1, fresh.ret))) > 1 => now = fresh

\* How many characters follow a beginning, for the run.
Bounds == [k \in Kinds |-> IF k = "request" THEN 8 ELSE 7]
=============================================================================
