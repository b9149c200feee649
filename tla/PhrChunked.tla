---------------------------- MODULE PhrChunked ----------------------------
(***************************************************************************)
(* phr_decode_chunked of picohttpparser.c.  A call gets a buffer of newly  *)
(* arrived characters and rewrites it in place: the decoded data at its    *)
(* beginning, what it did not look at right behind.  The decoder carries   *)
(* the state from call to call.                                            *)
(*                                                                         *)
(* A call in progress is a record: the decoder's fields, the buffer, src   *)
(* and dst, and ret, which is Running until the call leaves the loop.      *)
(* Position i of the buffer is buf[i - 1] of the code.                     *)
(***************************************************************************)
EXTENDS Integers, Sequences

CONSTANTS
    Radix,          \* 16 in the code
    HexDigits       \* sizeof(size_t) * 2: how many digits a size may have

ASSUME ChunkedAssumption ==
    Radix \in Nat \ {0, 1} /\ HexDigits \in Nat \ {0}

\* The digits the runs use, with their values.
decode_hex == [c \in {"0", "1"} |-> IF c = "0" THEN 0 ELSE 1]
IsHex(c) == c \in DOMAIN decode_hex

\* "should be zero-filled before start", but for consume_trailer
NewDecoder(trailer) == [state |-> "size", left |-> 0, hex |-> 0, trailer |-> trailer]

Running == -3    \* no answer yet

Bufsz(c) == Len(c.buf)
Left(c) == Bufsz(c) - c.src     \* bytes of the buffer not looked at

\* memmove(buf + dst, buf + src, n)
Moved(c, n) ==
    [i \in DOMAIN c.buf |->
        IF i \in c.dst + 1 .. c.dst + n THEN c.buf[c.src + i - c.dst] ELSE c.buf[i]]

\* How many of the next characters satisfy P: where a for loop stops.
Span(c, P(_)) ==
    LET stops == {n \in 0 .. Left(c) - 1 : ~P(c.buf[c.src + n + 1])} \cup {Left(c)}
    IN  CHOOSE n \in stops : \A k \in stops : n <= k

Skip(c, n) == [c EXCEPT !.src = @ + n]
AtEnd(c) == c.src = Bufsz(c)
Here(c) == c.buf[c.src + 1]
GoTo(c, s) == [c EXCEPT !.state = s]
Return(c, r) == [c EXCEPT !.ret = r]

\* One more digit of the size, or the end of the digits.
InSize(c) ==
    CASE AtEnd(c) -> Return(c, -2)
      [] ~AtEnd(c) /\ ~IsHex(Here(c)) /\ c.hex = 0 -> Return(c, -1)
      [] ~AtEnd(c) /\ ~IsHex(Here(c)) /\ c.hex > 0 -> GoTo([c EXCEPT !.hex = 0], "ext")
      [] ~AtEnd(c) /\ IsHex(Here(c)) /\ c.hex = HexDigits -> Return(c, -1)
      [] OTHER -> Skip([c EXCEPT !.left = @ * Radix + decode_hex[Here(c)], !.hex = @ + 1], 1)

\* Up to the end of the line, whatever it holds.  A size of 0 is the end.
InExt(c) ==
    LET line == Skip(c, Span(c, LAMBDA x : x # "LF"))
        next == Skip(line, 1)
    IN  CASE AtEnd(line) -> Return(line, -2)
          [] ~AtEnd(line) /\ c.left > 0 -> GoTo(next, "data")
          [] ~AtEnd(line) /\ c.left = 0 /\ c.trailer -> GoTo(next, "head")
          [] OTHER -> Return(next, Left(next))

\* As much of the chunk as there is moves to dst.
InData(c) ==
    LET n == IF Left(c) < c.left THEN Left(c) ELSE c.left
        moved == [c EXCEPT !.buf = Moved(c, n), !.src = @ + n, !.dst = @ + n, !.left = @ - n]
    IN  IF Left(c) < c.left THEN Return(moved, -2) ELSE GoTo(moved, "crlf")

\* Any number of CR, then LF.
InCrlf(c) ==
    LET cr == Skip(c, Span(c, LAMBDA x : x = "CR"))
    IN  CASE AtEnd(cr) -> Return(cr, -2)
          [] ~AtEnd(cr) /\ Here(cr) = "LF" -> GoTo(Skip(cr, 1), "size")
          [] OTHER -> Return(cr, -1)

\* The beginning of a trailer line; an empty line is the end.
InHead(c) ==
    LET cr == Skip(c, Span(c, LAMBDA x : x = "CR"))
        next == Skip(cr, 1)
    IN  CASE AtEnd(cr) -> Return(cr, -2)
          [] ~AtEnd(cr) /\ Here(cr) = "LF" -> Return(next, Left(next))
          [] OTHER -> GoTo(next, "middle")

InMiddle(c) ==
    LET line == Skip(c, Span(c, LAMBDA x : x # "LF"))
    IN  IF AtEnd(line) THEN Return(line, -2) ELSE GoTo(Skip(line, 1), "head")

\* The switch.
Step(c) ==
    CASE c.state = "size"   -> InSize(c)
      [] c.state = "ext"    -> InExt(c)
      [] c.state = "data"   -> InData(c)
      [] c.state = "crlf"   -> InCrlf(c)
      [] c.state = "head"   -> InHead(c)
      [] c.state = "middle" -> InMiddle(c)

RECURSIVE Decode(_)
Decode(c) == IF c.ret # Running THEN c ELSE Decode(Step(c))

\* Faulty variant: what is left undecoded stays where it was.
ExitInPlace(c) == c

\* Exit: what was not looked at moves behind the decoded data.
Exit(c) == [c EXCEPT !.buf = Moved(c, Left(c))]

\* A call with the buffer piece.
phr_decode_chunked(decoder, piece) ==
    LET c == Exit(Decode([state |-> decoder.state, left |-> decoder.left, hex |-> decoder.hex,
                          trailer |-> decoder.trailer, buf |-> piece, src |-> 0, dst |-> 0, ret |-> Running]))
    IN  [decoder |-> [state |-> c.state, left |-> c.left, hex |-> c.hex, trailer |-> c.trailer],
         data |-> SubSeq(c.buf, 1, c.dst),
         ret |-> c.ret,
         tail |-> IF c.ret >= 0 THEN SubSeq(c.buf, c.dst + 1, c.dst + c.ret) ELSE <<>>]

phr_decode_chunked_is_in_data(decoder) == decoder.state = "data"
=============================================================================
