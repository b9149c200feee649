----------------------------- MODULE PicoHttp -----------------------------
(***************************************************************************)
(* phr_parse_request of picohttpparser.c, the parser HttpRequestHandle     *)
(* calls on what a connection has received so far, and the library's two   *)
(* other parsers, phr_parse_response and phr_parse_headers.                *)
(*                                                                         *)
(* A buffer is a function from 1 .. its capacity to characters; position i *)
(* is buf[i - 1] of the code.  A character stands for a class the parser   *)
(* tells apart, and a few stand for a word: "ver" for the eight characters *)
(* of HTTP/1.x, "len" for the name content-length, a numeral for a number, *)
(* "{" and "}" for the halves of a JSON text.                              *)
(*                                                                         *)
(* A parsing step either moves to a position or returns NULL with *ret     *)
(* set; it never reads a position beyond len.                              *)
(***************************************************************************)
EXTENDS Integers, Sequences, FiniteSets

CONSTANT MaxHeaders     \* *num_headers on entry (16 in HttpRequestHandle)

ASSUME MaxHeadersAssumption == MaxHeaders \in Nat

Numeral == {"0", "1", "2", "3"}

\* token_char_map
TokenChar == {"m", "len"} \cup Numeral

\* The characters below SP, HT left out, and DEL.
Control == {"CR", "LF", "NUL"}

Char == TokenChar \cup Control \cup {"SP", ":", "ver", "{", "}"}

At(i) == [ret |-> 0, pos |-> i]
Partial == [ret |-> -2, pos |-> 0]      \* CHECK_EOF
Failed == [ret |-> -1, pos |-> 0]

\* The next parsing step, unless this one returned NULL.  (The set of one
\* element makes TLC evaluate r once.)
Then(r, Step(_)) ==
    CHOOSE next \in {IF s.ret = 0 THEN Step(s.pos) ELSE s : s \in {r}} : TRUE

\* Move to the first character in stop at or after i.
Find(buf, i, len, stop) ==
    LET hit == {k \in i .. len : buf[k] \in stop}
    IN  IF hit = {} THEN Partial
        ELSE At(CHOOSE k \in hit : \A j \in hit : k <= j)

\* Faulty variant: the character after CR is skipped unseen.
ExpectEolUnseen(buf, i, len) ==
    CASE buf[i] = "LF" -> At(i + 1)
      [] buf[i] = "CR" /\ i = len -> Partial
      [] buf[i] = "CR" /\ i < len -> At(i + 2)
      [] OTHER -> Failed

\* CR LF or LF; CHECK_EOF and EXPECT_CHAR('\012') after CR.
ExpectEol(buf, i, len) ==
    CASE buf[i] = "LF" -> At(i + 1)
      [] buf[i] = "CR" /\ i = len -> Partial
      [] buf[i] = "CR" /\ i < len /\ buf[i + 1] = "LF" -> At(i + 2)
      [] OTHER -> Failed

\* parse_token: token characters up to next_char.
parse_token(buf, i, len, next) ==
    LET end == Find(buf, i, len, (Char \ TokenChar) \cup {next})
    IN  Then(end, LAMBDA k : IF buf[k] = next THEN At(k) ELSE Failed)

\* ADVANCE_TOKEN: anything but control characters up to SP.
AdvanceToken(buf, i, len) ==
    LET end == Find(buf, i, len, Control \cup {"SP"})
    IN  Then(end, LAMBDA k : IF buf[k] = "SP" THEN At(k) ELSE Failed)

SkipSpaces(buf, i, len) == Find(buf, i, len, Char \ {"SP"})

\* get_token_to_eol, up to and including the end of the line.
get_token_to_eol(buf, i, len) ==
    Then(Find(buf, i, len, Control), LAMBDA k : ExpectEol(buf, k, len))

\* How many octets the characters from i to len are: a word counts each of
\* its letters.
Octets(buf, i, len) ==
    len - i + 1 + 7 * Cardinality({k \in i .. len : buf[k] = "ver"})
                + 13 * Cardinality({k \in i .. len : buf[k] = "len"})

\* parse_http_version wants nine octets before it looks at any: the version
\* and one more.
parse_http_version(buf, i, len) ==
    CASE Octets(buf, i, len) < 9 -> Partial
      [] Octets(buf, i, len) >= 9 /\ buf[i] = "ver" -> At(i + 1)
      [] OTHER -> Failed

(***************************************************************************)
(* parse_headers.  A header is the position of its name and its value; a   *)
(* continued line has no name (0).  Headers[n, i] parses from position i   *)
(* with n headers done and adds the rest to a result.                      *)
(***************************************************************************)
HeaderName(buf, i, len, n) ==
    IF n # 0 /\ buf[i] = "SP" THEN At(i)
    ELSE Then(parse_token(buf, i, len, ":"),
              LAMBDA k : IF k = i THEN Failed
                         ELSE SkipSpaces(buf, k + 1, len))

HeaderAt(buf, i, n, value) ==
    [name |-> IF n # 0 /\ buf[i] = "SP" THEN 0 ELSE i, value |-> value]

parse_headers(buf, start, len) ==
    LET Headers[n \in 0 .. MaxHeaders, i \in 1 .. len + 1] ==
          LET name == HeaderName(buf, i, len, n)
              line == Then(name, LAMBDA k : get_token_to_eol(buf, k, len))
          IN  CASE i > len ->
                     [step |-> Partial, headers |-> <<>>]
                [] i <= len /\ buf[i] \in {"CR", "LF"} ->
                     [step |-> ExpectEol(buf, i, len), headers |-> <<>>]
                [] i <= len /\ buf[i] \notin {"CR", "LF"} /\ n = MaxHeaders ->
                     [step |-> Failed, headers |-> <<>>]
                [] i <= len /\ buf[i] \notin {"CR", "LF"} /\ n < MaxHeaders /\ line.ret # 0 ->
                     [step |-> line, headers |-> <<>>]
                [] OTHER ->
                     LET rest == Headers[n + 1, line.pos]
                     IN  [rest EXCEPT !.headers =
                             <<HeaderAt(buf, i, n, name.pos)>> \o @]
    IN  Headers[0, start]

\* parse_request up to the end of the request line.
SkipEmptyLine(buf, len) ==
    CASE len = 0 -> Partial
      [] len > 0 /\ buf[1] \in {"CR", "LF"} -> ExpectEol(buf, 1, len)
      [] OTHER -> At(1)

\* The method and the path, up to where the version should be.
BeforeVersion(buf, len) ==
    Then(SkipEmptyLine(buf, len), LAMBDA m :
    Then(parse_token(buf, m, len, "SP"), LAMBDA mEnd :
    Then(SkipSpaces(buf, mEnd + 1, len), LAMBDA p :
    Then(AdvanceToken(buf, p, len), LAMBDA pEnd :
    Then(SkipSpaces(buf, pEnd + 1, len), LAMBDA v :
    IF m = mEnd \/ p = pEnd THEN Failed ELSE At(v))))))

RequestLine(buf, len) ==
    Then(BeforeVersion(buf, len), LAMBDA v :
    Then(parse_http_version(buf, v, len), LAMBDA e :
    ExpectEol(buf, e, len)))

parse_request(buf, len) ==
    LET line == RequestLine(buf, len)
    IN  IF line.ret # 0 THEN [step |-> line, headers |-> <<>>]
        ELSE parse_headers(buf, line.pos, len)

\* Faulty variant: only what is new is looked at.
ScanFromLast(last_len) == last_len + 1

\* last_len < 3 ? buf : buf + last_len - 3
ScanFrom(last_len) == IF last_len < 3 THEN 1 ELSE last_len - 2

\* is_complete: two line ends in a row, looked for from three characters
\* before last_len.
is_complete(buf, len, last_len) ==
    LET Scan[i \in 1 .. len + 3, ret_cnt \in 0 .. 2] ==
          IF ret_cnt = 2 THEN At(i)
          ELSE IF i > len THEN Partial
          ELSE IF buf[i] \notin {"CR", "LF"} THEN Scan[i + 1, 0]
          ELSE LET eol == ExpectEol(buf, i, len)
               IN  IF eol.ret # 0 THEN eol ELSE Scan[eol.pos, ret_cnt + 1]
    IN  Scan[ScanFrom(last_len), 0]

\* What a parser that stopped at a step returns: the number of characters
\* consumed, -1 or -2.  With a last_len it asks is_complete first.
Parsed(buf, len, last_len, result) ==
    LET complete == is_complete(buf, len, last_len)
        r == IF last_len # 0 /\ complete.ret # 0
             THEN [step |-> complete, headers |-> <<>>]
             ELSE result
    IN  [ret |-> IF r.step.ret = 0 THEN r.step.pos - 1 ELSE r.step.ret,
         headers |-> r.headers]

phr_parse_request(buf, len, last_len) ==
    Parsed(buf, len, last_len, parse_request(buf, len))

\* PARSE_INT_3: three digits, and a fourth character must be there.
parse_status(buf, i, len) ==
    CASE len - i + 1 < 4 -> Partial
      [] len - i + 1 >= 4 /\ \A k \in i .. i + 2 : buf[k] \in Numeral -> At(i + 3)
      [] OTHER -> Failed

\* The message is empty or begins with a space.
parse_message(buf, i, len) ==
    Then(get_token_to_eol(buf, i, len), LAMBDA e :
         IF buf[i] \in {"CR", "LF", "SP"} THEN At(e) ELSE Failed)

StatusLine(buf, len) ==
    Then(parse_http_version(buf, 1, len), LAMBDA e :
    IF buf[e] # "SP" THEN Failed
    ELSE Then(SkipSpaces(buf, e + 1, len), LAMBDA d :
         Then(parse_status(buf, d, len), LAMBDA m :
         parse_message(buf, m, len))))

parse_response(buf, len) ==
    LET line == StatusLine(buf, len)
    IN  IF line.ret # 0 THEN [step |-> line, headers |-> <<>>]
        ELSE parse_headers(buf, line.pos, len)

phr_parse_response(buf, len, last_len) ==
    Parsed(buf, len, last_len, parse_response(buf, len))

phr_parse_headers(buf, len, last_len) ==
    Parsed(buf, len, last_len, parse_headers(buf, 1, len))
=============================================================================
