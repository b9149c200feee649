----------------------------- MODULE CJsonText ------------------------------
(***************************************************************************)
(* What cJSON does inside a string literal and inside a number.            *)
(*                                                                         *)
(* A text is a sequence of bytes whose last byte is the NUL; positions     *)
(* count from 1.                                                           *)
(***************************************************************************)
EXTENDS Integers, Sequences

CONSTANTS
    NumberBuf,  \* characters of a number that are kept: sizeof(number_c_string) - 1
    IntMax      \* INT_MAX

Quote == 34
Backslash == 92
LetterU == 117

-----------------------------------------------------------------------------
(* Escapes.                                                                *)

HexValue(c) ==
    IF c \in 48 .. 57 THEN c - 48
    ELSE IF c \in 65 .. 70 THEN c - 55
    ELSE IF c \in 97 .. 102 THEN c - 87
    ELSE -1

\* The four digits from position p on; 0 if one is no digit.
parse_hex4(s, p) ==
    LET d == [i \in 0 .. 3 |-> HexValue(s[p + i])]
    IN  IF \E i \in 0 .. 3 : d[i] = -1 THEN 0
        ELSE ((d[0] * 16 + d[1]) * 16 + d[2]) * 16 + d[3]

High(c) == c \in 55296 .. 56319     \* 0xD800 .. 0xDBFF
Low(c) == c \in 56320 .. 57343      \* 0xDC00 .. 0xDFFF

Trail(c) == 128 + (c % 64)

\* Faulty variant: the halves of a pair are not put together.
Utf8OfHalf(c) ==
    IF c < 128 THEN <<c>>
    ELSE IF c < 2048 THEN <<192 + c \div 64, Trail(c)>>
    ELSE <<224 + ((c \div 4096) % 16), Trail(c \div 64), Trail(c)>>

\* The bytes of a code point.
Utf8(c) ==
    IF c < 128 THEN <<c>>
    ELSE IF c < 2048 THEN <<192 + c \div 64, Trail(c)>>
    ELSE IF c < 65536 THEN <<224 + c \div 4096, Trail(c \div 64), Trail(c)>>
    ELSE <<240 + c \div 262144, Trail(c \div 4096), Trail(c \div 64), Trail(c)>>

Escape(length, out) == [length |-> length, out |-> out]

BadEscape == Escape(0, <<>>)

\* One or two sequences \uXXXX from p on, in front of position end.
utf16_literal_to_utf8(s, p, end) ==
    LET first == parse_hex4(s, p + 2)
        second == parse_hex4(s, p + 8)
    IN  IF end - p < 6 \/ Low(first) THEN BadEscape
        ELSE IF ~High(first) THEN Escape(6, Utf8(first))
        ELSE IF end - (p + 6) < 6 \/ s[p + 6] # Backslash \/ s[p + 7] # LetterU \/ ~Low(second)
        THEN BadEscape
        ELSE Escape(12, Utf8(65536 + ((first % 1024) * 1024) + (second % 1024)))

\* \b \f \n \r \t and the three characters that stand for themselves
SimpleEscapes == [c \in {98, 102, 110, 114, 116, Quote, Backslash, 47} |->
                    CASE c = 98 -> 8 [] c = 102 -> 12 [] c = 110 -> 10 [] c = 114 -> 13
                      [] c = 116 -> 9 [] OTHER -> c]

EscapeAt(s, p, end) ==
    IF s[p + 1] \in DOMAIN SimpleEscapes THEN Escape(2, <<SimpleEscapes[s[p + 1]]>>)
    ELSE IF s[p + 1] = LetterU THEN utf16_literal_to_utf8(s, p, end)
    ELSE BadEscape

-----------------------------------------------------------------------------
(* parse_string.                                                           *)

\* The first pass: where the string ends (0 if it does not), and how many bytes
\* fewer than its length the output needs.
RECURSIVE FindEnd(_, _, _)
FindEnd(s, p, skipped) ==
    IF p > Len(s) THEN [end |-> 0, skipped |-> skipped]
    ELSE IF s[p] = Quote THEN [end |-> p, skipped |-> skipped]
    ELSE IF s[p] # Backslash THEN FindEnd(s, p + 1, skipped)
    ELSE IF p = Len(s) THEN [end |-> 0, skipped |-> skipped]
    ELSE FindEnd(s, p + 2, skipped + 1)

\* The second pass: the bytes from p to the end, or a failure.
RECURSIVE Unescape(_, _, _, _)
Unescape(s, p, end, out) ==
    IF p >= end THEN [ok |-> TRUE, out |-> out]
    ELSE IF s[p] # Backslash THEN Unescape(s, p + 1, end, Append(out, s[p]))
    ELSE LET e == EscapeAt(s, p, end)
         IN  IF e.length = 0 THEN [ok |-> FALSE, out |-> out]
             ELSE Unescape(s, p + e.length, end, out \o e.out)

\* Faulty variant: both bytes of an escape are left out of the estimate.
TightAllocation(f, p) == f.end - p - 2 * f.skipped

\* allocation_length
Allocation(f, p) == f.end - p - f.skipped

\* The literal at p.  size is the block allocated for the output and its NUL.
parse_string(s, p) ==
    LET f == FindEnd(s, p + 1, 0)
        u == Unescape(s, p + 1, f.end, <<>>)
    IN  IF s[p] # Quote \/ f.end = 0
        THEN [ok |-> FALSE, out |-> <<>>, size |-> 1, next |-> p]
        ELSE [ok |-> u.ok, out |-> u.out, size |-> Allocation(f, p) + 1, next |-> f.end + 1]

-----------------------------------------------------------------------------
(* parse_number.                                                           *)

Digit(c) == c \in 48 .. 57

NumberChar(c) == Digit(c) \/ c \in {43, 45, 46, 69, 101}    \* + - . E e

\* The length of the longest run from p on whose bytes satisfy Test.
Run(s, p, Test(_)) ==
    LET stop == {i \in p .. Len(s) : ~Test(s[i])}
    IN  (CHOOSE i \in stop : \A j \in stop : i <= j) - p

\* What is copied into number_c_string, with its NUL.
NumberString(s, p) ==
    LET n == Run(s, p, NumberChar)
    IN  SubSeq(s, p, p + (IF n > NumberBuf THEN NumberBuf ELSE n) - 1) \o <<0>>

\* strtod: an optional sign, digits with an optional point, at least one digit,
\* and an exponent if it has digits.  Answers the number of characters used and,
\* for a number without point and exponent, its value.
strtod(t) ==
    LET sign == IF t[1] \in {43, 45} THEN 1 ELSE 0
        whole == Run(t, 1 + sign, Digit)
        point == 1 + sign + whole
        frac == IF t[point] = 46 THEN Run(t, point + 1, Digit) ELSE 0
        exp == IF t[point] = 46 THEN point + 1 + frac ELSE point
        esign == IF t[exp] \in {69, 101} /\ t[exp + 1] \in {43, 45} THEN 1 ELSE 0
        edigits == IF t[exp] \in {69, 101} THEN Run(t, exp + 1 + esign, Digit) ELSE 0
        value[i \in 0 .. whole] == IF i = 0 THEN 0 ELSE 10 * value[i - 1] + t[sign + i] - 48
    IN  IF whole + frac = 0 THEN [used |-> 0, plain |-> FALSE, value |-> 0]
        ELSE [used |-> (IF edigits > 0 THEN exp + esign + edigits ELSE exp - 1),
              plain |-> exp = point /\ edigits = 0,
              value |-> IF t[1] = 45 THEN -value[whole] ELSE value[whole]]

\* valueint
Saturate(n) == IF n >= IntMax THEN IntMax ELSE IF n <= -IntMax - 1 THEN -IntMax - 1 ELSE n

parse_number(s, p) ==
    LET r == strtod(NumberString(s, p))
    IN  [ok |-> r.used > 0, next |-> p + r.used, plain |-> r.plain, valueint |-> Saturate(r.value)]
=============================================================================
