---------------------------- MODULE MCCJsonText -----------------------------
(***************************************************************************)
(* cJSON's parser on tokens, as in MCCJsonParse, and, on inputs of their   *)
(* own, on the characters inside a token: string literals put together     *)
(* from pieces, and numerals, with what they should be read as.            *)
(***************************************************************************)
EXTENDS MCCJsonParse

CONSTANTS
    NumberBuf, IntMax,  \* as in CJsonText
    MaxPieces,          \* bound: pieces of a string
    MaxDigits           \* bound: characters of a numeral

VARIABLES
    pieces,     \* the pieces of the string
    numeral     \* the characters of the number

Text == INSTANCE CJsonText

Quote == Text!Quote
Backslash == Text!Backslash
LetterU == Text!LetterU

U(a, b, c, d) == <<Backslash, LetterU, a, b, c, d>>

\* What may be in a string literal, and the bytes it stands for: a letter, two
\* simple escapes, \u0041, \u00e9, \u20ac.
Whole == <<97>> :> <<97>> @@ <<Backslash, 110>> :> <<10>> @@ <<Backslash, Quote>> :> <<Quote>>
         @@ U(48, 48, 52, 49) :> <<65>> @@ U(48, 48, 101, 57) :> <<195, 169>>
         @@ U(50, 48, 97, 67) :> <<226, 130, 172>>

\* The halves of a surrogate pair, \ud83d and \ude00, and the character they make.
HighHalf == U(100, 56, 51, 100)
LowHalf == U(100, 101, 48, 48)
Pair == <<240, 159, 152, 128>>

\* Fragments that are legal only in some places, or nowhere: a backslash, a quote,
\* a u, a digit, the NUL, \u with a bad digit.
Fragments == {<<Backslash>>, <<Quote>>, <<LetterU>>, <<48>>, <<0>>, U(48, 48, 103, 48)}

Pieces == DOMAIN Whole \cup {HighHalf, LowHalf} \cup Fragments

NumeralChars == {49, 57, 45, 43, 46, 101}   \* 1 9 - + . e

TextInit == ParseInit /\ pieces = <<>> /\ numeral = <<>>

\* One of the initial states, in which no token is read but characters.
Inside == input = AnyText /\ pc = "begin" /\ text = <<>> /\ strict /\ h.mem = 9

AddPiece ==
    /\ Inside /\ numeral = <<>> /\ Len(pieces) < MaxPieces
    /\ \E p \in Pieces : pieces' = Append(pieces, p)
    /\ UNCHANGED <<vars, numeral>>

AddDigit ==
    /\ Inside /\ pieces = <<>> /\ Len(numeral) < MaxDigits
    /\ \E c \in NumeralChars : numeral' = Append(numeral, c)
    /\ UNCHANGED <<vars, pieces>>

ReadTokens == pieces = <<>> /\ numeral = <<>> /\ ParseNext /\ UNCHANGED <<pieces, numeral>>

LongEnough == (Len(pieces) = MaxPieces \/ Len(numeral) = MaxDigits) /\ UNCHANGED <<vars, pieces, numeral>>

TextSpec ==
    TextInit /\ [][AddPiece \/ AddDigit \/ ReadTokens \/ LongEnough]_<<vars, pieces, numeral>>

-----------------------------------------------------------------------------
Literal(close) == <<Quote>> \o FlattenSeq(pieces) \o (IF close THEN <<Quote>> ELSE <<>>) \o <<0>>

\* Whatever is between the quotes, well formed or not and closed or not, the bytes
\* parse_string writes, with the final NUL, fit the block it allocated from the
\* estimate of its first pass; and it does not end behind the text.
StringFits ==
    \A close \in BOOLEAN :
        \E r \in {Text!parse_string(Literal(close), 1)} :
            /\ Len(r.out) < r.size
            /\ r.next <= Len(Literal(close))

\* Every high half is followed by a low one, and every low one preceded by a high one.
Paired ==
    \A i \in 1 .. Len(pieces) :
        /\ pieces[i] = HighHalf => i < Len(pieces) /\ pieces[i + 1] = LowHalf
        /\ pieces[i] = LowHalf => i > 1 /\ pieces[i - 1] = HighHalf

Meaning ==
    FlattenSeq([i \in 1 .. Len(pieces) |->
        IF pieces[i] = HighHalf THEN Pair ELSE IF pieces[i] = LowHalf THEN <<>> ELSE Whole[pieces[i]]])

-----------------------------------------------------------------------------
Minus == numeral # <<>> /\ numeral[1] = 45

Digits == IF Minus THEN Tail(numeral) ELSE numeral

Amount ==
    LET value[i \in 0 .. Len(Digits)] ==
            IF i = 0 THEN 0 ELSE 10 * value[i - 1] + Digits[i] - 48
    IN  IF Minus THEN -value[Len(Digits)] ELSE value[Len(Digits)]

Clamp(n, lo, hi) == IF n < lo THEN lo ELSE IF n > hi THEN hi ELSE n

\* A literal made of legal characters and escapes is read as the bytes it stands
\* for, in UTF-8, surrogate pairs as one character; one with half a pair is
\* rejected (parse_string, utf16_literal_to_utf8, parse_hex4).
StringRead ==
    Range(pieces) \cap Fragments = {} =>
        \E r \in {Text!parse_string(Literal(TRUE), 1)} :
            IF Paired THEN r.ok /\ r.out = Meaning /\ r.next = Len(Literal(TRUE)) ELSE ~r.ok

\* An integer that fits number_c_string is read whole and its valueint is the
\* nearest int; a longer one is cut and the rest of its digits stays unread, where
\* no comma or bracket is (parse_number).
IntegerRead ==
    Digits # <<>> /\ Range(Digits) \subseteq 48 .. 57 =>
        \E r \in {Text!parse_number(numeral \o <<0>>, 1)} :
            IF Len(numeral) <= NumberBuf
            THEN r.ok /\ r.next = Len(numeral) + 1 /\ r.valueint = Clamp(Amount, -IntMax - 1, IntMax)
            ELSE r.ok /\ r.next <= Len(numeral)

\* What is inside a token is read as what it stands for: strings of legal pieces as
\* their bytes, with half a surrogate pair rejected, and integers as the nearest
\* int (parse_string, parse_number).
TextRead == StringRead /\ IntegerRead
=============================================================================
