---------------------------- MODULE MCCJsonParse ----------------------------
(***************************************************************************)
(* The language the parser should accept, as sets of sentences.            *)
(***************************************************************************)
EXTENDS CJsonParse, SequencesExt

\* Any token, and memory that runs out anywhere.
AnyText ==
    [chars |-> {"[", "]", "{", "}", ",", ":", " ", "word", "literal", "bad", "bom"},
     len |-> 8, mems |-> 0 .. 5 \cup {9}]

\* The bodies BodyParse is for.
BodyText ==
    [chars |-> {"{", "}", ",", ":", "ip", "IP", "port", "number"}, len |-> 13, mems |-> {6, 12}]

AllInputs == {AnyText, BodyText}

Scalars == AnyText.chars \cap (Words \cup {"number", "literal"})

\* Sequences of parts of X(n), of n characters in all, with commas between.
RECURSIVE Separated(_, _)
Separated(X, n) ==
    X[n] \cup UNION {{a \o <<",">> \o b : a \in X[k], b \in Separated(X, n - k - 1)} :
                        k \in 1 .. n - 2}

\* The JSON values of n characters, blanks left out.
RECURSIVE Sentences(_)
Sentences(n) ==
    LET Vals == [k \in 1 .. n - 2 |-> Sentences(k)]
        Members == [k \in 1 .. n - 2 |->
                       IF k < 3 THEN {}
                       ELSE {<<w, ":">> \o v : w \in AnyText.chars \cap Words, v \in Vals[k - 2]}]
    IN  IF n = 1 THEN {<<c>> : c \in Scalars}
        ELSE (IF n = 2 THEN {<<"[", "]">>, <<"{", "}">>}
              ELSE {<<"[">> \o e \o <<"]">> : e \in Separated(Vals, n - 2)}
                   \cup {<<"{">> \o m \o <<"}">> : m \in Separated(Members, n - 2)})

Language == [n \in 1 .. AnyText.len |-> Sentences(n)]

\* The first k characters, without blanks and without a mark in front.
Plain(k) ==
    LET s == SelectSeq(SubSeq(text, 1, k), LAMBDA c : c # " ")
    IN  IF s # <<>> /\ s[1] = "bom" /\ text[1] = "bom" THEN Tail(s) ELSE s

Count(s, k, cs) == Cardinality({i \in 1 .. k : s[i] \in cs})

\* More brackets are open at once than the limit allows.
TooNested(s) ==
    \E k \in 1 .. Len(s) : Count(s, k, {"[", "{"}) > NestingLimit + Count(s, k, {"]", "}"})

\* Memory was enough.
Enough == h.mem > 0 /\ ~Full(h)

\* What is accepted is a JSON value, and with require_null_terminated only blanks
\* follow it; what is rejected with memory left begins no JSON value that the depth
\* limit allows.  Without require_null_terminated cJSON does not look behind the
\* value (parse_value, parse_array, parse_object, cJSON_ParseWithLengthOpts).
\* This is a matter of tokens.  Inside of them cJSON takes more than JSON has (a
\* blank is any character up to space, a number may be 01 or -.5, \u may have
\* digits that are none) and reads of a number no more than 63 characters.
AcceptsJson ==
    input = AnyText =>
    /\ pc = "parsed" =>
          LET s == Plain(IF strict THEN Len(text) - 1 ELSE off)
          IN  Len(s) \in DOMAIN Language /\ s \in Language[Len(s)] /\ ~TooNested(s)
    /\ pc = "fail" /\ frames = <<>> /\ Enough =>
          LET s == Plain(IF Ended THEN Len(text) - 1 ELSE Len(text))
          IN  IF Ended /\ strict
              THEN s = <<>> \/ s \notin Language[Len(s)] \/ TooNested(s)
              ELSE \A n \in Len(s) .. AnyText.len : n > 0 =>
                      \A v \in Language[n] :
                          (IF Ended THEN v = s ELSE IsPrefix(s, v)) => TooNested(v)

\* Where the members of the outermost object have the key k, in any spelling.
KeyPlaces(k) ==
    {i \in 1 .. Len(text) - 2 :
        /\ text[1] = "{" /\ text[i + 1] = ":" /\ text[i] \in Words
        /\ WordKeys[text[i]][1] = k
        /\ Count(text, i, {"[", "{"}) = 1 + Count(text, i, {"]", "}"})}

\* What the first member with that key holds.
Member(k) ==
    IF KeyPlaces(k) = {} THEN None
    ELSE text[2 + CHOOSE i \in KeyPlaces(k) : \A j \in KeyPlaces(k) : i <= j]

\* BodyParse answers with the first member called ip, in any spelling, of the
\* outermost object of the body, if that is a string and the first one called port
\* is a number, whatever else the object holds and in whatever order.
BodyAddress ==
    pc = "read" =>
        address = IF Member("ip") \in Words /\ Member("port") = "number"
                  THEN Member("ip") ELSE None
=============================================================================
