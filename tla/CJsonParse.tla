----------------------------- MODULE CJsonParse -----------------------------
(***************************************************************************)
(* cJSON's recursive-descent parser, cJSON_ParseWithOpts, and BodyParse,   *)
(* which reads a client's address from the body of its request with it.    *)
(*                                                                         *)
(* A character of the text stands for what the parser tells apart: a       *)
(* bracket, brace, comma or colon; " " a blank; a string literal, by its   *)
(* word (CJsonText looks inside); "number"; "literal" (null, true, false); *)
(* "bom"; "NUL", which ends the text; "bad", which starts no value, among  *)
(* them a string or number that is malformed.  The text is chosen as it is *)
(* read.                                                                   *)
(*                                                                         *)
(* A frame stands for a call of parse_array or parse_object: its item, and *)
(* head and current_item of the list it builds.  Each step ends where the  *)
(* next character is looked at, or where memory is allocated or freed.     *)
(***************************************************************************)
EXTENDS CJsonHeap

CONSTANTS
    Inputs,         \* kinds of texts: the characters they may have (chars), how many
                    \* before the NUL at most (len), how many allocations may succeed (mems)
    NestingLimit    \* CJSON_NESTING_LIMIT

ASSUME LimitAssumption == NestingLimit \in Nat

ASSUME InputsAssumption == \A i \in Inputs : i.mems \subseteq Nat

VARIABLES
    input,      \* the kind of text
    h,          \* the heap
    text,       \* the text as far as it was read
    off,        \* buffer.offset
    depth,      \* buffer.depth
    frames,     \* calls of parse_array and parse_object, the outermost first
    pc,         \* where the parser is
    strict,     \* require_null_terminated
    root,       \* the item to return
    address     \* what BodyParse answers

vars == <<input, h, text, off, depth, frames, pc, strict, root, address>>

None == "none"

\* String literals, and the keys they make.
Words == {"ip", "IP", "port", "word"}

WordKeys == [w \in Words |-> IF w = "IP" THEN <<"ip", "upper">> ELSE <<w, "lower">>]

ASSUME WordsAssumption == NULL \notin Words /\ \A w \in Words : WordKeys[w] # NULL

ParseInit ==
    /\ input \in Inputs
    /\ \E mem \in input.mems : h = [EmptyHeap EXCEPT !.mem = mem]
    /\ text = <<>> /\ off = 0 /\ depth = 0 /\ frames = <<>>
    /\ pc = "begin" /\ strict \in BOOLEAN /\ root = NULL /\ address = None

-----------------------------------------------------------------------------
(* The buffer.                                                             *)

Ended == text # <<>> /\ text[Len(text)] = "NUL"

\* can_access_at_index(buffer, 0), for what was read of the text
Accessible == off < Len(text)

Char == text[off + 1]

Reading == pc \in {"begin", "value", "open", "name", "colon", "done", "end"}

\* The next character of the text; it becomes known when the parser looks.
ReadChar ==
    /\ Reading /\ ~Accessible /\ ~Ended
    /\ \E c \in (IF Len(text) < input.len THEN input.chars ELSE {}) \cup {"NUL"} : text' = Append(text, c)
    /\ UNCHANGED <<input, h, off, depth, frames, pc, strict, root, address>>

Blank(c) == c \in {" ", "NUL"}

\* Faulty variant: it may end behind the text.
SkipsPastEnd(o) == o + 1

\* One round of buffer_skip_whitespace.  The NUL counts as a blank; behind it
\* the offset is stepped back.
SkipTo(o) == IF text[o + 1] = "NUL" THEN o ELSE o + 1

\* Not between parse_value and the check of its result for the whole text: a
\* parser that is not strict looks at nothing behind the value.
buffer_skip_whitespace ==
    /\ pc \in {"value", "open", "name", "colon", "done", "end"}
    /\ Accessible /\ Blank(Char) /\ SkipTo(off) # off
    /\ off' = SkipTo(off)
    /\ UNCHANGED <<input, h, text, depth, frames, pc, strict, root, address>>

\* The parser has a character it does not skip.
Sees(c) == Accessible /\ Char = c /\ (Blank(c) => SkipTo(off) = off)

Top == frames[Len(frames)]

\* The item that parse_value fills in.
Current == IF frames = <<>> THEN root ELSE Top.current

\* Faulty variant: both kinds of list end with the same bracket.
SquareCloser == "]"

Closer == IF Top.kind = "Array" THEN "]" ELSE "}"

GoTo(p) == pc' = p /\ UNCHANGED <<input, text, strict, address>>

Fail == GoTo("fail") /\ UNCHANGED <<h, off, depth, frames, root>>

-----------------------------------------------------------------------------
(* parse_value and the functions it calls.                                 *)

\* The root item; skip_utf8_bom.  (A mark with nothing behind it is not
\* skipped in the code; either way there is no value.)
Begin ==
    /\ pc = "begin" /\ Accessible
    /\ LET r == cJSON_New_Item(h)
       IN  IF r.item = NULL THEN Fail
           ELSE /\ h' = r.h /\ root' = r.item
                /\ off' = IF Char = "bom" THEN 1 ELSE 0
                /\ GoTo("value") /\ UNCHANGED <<depth, frames>>

parse_literal ==
    /\ pc = "value"
    /\ \/ Sees("literal") /\ h' = [h EXCEPT !.type[Current] = "Literal"]
       \/ Sees("number") /\ h' = [h EXCEPT !.type[Current] = "Number"]
    /\ off' = off + 1
    /\ GoTo("done") /\ UNCHANGED <<depth, frames, root>>

\* parse_string, as the value of an item.
parse_string ==
    /\ pc = "value"
    /\ \E w \in Words :
        /\ Sees(w)
        /\ IF NoRoom(h) THEN Fail
           ELSE /\ h' = [Strdup(h) EXCEPT !.type[Current] = "String", !.value[Current] = w]
                /\ off' = off + 1
                /\ GoTo("done") /\ UNCHANGED <<depth, frames, root>>

TooDeep == depth >= NestingLimit

\* parse_array and parse_object, up to the character behind the bracket.
OpenList ==
    /\ pc = "value"
    /\ \E k \in {<<"[", "Array">>, <<"{", "Object">>} :
        /\ Sees(k[1])
        /\ IF TooDeep THEN Fail
           ELSE /\ frames' = Append(frames, [kind |-> k[2], item |-> Current,
                                             head |-> NULL, current |-> NULL])
                /\ depth' = depth + 1 /\ off' = off + 1
                /\ GoTo("open") /\ UNCHANGED <<h, root>>

NoValue ==
    /\ pc = "value"
    /\ \E c \in {"]", "}", ",", ":", "bad", "bom", "NUL"} : Sees(c)
    /\ Fail

\* An empty list, or the first item.
FirstItem ==
    /\ pc = "open" /\ Accessible /\ Sees(Char)
    /\ GoTo(IF Char = Closer THEN "close" ELSE "item")
    /\ UNCHANGED <<h, off, depth, frames, root>>

\* Faulty variant: the new item is linked when its value is complete.
LinkLate(r) == frames' = [frames EXCEPT ![Len(frames)].current = r.item] /\ h' = r.h

\* The new item goes to the end of the list.
Link(r) ==
    /\ frames' = [frames EXCEPT ![Len(frames)].current = r.item,
                                ![Len(frames)].head = IF @ = NULL THEN r.item ELSE @]
    /\ h' = IF Top.head = NULL THEN r.h ELSE suffix_object(r.h, Top.current, r.item)

NextItem ==
    /\ pc = "item"
    /\ LET r == cJSON_New_Item(h)
       IN  IF r.item = NULL THEN Fail
           ELSE /\ Link(r)
                /\ GoTo(IF Top.kind = "Array" THEN "value" ELSE "name")
                /\ UNCHANGED <<off, depth, root>>

\* parse_string for the name of an item; its text becomes the item's key.
ParseName ==
    /\ pc = "name" /\ Accessible /\ Sees(Char)
    /\ IF Char \notin Words \/ NoRoom(h) THEN Fail
       ELSE /\ h' = [Strdup(h) EXCEPT !.type[Current] = "String", !.key[Current] = WordKeys[Char]]
            /\ off' = off + 1
            /\ GoTo("colon") /\ UNCHANGED <<depth, frames, root>>

ParseColon ==
    /\ pc = "colon" /\ Accessible /\ Sees(Char)
    /\ IF Char # ":" THEN Fail
       ELSE off' = off + 1 /\ GoTo("value") /\ UNCHANGED <<h, depth, frames, root>>

\* Behind an item: a comma, the end of the list, or an error.
AfterItem ==
    /\ pc = "done" /\ frames # <<>> /\ Accessible /\ Sees(Char)
    /\ CASE Char = "," -> off' = off + 1 /\ GoTo("item") /\ UNCHANGED <<h, depth, frames, root>>
         [] Char = Closer -> GoTo("close") /\ UNCHANGED <<h, off, depth, frames, root>>
         [] OTHER -> Fail

\* Faulty variant: the first item does not know the last.
OpenRing(g) == g

CloseRing(g) == IF Top.head = NULL THEN g ELSE [g EXCEPT !.prev[Top.head] = Top.current]

Return(fs) == SubSeq(fs, 1, Len(fs) - 1)

CloseList ==
    /\ pc = "close"
    /\ h' = [CloseRing(h) EXCEPT !.type[Top.item] = Top.kind, !.child[Top.item] = Top.head]
    /\ depth' = depth - 1 /\ off' = off + 1
    /\ frames' = Return(frames)
    /\ GoTo("done") /\ UNCHANGED root

-----------------------------------------------------------------------------
(* cJSON_ParseWithLengthOpts after parse_value.                            *)

\* Each call on the stack deletes the list it has built, then the root goes.
Unwind ==
    /\ pc = "fail"
    /\ IF frames # <<>>
       THEN /\ h' = cJSON_Delete(h, Top.head)
            /\ frames' = Return(frames)
            /\ GoTo("fail") /\ UNCHANGED root
       ELSE h' = cJSON_Delete(h, root) /\ root' = NULL /\ GoTo("failed") /\ UNCHANGED frames
    /\ UNCHANGED <<off, depth>>

Complete ==
    /\ pc = "done" /\ frames = <<>>
    /\ GoTo(IF strict THEN "end" ELSE "parsed") /\ UNCHANGED <<h, off, depth, frames, root>>

CheckEnd ==
    /\ pc = "end" /\ Accessible /\ Sees(Char)
    /\ IF Char = "NUL" THEN GoTo("parsed") /\ UNCHANGED <<h, off, depth, frames, root>>
       ELSE Fail

\* BodyParse: the items under ip and port must be a string and a number.
BodyParse ==
    /\ pc = "parsed"
    /\ LET ip == get_object_item(h, root, <<"ip", "lower">>, FALSE)
           port == get_object_item(h, root, <<"port", "lower">>, FALSE)
       IN  address' = IF /\ ip # NULL /\ port # NULL
                         /\ h.type[ip] = "String" /\ h.type[port] = "Number"
                      THEN h.value[ip] ELSE None
    /\ h' = cJSON_Delete(h, root) /\ root' = NULL /\ pc' = "read"
    /\ UNCHANGED <<input, text, off, depth, frames, strict>>

Over == pc \in {"failed", "read"} /\ UNCHANGED vars

ParseNext ==
    \/ ReadChar \/ buffer_skip_whitespace
    \/ Begin \/ parse_literal \/ parse_string \/ OpenList \/ NoValue
    \/ FirstItem \/ NextItem \/ ParseName \/ ParseColon \/ AfterItem \/ CloseList
    \/ Unwind \/ Complete \/ CheckEnd \/ BodyParse \/ Over

ParseSpec == ParseInit /\ [][ParseNext]_vars

(***************************************************************************)
(* Properties.                                                             *)
(***************************************************************************)

\* Every byte the parser looks at is inside the text or its NUL
\* (buffer_skip_whitespace steps back from the end), and the recursion never gets
\* deeper than the limit.
InBounds ==
    /\ Ended => off < Len(text)
    /\ depth <= NestingLimit
    /\ pc \notin {"fail", "failed"} => Len(frames) = depth

\* Wherever the parser gives up, for an error in the text or for want of memory,
\* every item and every string it allocated is freed, and no item is freed
\* twice; BodyParse leaves nothing behind either.
ParseFreesAll ==
    /\ ~h.fault
    /\ pc \in {"failed", "read"} => h.live = {} /\ h.strs = 0

Kids(n) == Walk(h, h.child[n], Cardinality(Node) + 1)

\* The tree that is returned is made of proper cJSON lists, so that the editing
\* functions may be used on it, and holds every item that is allocated.
ParsedWellFormed ==
    pc = "parsed" =>
        /\ \A p \in h.live : Represents(h, p, Kids(p))
        /\ \A n \in h.live \ {root} :
              Cardinality({p \in h.live : \E i \in 1 .. Len(Kids(p)) : Kids(p)[i] = n}) = 1
=============================================================================
