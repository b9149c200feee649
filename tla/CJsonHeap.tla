----------------------------- MODULE CJsonHeap ------------------------------
(***************************************************************************)
(* cJSON's items: allocation, ownership and keys.                          *)
(*                                                                         *)
(* A heap is a record: live items; the members of each item; the number of *)
(* live blocks that hold strings (strs); how many more allocations succeed *)
(* before one fails (mem), and how many items there may be (cap); and      *)
(* whether freed or null memory was touched (fault). ref and const are the *)
(* items with the flags cJSON_IsReference and cJSON_StringIsConst. value   *)
(* is valuestring of a String and the number of a Number; True, False,     *)
(* Null behave like a Number, Raw like a String. A key is a pair of a word *)
(* and a spelling (upper or lower case).                                   *)
(***************************************************************************)
EXTENDS CJsonLinks, FiniteSets

\* cJSON_New_Item takes the lowest address that is free.
ASSUME NodeAssumption == Node \subseteq Nat /\ IsFiniteSet(Node)

Nothing == [n \in Node |-> NULL]

EmptyHeap ==
    [live |-> {}, type |-> Nothing, value |-> Nothing, key |-> Nothing,
     const |-> {}, ref |-> {}, child |-> Nothing, next |-> Nothing, prev |-> Nothing,
     strs |-> 0, mem |-> 0, cap |-> Cardinality(Node), fault |-> FALSE]

Result(h, item) == [h |-> h, item |-> item]

-----------------------------------------------------------------------------
(* Allocation.                                                             *)

\* malloc of a string fails.
NoRoom(h) == h.mem = 0

\* A string was copied.
Strdup(h) == [h EXCEPT !.mem = @ - 1, !.strs = @ + 1]

\* The bound on items is reached; it looks like a failed allocation.
Full(h) == Cardinality(h.live) = h.cap

cJSON_New_Item(h) ==
    IF NoRoom(h) \/ Full(h) THEN Result(h, NULL)
    ELSE LET n == CHOOSE x \in Node \ h.live : \A y \in Node \ h.live : x <= y
         IN  Result([h EXCEPT !.mem = @ - 1, !.live = @ \cup {n}], n)

\* The strings an item owns.
Owned(h, n) ==
    (IF n \notin h.ref /\ h.type[n] = "String" /\ h.value[n] # NULL THEN 1 ELSE 0)
    + (IF n \notin h.const /\ h.key[n] # NULL THEN 1 ELSE 0)

\* The item's own memory goes back, with its strings.
Deallocate(h, n) ==
    [h EXCEPT !.strs = @ - Owned(h, n), !.live = @ \ {n}, !.ref = @ \ {n}, !.const = @ \ {n},
              !.type[n] = NULL, !.value[n] = NULL, !.key[n] = NULL,
              !.child[n] = NULL, !.next[n] = NULL, !.prev[n] = NULL]

\* The items cJSON_Delete comes to from item, in the order in which it frees
\* them: the children of an item, the item, its siblings along next.  The
\* children of a reference belong to another item.  More pointers in a row than
\* there are items lead to an item for the second time.
FreeOrder(h, item) ==
    LET depth == Cardinality(Node) + 1
        from[k \in 0 .. depth] ==
            [x \in Node \cup {NULL} |->
                IF x = NULL \/ k = 0 THEN <<>>
                ELSE (IF x \in h.ref THEN <<>> ELSE from[k - 1][h.child[x]])
                     \o <<x>> \o from[k - 1][h.next[x]]]
    IN  from[depth][item]

\* Frees the items of s one after the other; what is freed already must not be
\* touched again.
FreeAll(h, s) ==
    LET freed[i \in 0 .. Len(s)] ==
            IF i = 0 THEN h
            ELSE IF s[i] \in freed[i - 1].live THEN Deallocate(freed[i - 1], s[i])
            ELSE [freed[i - 1] EXCEPT !.fault = TRUE]
    IN  freed[Len(s)]

cJSON_Delete(h, item) == FreeAll(h, FreeOrder(h, item))

-----------------------------------------------------------------------------
(* Creation.                                                               *)

\* cJSON_CreateNull ... cJSON_CreateObject: a String needs a second block.
cJSON_Create(h, type, value) ==
    LET r == cJSON_New_Item(h)
        h1 == [r.h EXCEPT !.type[r.item] = type]
    IN  IF r.item = NULL THEN r
        ELSE IF type \in {"Array", "Object"} THEN Result(h1, r.item)
        ELSE IF type # "String" THEN Result([h1 EXCEPT !.value[r.item] = value], r.item)
        ELSE IF NoRoom(h1) THEN Result(cJSON_Delete(h1, r.item), NULL)
        ELSE Result([Strdup(h1) EXCEPT !.value[r.item] = value], r.item)

\* cJSON_CreateStringReference, cJSON_CreateArrayReference and
\* cJSON_CreateObjectReference: the content belongs to somebody else.
cJSON_CreateReference(h, type, value, child) ==
    LET r == cJSON_New_Item(h)
    IN  IF r.item = NULL THEN r
        ELSE Result([r.h EXCEPT !.type[r.item] = type, !.value[r.item] = value,
                                !.child[r.item] = child, !.ref = @ \cup {r.item}], r.item)

\* A copy of the item's members, without its key and its place in a list.
create_reference(h, item) ==
    LET r == cJSON_CreateReference(h, h.type[item], h.value[item], h.child[item])
    IN  IF r.item = NULL \/ item \notin h.const THEN r
        ELSE Result([r.h EXCEPT !.const = @ \cup {r.item}], r.item)

-----------------------------------------------------------------------------
(* Objects.                                                                *)

\* The keys are equal, in the sense of an answer of 0; null equals nothing.
case_insensitive_strcmp(k, l) == k # NULL /\ l # NULL /\ k[1] = l[1]

\* Faulty variant: spelling never matters.
FirstOfWord(h, object, name, sensitive) ==
    LET s == Walk(h, h.child[object], Cardinality(Node))
        hits == {i \in 1 .. Len(s) : case_insensitive_strcmp(name, h.key[s[i]])}
    IN  IF hits = {} THEN NULL ELSE s[CHOOSE i \in hits : \A j \in hits : i <= j]

\* Faulty variant: the last child with that key.
LastHit(h, object, name, sensitive) ==
    LET s == Walk(h, h.child[object], Cardinality(Node))
        Stops(x) == IF sensitive THEN h.key[x] \in {NULL, name}
                    ELSE case_insensitive_strcmp(name, h.key[x])
        hits == {i \in 1 .. Len(s) : Stops(s[i])}
    IN  IF name = NULL \/ hits = {} THEN NULL
        ELSE LET x == s[CHOOSE i \in hits : \A j \in hits : i >= j]
             IN  IF h.key[x] = NULL THEN NULL ELSE x

\* The first child with that key; a case-sensitive search ends at a child
\* without a key.
get_object_item(h, object, name, sensitive) ==
    LET s == Walk(h, h.child[object], Cardinality(Node))
        Stops(x) == IF sensitive THEN h.key[x] \in {NULL, name}
                    ELSE case_insensitive_strcmp(name, h.key[x])
        hits == {i \in 1 .. Len(s) : Stops(s[i])}
    IN  IF name = NULL \/ hits = {} THEN NULL
        ELSE LET x == s[CHOOSE i \in hits : \A j \in hits : i <= j]
             IN  IF h.key[x] = NULL THEN NULL ELSE x

\* Faulty variant: the old key is forgotten.
SetKeyLeaks(h, item, key, constant) ==
    [h EXCEPT !.key[item] = key, !.const = IF constant THEN @ \cup {item} ELSE @ \ {item}]

\* The old key is freed unless it is a constant.
SetKey(h, item, key, constant) ==
    [h EXCEPT !.strs = @ - (IF item \notin h.const /\ h.key[item] # NULL THEN 1 ELSE 0),
              !.key[item] = key,
              !.const = IF constant THEN @ \cup {item} ELSE @ \ {item}]

\* What add_item_to_object answers, for a key that is not null.
CanAddToObject(h, object, item, constant) ==
    MayAdd(object, item) /\ (constant \/ ~NoRoom(h))

add_item_to_object(h, object, key, item, constant) ==
    IF ~CanAddToObject(h, object, item, constant) THEN h
    ELSE LET h1 == IF constant THEN h ELSE Strdup(h)
         IN  add_item_to_array(SetKey(h1, item, key, constant), object, item)

\* The key is replaced first, whether or not the object has that key; when
\* it cannot be copied the replacement has none.
NewKey(h, replacement, key) ==
    IF NoRoom(h) THEN SetKey(h, replacement, NULL, FALSE)
    ELSE SetKey(Strdup(h), replacement, key, FALSE)

cJSON_ReplaceItemViaPointer(h, parent, item, replacement) ==
    IF item = NULL \/ replacement = item THEN h
    ELSE cJSON_Delete(RelinkReplacement(h, parent, item, replacement), item)

=============================================================================
