------------------------------ MODULE CJsonCopy -----------------------------
(***************************************************************************)
(* The functions of cJSON that go through whole trees or arrays: arrays    *)
(* created in one call, duplication and comparison.                        *)
(***************************************************************************)
EXTENDS CJsonHeap

\* The loop of cJSON_CreateIntArray, ...FloatArray, ...DoubleArray and
\* ...StringArray: i items are done, p is the last of them.
RECURSIVE CreateItems(_, _, _, _, _, _, _)
CreateItems(h, a, p, i, count, type, value) ==
    IF i = count
    THEN IF h.child[a] = NULL THEN Result([h EXCEPT !.fault = TRUE], NULL)
         ELSE Result([h EXCEPT !.prev[h.child[a]] = p], a)
    ELSE LET r == cJSON_Create(h, type, value)
             n == r.item
         IN  IF n = NULL THEN Result(cJSON_Delete(r.h, a), NULL)
             ELSE CreateItems(IF i = 0 THEN [r.h EXCEPT !.child[a] = n]
                              ELSE suffix_object(r.h, p, n),
                              a, n, i + 1, count, type, value)

\* A null array is dereferenced after the loop, which it skips, and so is
\* the null child of an empty one.
cJSON_CreateArrayOf(h, count, type, value) ==
    LET r == cJSON_Create(h, "Array", NULL)
    IN  IF r.item = NULL THEN Result([r.h EXCEPT !.fault = TRUE], NULL)
        ELSE CreateItems(r.h, r.item, NULL, 0, count, type, value)

-----------------------------------------------------------------------------
(* Duplication: a copy owns all it has, also when the original is a        *)
(* reference.  A failed allocation frees what was copied so far.           *)

RECURSIVE cJSON_Duplicate(_, _, _), DuplicateChildren(_, _, _, _)
cJSON_Duplicate(h, item, recurse) ==
    LET r == cJSON_New_Item(h)
        new == r.item
        h1 == [r.h EXCEPT !.type[new] = h.type[item],
                          !.const = IF item \in h.const THEN @ \cup {new} ELSE @]
        text == h.type[item] = "String" /\ h.value[item] # NULL
        h2 == [(IF text THEN Strdup(h1) ELSE h1) EXCEPT !.value[new] = h.value[item]]
        own == h.key[item] # NULL /\ item \notin h.const
        h3 == [(IF own THEN Strdup(h2) ELSE h2) EXCEPT !.key[new] = h.key[item]]
    IN  IF new = NULL THEN r
        ELSE IF text /\ NoRoom(h1) THEN Result(cJSON_Delete(h1, new), NULL)
        ELSE IF own /\ NoRoom(h2) THEN Result(cJSON_Delete(h2, new), NULL)
        ELSE IF ~recurse THEN Result(h3, new)
        ELSE DuplicateChildren(h3, new, NULL, h3.child[item])

\* next is the copy of the child before child.
DuplicateChildren(h, new, next, child) ==
    IF child = NULL
    THEN Result(IF h.child[new] = NULL THEN h ELSE [h EXCEPT !.prev[h.child[new]] = next], new)
    ELSE LET r == cJSON_Duplicate(h, child, TRUE)
             h1 == IF next = NULL THEN [r.h EXCEPT !.child[new] = r.item]
                   ELSE suffix_object(r.h, next, r.item)
         IN  IF r.item = NULL THEN Result(cJSON_Delete(r.h, new), NULL)
             ELSE DuplicateChildren(h1, new, r.item, h1.next[child])

-----------------------------------------------------------------------------
(* Comparison: objects are equal when each item of the one has an equal    *)
(* item under its key in the other, both ways round.                       *)

RECURSIVE cJSON_Compare(_, _, _, _)
cJSON_Compare(h, a, b, sensitive) ==
    LET Kids(x) == Walk(h, h.child[x], Cardinality(Node))
        Found(x, y) ==
            \A i \in 1 .. Len(Kids(x)) :
                LET e == Kids(x)[i]
                    f == get_object_item(h, y, h.key[e], sensitive)
                IN  f # NULL /\ cJSON_Compare(h, e, f, sensitive)
    IN  /\ a # NULL /\ b # NULL /\ h.type[a] = h.type[b]
        /\ \/ a = b
           \/ h.type[a] \in {"Number", "String"} /\ h.value[a] = h.value[b]
           \/ /\ h.type[a] = "Array"
              /\ Len(Kids(a)) = Len(Kids(b))
              /\ \A i \in 1 .. Len(Kids(a)) :
                    cJSON_Compare(h, Kids(a)[i], Kids(b)[i], sensitive)
           \/ h.type[a] = "Object" /\ Found(a, b) /\ Found(b, a)
=============================================================================
