----------------------------- MODULE CJsonLinks -----------------------------
(***************************************************************************)
(* cJSON's lists of children: the pointer surgery on the items of an array *)
(* or object.                                                              *)
(*                                                                         *)
(* h.child, h.next and h.prev are the members of those names, as functions *)
(* of the item's address.  The first child's prev points to the last child *)
(* and the last child's next is null.  A heap may have more fields; these  *)
(* operators leave them alone.                                             *)
(***************************************************************************)
EXTENDS Naturals, Sequences

CONSTANTS
    Node,   \* addresses of items
    NULL

ASSUME NullAssumption == NULL \notin Node

-----------------------------------------------------------------------------
(* What a list of children stands for.                                     *)

\* The children of p in h are the items of s, in this order.
Represents(h, p, s) ==
    /\ \A i, j \in 1 .. Len(s) : s[i] = s[j] => i = j
    /\ h.child[p] = IF s = <<>> THEN NULL ELSE s[1]
    /\ \A i \in 1 .. Len(s) :
        /\ h.next[s[i]] = IF i = Len(s) THEN NULL ELSE s[i + 1]
        /\ h.prev[s[i]] = IF i = 1 THEN s[Len(s)] ELSE s[i - 1]

\* The first k items met from item along next, fewer if the list ends.
Walk(h, item, k) ==
    LET from[i \in 0 .. k] ==
            [x \in Node \cup {NULL} |->
                IF x = NULL \/ i = 0 THEN <<>> ELSE <<x>> \o from[i - 1][h.next[x]]]
    IN  from[k][item]

-----------------------------------------------------------------------------
(* The list operations.                                                    *)

\* index steps along next from the first child; null past the end.
get_array_item(h, array, index) ==
    LET s == Walk(h, h.child[array], index + 1)
    IN  IF Len(s) = index + 1 THEN s[index + 1] ELSE NULL

suffix_object(h, prev, item) == [h EXCEPT !.next[prev] = item, !.prev[item] = prev]

\* The null and self check of add_item_to_array.
MayAdd(array, item) == NULL \notin {array, item} /\ array # item

\* Faulty variant: the first child's prev is not moved to the new last child.
AddKeepsTail(h, array, item) ==
    LET child == h.child[array]
    IN  IF ~MayAdd(array, item)
        THEN h
        ELSE IF child = NULL
        THEN [h EXCEPT !.child[array] = item, !.prev[item] = item, !.next[item] = NULL]
        ELSE suffix_object(h, h.prev[child], item)

\* Faulty variant: every item starts a new list.
AddStartsOver(h, array, item) ==
    IF ~MayAdd(array, item) THEN h
    ELSE [h EXCEPT !.child[array] = item, !.prev[item] = item, !.next[item] = NULL]

\* Append item.
add_item_to_array(h, array, item) ==
    LET child == h.child[array]
    IN  IF ~MayAdd(array, item)
        THEN h
        ELSE IF child = NULL
        THEN [h EXCEPT !.child[array] = item, !.prev[item] = item, !.next[item] = NULL]
        ELSE IF h.prev[child] = NULL
        THEN h
        ELSE [suffix_object(h, h.prev[child], item) EXCEPT !.prev[child] = item]

\* Unlink item, a child of parent.
cJSON_DetachItemViaPointer(h, parent, item) ==
    LET first == h.child[parent] = item
        h1 == IF first THEN h ELSE [h EXCEPT !.next[h.prev[item]] = h.next[item]]
        h2 == IF h.next[item] = NULL THEN h1
              ELSE [h1 EXCEPT !.prev[h.next[item]] = h.prev[item]]
        h3 == IF first THEN [h2 EXCEPT !.child[parent] = h.next[item]]
              ELSE IF h.next[item] = NULL THEN [h2 EXCEPT !.prev[h.child[parent]] = h.prev[item]]
              ELSE h2
    IN  [h3 EXCEPT !.prev[item] = NULL, !.next[item] = NULL]

\* Put newitem in front of after, a child of array.
InsertBefore(h, array, after, newitem) ==
    LET last == h.prev[after]
        h1 == [h EXCEPT !.next[newitem] = after, !.prev[newitem] = last,
                        !.prev[after] = newitem]
    IN  IF after = h.child[array]
        THEN [h1 EXCEPT !.child[array] = newitem]
        ELSE [h1 EXCEPT !.next[last] = newitem]

\* Past the end the item is appended.
cJSON_InsertItemInArray(h, array, which, newitem) ==
    LET after == get_array_item(h, array, which)
    IN  IF after = NULL THEN add_item_to_array(h, array, newitem)
        ELSE InsertBefore(h, array, after, newitem)

\* cJSON_ReplaceItemViaPointer up to the call of cJSON_Delete.
RelinkReplacement(h, parent, item, replacement) ==
    LET h1 == [h EXCEPT !.next[replacement] = h.next[item],
                        !.prev[replacement] = h.prev[item]]
        h2 == IF h.next[item] = NULL THEN h1
              ELSE [h1 EXCEPT !.prev[h.next[item]] = replacement]
        h3 == IF h.child[parent] = item
              THEN [h2 EXCEPT !.prev[replacement] = IF h2.prev[item] = item THEN replacement ELSE @,
                              !.child[parent] = replacement]
              ELSE LET h4 == IF h2.prev[replacement] = NULL THEN h2
                             ELSE [h2 EXCEPT !.next[h2.prev[replacement]] = replacement]
                   IN  IF h4.next[replacement] # NULL THEN h4
                       ELSE [h4 EXCEPT !.prev[h.child[parent]] = replacement]
    IN  [h3 EXCEPT !.prev[item] = NULL, !.next[item] = NULL]
=============================================================================
