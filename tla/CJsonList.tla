----------------------------- MODULE CJsonList ------------------------------
(***************************************************************************)
(* A program that builds and edits JSON documents through cJSON's          *)
(* interface, one call at a time, with an allocator that may fail at any   *)
(* point of a call.                                                        *)
(*                                                                         *)
(* held is the set of items the program got from cJSON and has to delete.  *)
(* The guards are the duties of the caller: an item is attached only once  *)
(* and never below itself, children are not edited through a reference,    *)
(* and nothing is freed that a reference outside still shows.              *)
(***************************************************************************)
EXTENDS CJsonCopy

CONSTANTS
    Values,     \* numbers and strings
    Programs    \* the programs: records of the bounds and choices below

VARIABLES
    program,    \* the program that runs
    h,          \* the heap
    held,       \* items the program owns
    copied,     \* <<original, copy>> after a deep copy, else <<>>
    lost        \* history: references whose address a call threw away

vars == <<program, h, held, copied, lost>>

Kinds == program.kinds      \* the types of items that are created
Keys == program.keys        \* keys of objects
Mems == program.mems        \* how many allocations of a call may succeed
Uses == program.uses        \* parts of the interface that are used: among "array",
                            \* "object", "new", "remove", "reference", "copy"
ArrayCalls == program.calls \* calls of cJSON_CreateIntArray and the like: <<count, mem>>
MaxHeld == program.held     \* bound: items the program owns when it asks for another

\* program.items bounds the items there are.
ListInit ==
    /\ program \in Programs
    /\ h = [EmptyHeap EXCEPT !.cap = program.items]
    /\ held = {} /\ copied = <<>> /\ lost = {}

-----------------------------------------------------------------------------
KidsOf(n) == Walk(h, h.child[n], Cardinality(Node) + 1)

Shown(n) == LET s == KidsOf(n) IN {s[i] : i \in 1 .. Len(s)}

\* n and everything below it, through references too if deep.
Below(n, deep) ==
    LET Step(S) == S \cup UNION {Shown(m) : m \in {x \in S : deep \/ x \notin h.ref}}
        below[k \in 0 .. h.cap] == IF k = 0 THEN {n} ELSE Step(below[k - 1])
    IN  below[h.cap]

\* Containers whose children may be edited.
Editable == {p \in h.live \ h.ref : h.type[p] \in {"Array", "Object"}}

MayAttach(p, n) == p \notin Below(n, FALSE)

\* Items the program can still get at.
Reachable == h.live \ lost

MayFree(n) == \A r \in (h.ref \cap Reachable) \ Below(n, FALSE) : h.child[r] \notin Below(n, FALSE)

Finite(n) == \A m \in Below(n, TRUE) : \A k \in Shown(m) : m \notin Below(k, TRUE)

Start(mem) == [h EXCEPT !.mem = mem]

\* The call is over: the heap is g, the program holds the items of own, and
\* those of gone belong to nobody.
FinishLosing(g, own, gone) ==
    /\ h' = [g EXCEPT !.mem = 0] /\ held' = own \ {NULL} /\ copied' = <<>>
    /\ lost' = lost \cup (gone \ {NULL})
    /\ UNCHANGED program

Finish(g, own) == FinishLosing(g, own, {})

-----------------------------------------------------------------------------
(* The calls.                                                              *)

Create(kind, value, mem) ==
    LET r == cJSON_Create(Start(mem), kind, value) IN Finish(r.h, held \cup {r.item})

CreateReference(n, value, mem) ==
    LET r == IF h.type[n] = "String" THEN cJSON_CreateReference(Start(mem), "String", value, NULL)
             ELSE cJSON_CreateReference(Start(mem), h.type[n], NULL, h.child[n])
    IN  Finish(r.h, held \cup {r.item})

\* The bound on items is not taken for a failure to allocate the array itself.
CreateArrayOf(call, kind, value) ==
    LET r == cJSON_CreateArrayOf(Start(call[2]), call[1], kind, value)
    IN  ~Full(h) /\ Finish(r.h, held \cup {r.item})

AddItemToArray(p, n) == MayAttach(p, n) /\ Finish(add_item_to_array(h, p, n), held \ {n})

AddItemToObject(p, key, n, constant, mem) ==
    /\ MayAttach(p, n)
    /\ Finish(add_item_to_object(Start(mem), p, key, n, constant),
              IF CanAddToObject(Start(mem), p, n, constant) THEN held \ {n} ELSE held)

AddItemReferenceToArray(p, n, mem) ==
    LET r == create_reference(Start(mem), n)
    IN  Finish(add_item_to_array(r.h, p, r.item), held)

\* When the reference cannot be added its address is gone.
AddItemReferenceToObject(p, key, n, mem) ==
    LET r == create_reference(Start(mem), n)
    IN  FinishLosing(add_item_to_object(r.h, p, key, r.item, FALSE), held,
                     IF CanAddToObject(r.h, p, r.item, FALSE) THEN {} ELSE {r.item})

\* cJSON_AddNullToObject ... cJSON_AddArrayToObject: the new item is deleted
\* again when it cannot be added.
AddNewToObject(p, key, kind, value, mem) ==
    LET r == cJSON_Create(Start(mem), kind, value)
    IN  Finish(IF CanAddToObject(r.h, p, r.item, FALSE)
               THEN add_item_to_object(r.h, p, key, r.item, FALSE)
               ELSE cJSON_Delete(r.h, r.item), held)

Detach(p, item) == Finish(cJSON_DetachItemViaPointer(h, p, item), held \cup {item})

DetachItemFromArray(p, which) ==
    LET item == get_array_item(h, p, which)
    IN  item # NULL /\ Detach(p, item)

DetachItemFromObject(p, key, sensitive) ==
    LET item == get_object_item(h, p, key, sensitive)
    IN  item # NULL /\ Detach(p, item)

DeleteDetached(p, item) ==
    /\ item # NULL /\ MayFree(item)
    /\ Finish(cJSON_Delete(cJSON_DetachItemViaPointer(h, p, item), item), held)

DeleteItemFromArray(p, which) == DeleteDetached(p, get_array_item(h, p, which))

DeleteItemFromObject(p, key, sensitive) ==
    DeleteDetached(p, get_object_item(h, p, key, sensitive))

InsertItemInArray(p, which, n) ==
    MayAttach(p, n) /\ Finish(cJSON_InsertItemInArray(h, p, which, n), held \ {n})

ReplaceItem(g, p, item, n) ==
    /\ MayAttach(p, n)
    /\ item # NULL => MayFree(item)
    /\ Finish(cJSON_ReplaceItemViaPointer(g, p, item, n),
              IF item = NULL THEN held ELSE held \ {n})

ReplaceItemInArray(p, which, n) == ReplaceItem(h, p, get_array_item(h, p, which), n)

replace_item_in_object(p, key, n, sensitive, mem) ==
    ReplaceItem(NewKey(Start(mem), n, key), p, get_object_item(h, p, key, sensitive), n)

Duplicate(n, recurse, mem) ==
    LET r == cJSON_Duplicate(Start(mem), n, recurse)
    IN  /\ Finite(n) /\ Cardinality(held) < MaxHeld
        /\ h' = [r.h EXCEPT !.mem = 0]
        /\ held' = (held \cup {r.item}) \ {NULL}
        /\ copied' = IF recurse /\ r.item # NULL THEN <<n, r.item>> ELSE <<>>
        /\ UNCHANGED <<program, lost>>

Delete(n) == MayFree(n) /\ Finish(cJSON_Delete(h, n), held \ {n})

-----------------------------------------------------------------------------
CreateCalls ==
    Cardinality(held) < MaxHeld /\ \E value \in Values :
        \/ \E kind \in Kinds, mem \in Mems : Create(kind, value, mem)
        \/ \E call \in ArrayCalls, kind \in Kinds \ {"Array", "Object"} :
              CreateArrayOf(call, kind, value)

\* Positions: those of the children, and one past the end.
ArrayCallsOn(p) ==
    \/ \E n \in held : AddItemToArray(p, n)
    \/ \E n \in held, which \in 0 .. Len(KidsOf(p)) : InsertItemInArray(p, which, n)

ObjectCallsOn(p, key) ==
    \E n \in held, mem \in {0, 9}, constant \in BOOLEAN :
        AddItemToObject(p, key, n, constant, mem)

NewCallsOn(p, key) ==
    \E mem \in Mems, kind \in Kinds, value \in Values :
        AddNewToObject(p, key, kind, value, mem)

RemoveCallsOn(p) ==
    \/ \E which \in 0 .. Len(KidsOf(p)) :
          \/ DetachItemFromArray(p, which)
          \/ DeleteItemFromArray(p, which)
          \/ \E n \in held : ReplaceItemInArray(p, which, n)
    \/ \E key \in Keys, sensitive \in BOOLEAN :
          \/ DetachItemFromObject(p, key, sensitive)
          \/ DeleteItemFromObject(p, key, sensitive)
          \/ \E n \in held, mem \in {0, 9} : replace_item_in_object(p, key, n, sensitive, mem)

ReferenceCallsTo(n, mem) ==
    \/ \E value \in Values : CreateReference(n, value, mem)
    \/ \E p \in Editable :
          \/ AddItemReferenceToArray(p, n, mem)
          \/ \E key \in Keys : AddItemReferenceToObject(p, key, n, mem)

ListNext ==
    /\ ~h.fault
    /\ \/ CreateCalls
       \/ "array" \in Uses /\ \E p \in Editable : ArrayCallsOn(p)
       \/ "object" \in Uses /\ \E p \in Editable, key \in Keys : ObjectCallsOn(p, key)
       \/ "new" \in Uses /\ \E p \in Editable, key \in Keys : NewCallsOn(p, key)
       \/ "remove" \in Uses /\ \E n \in held : Delete(n)
       \/ "remove" \in Uses /\ \E p \in Editable : RemoveCallsOn(p)
       \/ "reference" \in Uses /\ \E n \in Reachable, mem \in Mems : ReferenceCallsTo(n, mem)
       \/ "copy" \in Uses /\ \E n \in Reachable, recurse \in BOOLEAN, mem \in Mems :
                                Duplicate(n, recurse, mem)

ListSpec == ListInit /\ [][ListNext]_vars

(***************************************************************************)
(* Properties.                                                             *)
(***************************************************************************)

Containers == h.live \ h.ref

Attached(n) == \E p \in Containers : n \in Shown(p)

\* Every list of children is a proper cJSON list (next runs through live items to
\* null, prev runs back and from the first to the last), no item is in two
\* lists, and an item the program owns is linked to nothing: the pointer surgery
\* of add_item_to_array, cJSON_DetachItemViaPointer, cJSON_InsertItemInArray and
\* cJSON_ReplaceItemViaPointer keeps up with each other.
ListsWellFormed ==
    /\ \A p \in Containers : Shown(p) \subseteq h.live /\ Represents(h, p, KidsOf(p))
    /\ \A p, q \in Containers : p # q => Shown(p) \cap Shown(q) = {}
    /\ \A n \in held : n \in h.live /\ ~Attached(n) /\ h.next[n] = NULL /\ h.prev[n] = NULL

\* Whatever allocation fails, no call frees an item twice or follows a pointer to a
\* freed one, none leaves an item behind that nobody owns, and every string
\* block belongs to exactly one item.  The exception is
\* cJSON_AddItemReferenceToObject: when the key cannot be copied the address of
\* the reference it made is lost, and nobody can ever delete that.
HeapSound ==
    /\ ~h.fault
    /\ \A n \in h.live : n \in held \/ Attached(n) \/ n \in lost
    /\ h.strs = Cardinality({n \in h.live : Owned(h, n) >= 1})
                + Cardinality({n \in h.live : Owned(h, n) = 2})

KeyOf(p, i) == h.key[KidsOf(p)[i]]

Objects(n) == {p \in Below(n, TRUE) : h.type[p] = "Object"}

Keyed(p) == \A i \in 1 .. Len(KidsOf(p)) : KeyOf(p, i) # NULL

DistinctKeys(p) == \A i, j \in 1 .. Len(KidsOf(p)) : KeyOf(p, i) = KeyOf(p, j) => i = j

\* A deep copy shares no item with its original, and compares equal to it if the
\* children of all objects in it have keys and no object has a key twice
\* (cJSON_Duplicate, cJSON_Compare).
CopiesEqual ==
    copied # <<>> =>
        /\ Below(copied[1], TRUE) \cap Below(copied[2], TRUE) = {}
        /\ (\A p \in Objects(copied[1]) : Keyed(p) /\ DistinctKeys(p))
              => cJSON_Compare(h, copied[1], copied[2], TRUE)

\* Every call does to the sequences of children exactly what JsonTree says: append,
\* insert, remove or replace one child, or create or destroy whole trees.
Tree == INSTANCE JsonTree WITH
            kids <- [n \in h.live |-> IF n \in h.ref THEN <<>> ELSE KidsOf(n)]

ImplementsTree == Tree!TreeSpec
=============================================================================
