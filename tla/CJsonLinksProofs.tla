-------------------------- MODULE CJsonLinksProofs --------------------------
(***************************************************************************)
(* Proofs about CJsonLinks: what the pointer surgery of cJSON's lists does *)
(* to the list of children it is applied to, for lists of any length, and  *)
(* that it leaves the lists of other items alone.                          *)
(***************************************************************************)
EXTENDS CJsonLinks, SequenceTheorems, WellFoundedInduction, TLAPS

Links == [Node -> Node \cup {NULL}]

\* A heap with the three members, and perhaps others.
IsHeap(h) ==
    /\ h = [f \in DOMAIN h |-> h[f]]
    /\ {"child", "next", "prev"} \subseteq DOMAIN h
    /\ h.child \in Links /\ h.next \in Links /\ h.prev \in Links

Items(s) == {s[i] : i \in 1 .. Len(s)}

\* The children of p are s, in a heap.
HasList(h, p, s) == IsHeap(h) /\ p \in Node /\ s \in Seq(Node) /\ Represents(h, p, s)

\* From h to g every list that shares no item with A, and whose parent is not
\* p, stays what it was.
OthersKept(h, g, p, A) ==
    \A q \in Node \ {p} : \A t \in Seq(Node) :
        Represents(h, q, t) /\ Items(t) \cap A = {} => Represents(g, q, t)

\* What a list becomes.
Without(s, k) == [i \in 1 .. Len(s) - 1 |-> IF i < k THEN s[i] ELSE s[i + 1]]
Inserted(s, k, x) ==
    [i \in 1 .. Len(s) + 1 |-> IF i < k THEN s[i] ELSE IF i = k THEN x ELSE s[i - 1]]
Replaced(s, k, x) == [i \in 1 .. Len(s) |-> IF i = k THEN x ELSE s[i]]

-----------------------------------------------------------------------------
(* Heaps and lists.                                                        *)

\* The members of a list are items, linked in both directions.
LEMMA ListFacts ==
    ASSUME NEW h, NEW p, NEW s, HasList(h, p, s)
    PROVE  /\ Len(s) \in Nat /\ (s = <<>> <=> Len(s) = 0)
           /\ \A i \in 1 .. Len(s) : s[i] \in Node /\ s[i] # NULL
           /\ \A i, j \in 1 .. Len(s) : s[i] = s[j] => i = j
           /\ Len(s) = 0 => h.child[p] = NULL
           /\ Len(s) > 0 => h.child[p] = s[1] /\ h.prev[s[1]] = s[Len(s)] /\ h.next[s[Len(s)]] = NULL
           /\ \A i \in 1 .. Len(s) : i # Len(s) => h.next[s[i]] = s[i + 1]
           /\ \A i \in 1 .. Len(s) : i # 1 => h.prev[s[i]] = s[i - 1]
<1>1. /\ Len(s) \in Nat /\ (s = <<>> <=> Len(s) = 0)
      /\ \A i \in 1 .. Len(s) : s[i] \in Node /\ s[i] # NULL
  BY LenProperties, EmptySeq, ElementOfSeq, NullAssumption DEF HasList
<1>2. Len(s) > 0 => 1 \in 1 .. Len(s) /\ Len(s) \in 1 .. Len(s)
  BY <1>1
<1> QED BY <1>1, <1>2 DEF HasList, Represents

\* A list none of whose links was touched is the same list.
LEMMA ListKept ==
    ASSUME NEW h, NEW g, NEW q, NEW t,
           Represents(h, q, t), g.child[q] = h.child[q],
           \A x \in Items(t) : g.next[x] = h.next[x] /\ g.prev[x] = h.prev[x]
    PROVE  Represents(g, q, t)
<1>1. \A i \in 1 .. Len(t) : t[i] \in Items(t)
  BY DEF Items
<1> QED BY <1>1 DEF Represents

\* Nor is any other list, when only links of items in A were touched.
LEMMA OthersLemma ==
    ASSUME NEW h, NEW g, NEW p, NEW A,
           \A q \in Node \ {p} : g.child[q] = h.child[q],
           \A x \in Node \ A : g.next[x] = h.next[x] /\ g.prev[x] = h.prev[x]
    PROVE  OthersKept(h, g, p, A)
<1> SUFFICES ASSUME NEW q \in Node \ {p}, NEW t \in Seq(Node), Represents(h, q, t),
                    Items(t) \cap A = {}
             PROVE  Represents(g, q, t)
  BY DEF OthersKept
<1>1. \A i \in 1 .. Len(t) : t[i] \in Node
  BY ElementOfSeq, LenProperties
<1>2. \A x \in Items(t) : x \in Node \ A
  BY <1>1 DEF Items
<1> QED BY <1>2, ListKept

\* A function on 1 .. n with the links of a list is the list.
LEMMA MakesList ==
    ASSUME NEW g, IsHeap(g), NEW p \in Node, NEW n \in Nat \ {0}, NEW t, t \in [1 .. n -> Node],
           \A i, j \in 1 .. n : t[i] = t[j] => i = j,
           g.child[p] = t[1], g.prev[t[1]] = t[n], g.next[t[n]] = NULL,
           \A i \in 1 .. n : i # n => g.next[t[i]] = t[i + 1],
           \A i \in 1 .. n : i # 1 => g.prev[t[i]] = t[i - 1]
    PROVE  HasList(g, p, t)
<1>1. t \in Seq(Node) /\ Len(t) = n
  BY IsASeq, LenProperties
<1>2. t # <<>>
  BY <1>1
<1> QED BY <1>1, <1>2 DEF HasList, Represents

\* The same for the empty list.
LEMMA MakesEmpty ==
    ASSUME NEW g, IsHeap(g), NEW p \in Node, g.child[p] = NULL
    PROVE  HasList(g, p, <<>>)
  BY EmptySeq DEF HasList, Represents

\* Assignments to one member of one item, and clearing an item's own links.
PutChild(h, x, v) == [h EXCEPT !.child[x] = v]
PutNext(h, x, v) == [h EXCEPT !.next[x] = v]
PutPrev(h, x, v) == [h EXCEPT !.prev[x] = v]
Cleared(h, x) == [h EXCEPT !.prev[x] = NULL, !.next[x] = NULL]

\* g is h after such an assignment, item by item.
ChildPut(h, g, x, v) ==
    /\ IsHeap(g)
    /\ \A y \in Node : /\ g.child[y] = IF y = x THEN v ELSE h.child[y]
                       /\ g.next[y] = h.next[y]
                       /\ g.prev[y] = h.prev[y]
NextPut(h, g, x, v) ==
    /\ IsHeap(g)
    /\ \A y \in Node : /\ g.child[y] = h.child[y]
                       /\ g.next[y] = IF y = x THEN v ELSE h.next[y]
                       /\ g.prev[y] = h.prev[y]
PrevPut(h, g, x, v) ==
    /\ IsHeap(g)
    /\ \A y \in Node : /\ g.child[y] = h.child[y]
                       /\ g.next[y] = h.next[y]
                       /\ g.prev[y] = IF y = x THEN v ELSE h.prev[y]
ItemCleared(h, g, x) ==
    /\ IsHeap(g)
    /\ \A y \in Node : /\ g.child[y] = h.child[y]
                       /\ g.next[y] = IF y = x THEN NULL ELSE h.next[y]
                       /\ g.prev[y] = IF y = x THEN NULL ELSE h.prev[y]

\* An assignment to child changes that member of that item alone.
LEMMA PutChildLinks ==
    ASSUME NEW h, IsHeap(h), NEW x \in Node, NEW v \in Node \cup {NULL}
    PROVE  IsHeap(PutChild(h, x, v)) /\ ChildPut(h, PutChild(h, x, v), x, v)
  BY DEF IsHeap, Links, PutChild, ChildPut

\* The same for next.
LEMMA PutNextLinks ==
    ASSUME NEW h, IsHeap(h), NEW x \in Node, NEW v \in Node \cup {NULL}
    PROVE  IsHeap(PutNext(h, x, v)) /\ NextPut(h, PutNext(h, x, v), x, v)
  BY DEF IsHeap, Links, PutNext, NextPut

\* And for prev.
LEMMA PutPrevLinks ==
    ASSUME NEW h, IsHeap(h), NEW x \in Node, NEW v \in Node \cup {NULL}
    PROVE  IsHeap(PutPrev(h, x, v)) /\ PrevPut(h, PutPrev(h, x, v), x, v)
  BY DEF IsHeap, Links, PutPrev, PrevPut

\* Clearing touches next and prev of the one item.
LEMMA ClearedLinks ==
    ASSUME NEW h, IsHeap(h), NEW x \in Node
    PROVE  IsHeap(Cleared(h, x)) /\ ItemCleared(h, Cleared(h, x), x)
  BY DEF IsHeap, Links, Cleared, ItemCleared

-----------------------------------------------------------------------------
(* add_item_to_array.                                                      *)

\* The links after item was appended to a list that is not empty.
Appended(h, g, first, last, item) ==
    /\ IsHeap(g) /\ g.next[last] = item /\ g.prev[item] = last /\ g.prev[first] = item
    /\ \A q \in Node : g.child[q] = h.child[q]
    /\ \A x \in Node : x # last => g.next[x] = h.next[x]
    /\ \A x \in Node : x # item /\ x # first => g.prev[x] = h.prev[x]

\* The assignments that append.
LEMMA AppendLinks ==
    ASSUME NEW h, IsHeap(h), NEW first \in Node, NEW last \in Node, NEW item \in Node, first # item
    PROVE  Appended(h, PutPrev(PutPrev(PutNext(h, last, item), item, last), first, item),
                    first, last, item)
<1> DEFINE h1 == PutNext(h, last, item)
           h2 == PutPrev(h1, item, last)
           g == PutPrev(h2, first, item)
<1> HIDE DEF h1, h2, g
<1>1. IsHeap(h1) /\ NextPut(h, h1, last, item)
  BY PutNextLinks DEF h1
<1>2. IsHeap(h2) /\ PrevPut(h1, h2, item, last)
  BY <1>1, PutPrevLinks DEF h2
<1>3. IsHeap(g) /\ PrevPut(h2, g, first, item)
  BY <1>2, PutPrevLinks DEF g
<1>4. Appended(h, g, first, last, item)
  BY <1>1, <1>2, <1>3 DEF NextPut, PrevPut, Appended
<1> QED BY <1>4 DEF h1, h2, g

\* The links after item became the only child of p.
Started(h, g, p, item) ==
    /\ IsHeap(g) /\ g.child[p] = item /\ g.prev[item] = item /\ g.next[item] = NULL
    /\ \A q \in Node \ {p} : g.child[q] = h.child[q]
    /\ \A x \in Node : x # item => g.next[x] = h.next[x] /\ g.prev[x] = h.prev[x]

\* The assignments that start a list.
LEMMA StartLinks ==
    ASSUME NEW h, IsHeap(h), NEW p \in Node, NEW item \in Node
    PROVE  Started(h, PutNext(PutPrev(PutChild(h, p, item), item, item), item, NULL), p, item)
<1> DEFINE h1 == PutChild(h, p, item)
           h2 == PutPrev(h1, item, item)
           g == PutNext(h2, item, NULL)
<1> HIDE DEF h1, h2, g
<1>1. IsHeap(h1) /\ ChildPut(h, h1, p, item)
  BY PutChildLinks DEF h1
<1>2. IsHeap(h2) /\ PrevPut(h1, h2, item, item)
  BY <1>1, PutPrevLinks DEF h2
<1>3. IsHeap(g) /\ NextPut(h2, g, item, NULL)
  BY <1>2, PutNextLinks DEF g
<1>4. Started(h, g, p, item)
  BY <1>1, <1>2, <1>3 DEF ChildPut, NextPut, PrevPut, Started
<1> QED BY <1>4 DEF h1, h2, g

\* It appends a loose item to the list of array: one that is not the array, is in
\* no list, and whose next is null, as after its construction or a detach.
THEOREM AddAppends ==
    ASSUME NEW h, NEW p, NEW s, HasList(h, p, s),
           NEW item \in Node, item # p, item \notin Items(s), h.next[item] = NULL,
           NEW g, g = add_item_to_array(h, p, item)
    PROVE  /\ HasList(g, p, Append(s, item))
           /\ OthersKept(h, g, p, Items(s) \cup {item})
<1> DEFINE n == Len(s)
           m == n + 1
           t == Append(s, item)
<1>0. IsHeap(h) /\ p \in Node /\ s \in Seq(Node)
  BY DEF HasList
<1>a. MayAdd(p, item)
  BY <1>0, NullAssumption DEF MayAdd
<1>n. n \in Nat
  BY ListFacts
<1>1. /\ n \in Nat
      /\ \A i \in 1 .. n : s[i] \in Node /\ s[i] # NULL
      /\ \A i, j \in 1 .. n : s[i] = s[j] => i = j
      /\ n = 0 => h.child[p] = NULL
      /\ n > 0 => h.child[p] = s[1] /\ h.prev[s[1]] = s[n]
      /\ \A i \in 1 .. n : i # n => h.next[s[i]] = s[i + 1]
      /\ \A i \in 1 .. n : i # 1 => h.prev[s[i]] = s[i - 1]
  BY ListFacts
<1>2. \A i \in 1 .. n : s[i] \in Items(s) /\ s[i] # item
  BY DEF Items
<1>3. t \in [1 .. m -> Node] /\ t[m] = item /\ \A i \in 1 .. n : t[i] = s[i]
  <2>1. t \in Seq(Node) /\ Len(t) = n + 1 /\ t[n + 1] = item /\ \A i \in 1 .. n : t[i] = s[i]
    BY <1>0, AppendProperties
  <2> QED BY <2>1, LenProperties
<1>4. m \in Nat \ {0} /\ m - 1 = n /\ \A i \in 1 .. m : i \in 1 .. n \/ i = m
  BY <1>n
<1> HIDE DEF n, m, t
<1>5. \A i, j \in 1 .. m : t[i] = t[j] => i = j
  BY <1>1, <1>2, <1>3, <1>4
<1>6. CASE n = 0
  <2>1. g = PutNext(PutPrev(PutChild(h, p, item), item, item), item, NULL)
    BY <1>a, <1>1, <1>6 DEF add_item_to_array, PutChild, PutNext, PutPrev
  <2>2. Started(h, g, p, item)
    BY <1>0, <2>1, StartLinks
  <2>3. /\ IsHeap(g) /\ g.child[p] = item /\ g.prev[item] = item /\ g.next[item] = NULL
        /\ \A q \in Node \ {p} : g.child[q] = h.child[q]
        /\ \A x \in Node \ (Items(s) \cup {item}) : g.next[x] = h.next[x] /\ g.prev[x] = h.prev[x]
    BY <2>2 DEF Started
  <2>4. m = 1
    BY <1>6 DEF m
  <2>5. \A i \in 1 .. m : i = m /\ i = 1
    BY <2>4
  <2>6. HasList(g, p, t)
    BY <1>0, <1>3, <1>4, <1>5, <2>3, <2>4, <2>5, MakesList
  <2>7. OthersKept(h, g, p, Items(s) \cup {item})
    BY <2>3, OthersLemma
  <2> QED BY <2>6, <2>7 DEF t
<1>7. CASE n > 0
  <2> DEFINE first == s[1]
             last == s[n]
  <2>1. /\ 1 \in 1 .. n /\ n \in 1 .. n /\ 1 \in 1 .. m /\ m \in 1 .. m
    BY <1>n, <1>4, <1>7
  <2>2. /\ first \in Node /\ last \in Node /\ first # item /\ last # item
        /\ first \in Items(s) /\ last \in Items(s)
        /\ h.child[p] = first /\ h.prev[first] = last /\ first # NULL /\ last # NULL
    BY <1>1, <1>2, <1>7, <2>1
  <2>3. g = PutPrev(PutPrev(PutNext(h, last, item), item, last), first, item)
    BY <1>a, <2>2 DEF add_item_to_array, suffix_object, PutNext, PutPrev
  <2>4. t[1] = first /\ t[n] = last
    BY <1>3, <2>1
  <2>5. /\ \A i \in 1 .. n : i # n => s[i] # last
        /\ \A i \in 1 .. n : i # 1 => s[i] # first
    BY <1>1, <2>1
  <2> HIDE DEF first, last
  <2>6. Appended(h, g, first, last, item)
    BY <1>0, <2>2, <2>3, AppendLinks
  <2>7. /\ IsHeap(g) /\ g.next[last] = item /\ g.prev[item] = last /\ g.prev[first] = item
        /\ g.child[p] = first /\ g.next[item] = NULL
        /\ \A q \in Node \ {p} : g.child[q] = h.child[q]
        /\ \A x \in Node : x # last => g.next[x] = h.next[x]
        /\ \A x \in Node : x # item /\ x # first => g.prev[x] = h.prev[x]
    BY <1>0, <2>2, <2>6 DEF Appended
  <2>8. g.child[p] = t[1] /\ g.prev[t[1]] = t[m] /\ g.next[t[m]] = NULL
    BY <1>3, <2>4, <2>7
  <2>9. ASSUME NEW i \in 1 .. m, i # m PROVE g.next[t[i]] = t[i + 1]
    <3>1. i \in 1 .. n
      BY <1>4, <2>9
    <3>2. CASE i = n
      <4>1. i + 1 = m
        BY <3>2 DEF m
      <4> QED BY <1>3, <2>4, <2>7, <3>2, <4>1
    <3>3. CASE i # n
      <4>1. i + 1 \in 1 .. n
        BY <1>n, <3>1, <3>3
      <4>2. t[i] = s[i] /\ t[i + 1] = s[i + 1] /\ s[i] \in Node
        BY <1>1, <1>3, <3>1, <4>1
      <4>3. s[i] # last /\ h.next[s[i]] = s[i + 1]
        BY <1>1, <2>5, <3>1, <3>3
      <4> QED BY <2>7, <4>2, <4>3
    <3> QED BY <3>2, <3>3
  <2>10. ASSUME NEW i \in 1 .. m, i # 1 PROVE g.prev[t[i]] = t[i - 1]
    <3>1. CASE i = m
      BY <1>3, <1>4, <2>4, <2>7, <3>1
    <3>2. CASE i \in 1 .. n
      <4>1. i - 1 \in 1 .. n
        BY <1>n, <2>10, <3>2
      <4>2. t[i] = s[i] /\ t[i - 1] = s[i - 1] /\ s[i] \in Node
        BY <1>1, <1>3, <3>2, <4>1
      <4>3. s[i] # first /\ s[i] # item /\ h.prev[s[i]] = s[i - 1]
        BY <1>1, <1>2, <2>5, <2>10, <3>2
      <4> QED BY <2>7, <4>2, <4>3
    <3> QED BY <1>4, <3>1, <3>2
  <2>11. HasList(g, p, t)
    <3>1. IsHeap(g) /\ m \in Nat \ {0}
      BY <1>4, <2>7
    <3> QED BY <1>0, <1>3, <1>5, <2>8, <2>9, <2>10, <3>1, MakesList
  <2>12. OthersKept(h, g, p, Items(s) \cup {item})
    <3>1. \A x \in Node \ (Items(s) \cup {item}) : g.next[x] = h.next[x] /\ g.prev[x] = h.prev[x]
      BY <2>2, <2>7
    <3>2. \A q \in Node \ {p} : g.child[q] = h.child[q]
      BY <2>7
    <3> QED BY <3>1, <3>2, OthersLemma
  <2> QED BY <2>11, <2>12 DEF t
<1> QED BY <1>1, <1>6, <1>7

-----------------------------------------------------------------------------
(* cJSON_DetachItemViaPointer.                                             *)

\* g is h with the first item unlinked and child moved on to the next one, b.
FirstCut(h, g, p, b, last, item) ==
    /\ IsHeap(g) /\ g.child[p] = b /\ g.next[item] = NULL /\ g.prev[item] = NULL /\ g.prev[b] = last
    /\ \A q \in Node \ {p} : g.child[q] = h.child[q]
    /\ \A x \in Node : x # item => g.next[x] = h.next[x]
    /\ \A x \in Node : x # item /\ x # b => g.prev[x] = h.prev[x]

\* g is h with a later item unlinked: next of its predecessor a is now b, and
\* prev of c, the item behind it or the first one, is a.
LaterCut(h, g, a, b, c, item) ==
    /\ IsHeap(g) /\ g.next[item] = NULL /\ g.prev[item] = NULL /\ g.next[a] = b /\ g.prev[c] = a
    /\ \A q \in Node : g.child[q] = h.child[q]
    /\ \A x \in Node : x # item /\ x # a => g.next[x] = h.next[x]
    /\ \A x \in Node : x # item /\ x # c => g.prev[x] = h.prev[x]

\* g is h with the only item unlinked.
OnlyCut(h, g, p, item) ==
    /\ IsHeap(g) /\ g.child[p] = NULL /\ g.next[item] = NULL /\ g.prev[item] = NULL
    /\ \A q \in Node \ {p} : g.child[q] = h.child[q]
    /\ \A x \in Node : x # item => g.next[x] = h.next[x] /\ g.prev[x] = h.prev[x]

\* The assignments that unlink the first of several items.
LEMMA CutFirst ==
    ASSUME NEW h, IsHeap(h), NEW p \in Node, NEW b \in Node, NEW last \in Node,
           NEW item \in Node, b # item
    PROVE  FirstCut(h, Cleared(PutChild(PutPrev(h, b, last), p, b), item), p, b, last, item)
<1> DEFINE h1 == PutPrev(h, b, last)
           h2 == PutChild(h1, p, b)
           g == Cleared(h2, item)
<1> HIDE DEF h1, h2, g
<1>1. IsHeap(h1) /\ PrevPut(h, h1, b, last)
  BY PutPrevLinks DEF h1
<1>2. IsHeap(h2) /\ ChildPut(h1, h2, p, b)
  BY <1>1, PutChildLinks DEF h2
<1>3. IsHeap(g) /\ ItemCleared(h2, g, item)
  BY <1>2, ClearedLinks DEF g
<1>4. FirstCut(h, g, p, b, last, item)
  BY <1>1, <1>2, <1>3 DEF ChildPut, PrevPut, ItemCleared, FirstCut
<1> QED BY <1>4 DEF h1, h2, g

\* The assignments that unlink a later item.
LEMMA CutLater ==
    ASSUME NEW h, IsHeap(h), NEW a \in Node, NEW b \in Node \cup {NULL}, NEW c \in Node,
           NEW item \in Node, a # item, c # item
    PROVE  LaterCut(h, Cleared(PutPrev(PutNext(h, a, b), c, a), item), a, b, c, item)
<1> DEFINE h1 == PutNext(h, a, b)
           h2 == PutPrev(h1, c, a)
           g == Cleared(h2, item)
<1> HIDE DEF h1, h2, g
<1>1. IsHeap(h1) /\ NextPut(h, h1, a, b)
  BY PutNextLinks DEF h1
<1>2. IsHeap(h2) /\ PrevPut(h1, h2, c, a)
  BY <1>1, PutPrevLinks DEF h2
<1>3. IsHeap(g) /\ ItemCleared(h2, g, item)
  BY <1>2, ClearedLinks DEF g
<1>4. LaterCut(h, g, a, b, c, item)
  BY <1>1, <1>2, <1>3 DEF NextPut, PrevPut, ItemCleared, LaterCut
<1> QED BY <1>4 DEF h1, h2, g

\* The assignments that unlink the only item.
LEMMA CutOnly ==
    ASSUME NEW h, IsHeap(h), NEW p \in Node, NEW item \in Node
    PROVE  OnlyCut(h, Cleared(PutChild(h, p, NULL), item), p, item)
<1> DEFINE h1 == PutChild(h, p, NULL)
           g == Cleared(h1, item)
<1> HIDE DEF h1, g
<1>1. IsHeap(h1) /\ ChildPut(h, h1, p, NULL)
  BY PutChildLinks DEF h1
<1>2. IsHeap(g) /\ ItemCleared(h1, g, item)
  BY <1>1, ClearedLinks DEF g
<1>3. OnlyCut(h, g, p, item)
  BY <1>1, <1>2 DEF ChildPut, ItemCleared, OnlyCut
<1> QED BY <1>3 DEF h1, g

\* The links after item k of s, one of several, was unlinked.
LEMMA DetachLinks ==
    ASSUME NEW h, NEW p, NEW s, HasList(h, p, s), Len(s) > 1, NEW k \in 1 .. Len(s),
           NEW g, g = cJSON_DetachItemViaPointer(h, p, s[k])
    PROVE  /\ IsHeap(g) /\ g.next[s[k]] = NULL /\ g.prev[s[k]] = NULL
           /\ g.child[p] = (IF k = 1 THEN s[2] ELSE s[1])
           /\ \A q \in Node \ {p} : g.child[q] = h.child[q]
           /\ k # 1 => g.next[s[k - 1]] = (IF k = Len(s) THEN NULL ELSE s[k + 1])
           /\ \A x \in Node : x # s[k] /\ (k # 1 => x # s[k - 1]) => g.next[x] = h.next[x]
           /\ k # Len(s) => g.prev[s[k + 1]] = (IF k = 1 THEN s[Len(s)] ELSE s[k - 1])
           /\ k = Len(s) => g.prev[s[1]] = s[Len(s) - 1]
           /\ \A x \in Node : /\ x # s[k]
                              /\ k # Len(s) => x # s[k + 1]
                              /\ k = Len(s) => x # s[1]
                             => g.prev[x] = h.prev[x]
<1> DEFINE n == Len(s)
           item == s[k]
           first == s[1]
           last == s[n]
           a == s[k - 1]
           b == s[k + 1]
<1>0. IsHeap(h) /\ p \in Node /\ s \in Seq(Node)
  BY DEF HasList
<1>n. n \in Nat /\ k \in 1 .. n
  BY ListFacts
<1>1. /\ n \in Nat /\ k \in 1 .. n
      /\ \A i \in 1 .. n : s[i] \in Node /\ s[i] # NULL
      /\ \A i, j \in 1 .. n : s[i] = s[j] => i = j
      /\ n > 0 => h.child[p] = s[1] /\ h.prev[s[1]] = s[n] /\ h.next[s[n]] = NULL
      /\ \A i \in 1 .. n : i # n => h.next[s[i]] = s[i + 1]
      /\ \A i \in 1 .. n : i # 1 => h.prev[s[i]] = s[i - 1]
  BY ListFacts
<1>2. /\ 1 \in 1 .. n /\ n \in 1 .. n /\ first \in Node /\ last \in Node /\ item \in Node
      /\ item # NULL /\ h.child[p] = first /\ h.prev[first] = last /\ h.next[last] = NULL
      /\ k = 1 => item = first
      /\ k # 1 => item # first
      /\ k = n => item = last
      /\ k # n => item # last
  BY <1>1
<1>3. k # 1 => a \in Node /\ a # item /\ h.prev[item] = a /\ a # NULL
  <2>1. k # 1 => k - 1 \in 1 .. n /\ k - 1 # k
    BY <1>n
  <2> QED BY <1>1, <2>1
<1>4. k # n => b \in Node /\ b # item /\ h.next[item] = b /\ b # NULL
  <2>1. k # n => k + 1 \in 1 .. n /\ k + 1 # k
    BY <1>n
  <2> QED BY <1>1, <2>1
<1>5. CASE k = 1
  <2>1. k # n /\ b = s[2]
    BY <1>1, <1>5
  <2>2. g = Cleared(PutChild(PutPrev(h, b, last), p, b), item)
    BY <1>2, <1>4, <1>5, <2>1 DEF cJSON_DetachItemViaPointer, PutChild, PutPrev, Cleared
  <2> HIDE DEF n, item, first, last, a, b
  <2>3. b # item /\ b \in Node /\ last \in Node /\ item \in Node
    BY <1>2, <1>4, <2>1
  <2>4. FirstCut(h, g, p, b, last, item)
    BY <1>0, <2>2, <2>3, CutFirst
  <2> QED BY <1>5, <2>1, <2>4 DEF FirstCut, n, item, last, b
<1>6. CASE k # 1 /\ k # n
  <2>2. g = Cleared(PutPrev(PutNext(h, a, b), b, a), item)
    BY <1>2, <1>3, <1>4, <1>6 DEF cJSON_DetachItemViaPointer, PutNext, PutPrev, Cleared
  <2> HIDE DEF n, item, first, last, a, b
  <2>3. /\ a # item /\ b # item /\ a \in Node /\ b \in Node /\ item \in Node
    BY <1>2, <1>3, <1>4, <1>6
  <2>4. LaterCut(h, g, a, b, b, item)
    BY <1>0, <2>2, <2>3, CutLater
  <2> QED BY <1>0, <1>2, <1>6, <2>4 DEF LaterCut, n, item, first, a, b
<1>7. CASE k # 1 /\ k = n
  <2>1. a = s[n - 1]
    BY <1>7
  <2>2. g = Cleared(PutPrev(PutNext(h, a, NULL), first, a), item)
    BY <1>2, <1>3, <1>7 DEF cJSON_DetachItemViaPointer, PutNext, PutPrev, Cleared
  <2> HIDE DEF n, item, first, last, a, b
  <2>3. a # item /\ first # item /\ a \in Node /\ first \in Node /\ item \in Node
    BY <1>2, <1>3, <1>7
  <2>4. LaterCut(h, g, a, NULL, first, item)
    BY <1>0, <2>2, <2>3, CutLater
  <2> QED BY <1>0, <1>2, <1>7, <2>1, <2>4 DEF LaterCut, n, item, first, a
<1> QED BY <1>5, <1>6, <1>7

\* It takes item k out of the list of parent, wherever it stands, and leaves
\* its own links null: the item may be added again.
THEOREM DetachRemoves ==
    ASSUME NEW h, NEW p, NEW s, HasList(h, p, s), NEW k \in 1 .. Len(s),
           NEW g, g = cJSON_DetachItemViaPointer(h, p, s[k])
    PROVE  /\ HasList(g, p, Without(s, k))
           /\ g.next[s[k]] = NULL /\ g.prev[s[k]] = NULL /\ s[k] \notin Items(Without(s, k))
           /\ OthersKept(h, g, p, Items(s))
<1> DEFINE n == Len(s)
           t == Without(s, k)
<1>0. IsHeap(h) /\ p \in Node /\ s \in Seq(Node)
  BY DEF HasList
<1>n. n \in Nat /\ k \in 1 .. n
  BY ListFacts
<1>1. /\ n \in Nat /\ k \in 1 .. n
      /\ \A i \in 1 .. n : s[i] \in Node /\ s[i] # NULL
      /\ \A i, j \in 1 .. n : s[i] = s[j] => i = j
      /\ n > 0 => h.child[p] = s[1] /\ h.prev[s[1]] = s[n] /\ h.next[s[n]] = NULL
      /\ \A i \in 1 .. n : i # n => h.next[s[i]] = s[i + 1]
      /\ \A i \in 1 .. n : i # 1 => h.prev[s[i]] = s[i - 1]
  BY ListFacts
<1>2. \A i \in 1 .. n : s[i] \in Items(s) /\ s[i] \in Node
  BY ListFacts DEF Items
<1> HIDE DEF n
<1>3. CASE n = 1
  <2> DEFINE item == s[1]
  <2>1. /\ k = 1 /\ s[k] = item /\ item \in Node /\ item # NULL /\ h.child[p] = item
        /\ h.next[item] = NULL /\ item \in Items(s)
    BY <1>1, <1>2, <1>3
  <2>2. g = Cleared(PutChild(h, p, NULL), item)
    BY <2>1 DEF cJSON_DetachItemViaPointer, PutChild, Cleared
  <2>3. t = <<>>
    <3>1. t = [i \in 1 .. 0 |-> IF i < k THEN s[i] ELSE s[i + 1]]
      BY <1>3 DEF Without, n
    <3>2. t \in Seq(Node) /\ Len(t) = 0
      <4>1. t \in [1 .. 0 -> Node]
        BY <3>1
      <4> QED BY <4>1, IsASeq, LenProperties
    <3> QED BY <3>2, EmptySeq
  <2>4. Items(t) = {}
    BY <2>3 DEF Items
  <2> HIDE DEF t, item
  <2>5. OnlyCut(h, g, p, item)
    BY <1>0, <2>1, <2>2, CutOnly
  <2>6. /\ IsHeap(g) /\ g.child[p] = NULL /\ g.next[item] = NULL /\ g.prev[item] = NULL
        /\ \A q \in Node \ {p} : g.child[q] = h.child[q]
        /\ \A x \in Node : x # item => g.next[x] = h.next[x] /\ g.prev[x] = h.prev[x]
    BY <2>5 DEF OnlyCut
  <2>7. HasList(g, p, t)
    BY <1>0, <2>3, <2>6, MakesEmpty
  <2>8. OthersKept(h, g, p, Items(s))
    BY <2>1, <2>6, OthersLemma
  <2> QED BY <2>1, <2>4, <2>6, <2>7, <2>8 DEF t
<1>4. CASE n > 1
  <2> DEFINE m == n - 1
  <2>L. /\ IsHeap(g) /\ g.next[s[k]] = NULL /\ g.prev[s[k]] = NULL
        /\ g.child[p] = (IF k = 1 THEN s[2] ELSE s[1])
        /\ \A q \in Node \ {p} : g.child[q] = h.child[q]
        /\ k # 1 => g.next[s[k - 1]] = (IF k = n THEN NULL ELSE s[k + 1])
        /\ \A x \in Node : x # s[k] /\ (k # 1 => x # s[k - 1]) => g.next[x] = h.next[x]
        /\ k # n => g.prev[s[k + 1]] = (IF k = 1 THEN s[n] ELSE s[k - 1])
        /\ k = n => g.prev[s[1]] = s[n - 1]
        /\ \A x \in Node : x # s[k] /\ (k # n => x # s[k + 1]) /\ (k = n => x # s[1])
                             => g.prev[x] = h.prev[x]
    BY <1>4, DetachLinks DEF n
  <2>0. /\ m \in Nat \ {0} /\ m + 1 = n /\ 1 \in 1 .. m /\ m \in 1 .. m
        /\ 1 \in 1 .. n /\ n \in 1 .. n /\ 2 \in 1 .. n /\ k \in 1 .. n
    BY <1>n, <1>4
  <2>1. /\ \A i \in 1 .. m : i \in 1 .. n /\ i + 1 \in 1 .. n
        /\ \A i \in 1 .. m : i < k => t[i] = s[i]
        /\ \A i \in 1 .. m : ~(i < k) => t[i] = s[i + 1]
        /\ t = [i \in 1 .. m |-> t[i]]
    BY <2>0 DEF Without, n
  <2> HIDE DEF t, m
  <2>2. t \in [1 .. m -> Node] /\ \A i \in 1 .. m : t[i] \in Items(s)
    BY <1>2, <2>1
  <2>3. \A i, j \in 1 .. m : t[i] = t[j] => i = j
    <3>1. ASSUME NEW i \in 1 .. m, NEW j \in 1 .. m, t[i] = t[j] PROVE i = j
      <4>1. CASE i < k /\ j < k
        <5>1. t[i] = s[i] /\ t[j] = s[j] /\ i \in 1 .. n /\ j \in 1 .. n
          BY <2>1, <4>1
        <5> QED BY <3>1, <5>1, <1>1
      <4>2. CASE i < k /\ ~(j < k)
        <5>1. s[i] = s[j + 1] /\ i # j + 1 /\ i \in 1 .. n /\ j + 1 \in 1 .. n
          BY <2>0, <2>1, <3>1, <4>2
        <5> QED BY <5>1, <1>1
      <4>3. CASE ~(i < k) /\ j < k
        <5>1. s[i + 1] = s[j] /\ j # i + 1 /\ j \in 1 .. n /\ i + 1 \in 1 .. n
          BY <2>0, <2>1, <3>1, <4>3
        <5> QED BY <5>1, <1>1
      <4>4. CASE ~(i < k) /\ ~(j < k)
        <5>1. s[i + 1] = s[j + 1] /\ j + 1 \in 1 .. n /\ i + 1 \in 1 .. n
          BY <2>1, <3>1, <4>4
        <5>2. i + 1 = j + 1
          BY <5>1, <1>1
        <5> QED BY <2>0, <5>2
      <4> QED BY <4>1, <4>2, <4>3, <4>4
    <3> QED BY <3>1
  <2>4. \A i \in 1 .. m : t[i] # s[k]
    <3>1. \A i \in 1 .. m : (i < k => i # k) /\ (~(i < k) => i + 1 # k)
      BY <2>0
    <3> QED BY <2>1, <3>1, <1>1
  <2>5. k # 1 => k - 1 \in 1 .. m /\ k - 1 < k /\ k - 1 \in 1 .. n
    BY <2>0
  <2>6. k # n => k \in 1 .. m /\ k + 1 \in 1 .. n
    BY <2>0
  <2>7. /\ t[1] = (IF k = 1 THEN s[2] ELSE s[1])
        /\ t[m] = (IF k = n THEN s[n - 1] ELSE s[n])
    BY <2>0, <2>1
  <2>8. g.child[p] = t[1]
    BY <1>4, <2>7, <2>L
  <2>9. g.prev[t[1]] = t[m]
    <3>1. CASE k = 1
      <4>1. g.prev[s[k + 1]] = s[n] /\ s[k + 1] = s[2]
        BY <1>4, <3>1, <2>L
      <4> QED BY <1>4, <2>7, <3>1, <4>1
    <3>2. CASE k # 1 /\ k = n
      BY <1>4, <2>7, <3>2, <2>L
    <3>3. CASE k # 1 /\ k # n
      <4>1. k + 1 # 1 /\ s[1] # s[k] /\ s[1] # s[k + 1] /\ s[1] \in Node
        BY <1>2, <2>0, <2>6, <3>3, <1>1
      <4> QED BY <1>4, <2>7, <3>3, <4>1, <1>1, <2>L
    <3> QED BY <3>1, <3>2, <3>3
  <2>10. g.next[t[m]] = NULL
    <3>1. CASE k = n
      BY <1>4, <2>7, <3>1, <2>L
    <3>2. CASE k # n
      <4>1. /\ s[n] # s[k] /\ s[n] \in Node /\ h.next[s[n]] = NULL
            /\ k # 1 => s[n] # s[k - 1]
        <5>1. k # 1 => k - 1 # n
          BY <2>0
        <5> QED BY <1>2, <1>4, <2>0, <2>5, <3>2, <5>1, <1>1
      <4> QED BY <1>4, <2>7, <3>2, <4>1, <2>L
    <3> QED BY <3>1, <3>2
  <2>11. ASSUME NEW i \in 1 .. m, i # m PROVE g.next[t[i]] = t[i + 1]
    <3>1. i + 1 \in 1 .. m
      BY <2>0, <2>11
    <3>2. CASE i + 1 = k
      <4>1. /\ i = k - 1 /\ i < k /\ ~(i + 1 < k) /\ k # n /\ k # 1 /\ i + 1 + 1 = k + 1
        BY <2>0, <2>11, <3>2
      <4>2. t[i] = s[k - 1] /\ t[i + 1] = s[k + 1]
        BY <2>1, <3>1, <4>1
      <4> QED BY <1>4, <4>1, <4>2, <2>L
    <3>3. CASE i + 1 < k
      <4>1. /\ i < k /\ i # k /\ i # k - 1 /\ (k # 1 => k - 1 \in 1 .. n) /\ i # n
        BY <2>0, <3>3
      <4>2. t[i] = s[i] /\ t[i + 1] = s[i + 1] /\ h.next[s[i]] = s[i + 1]
        BY <2>1, <3>1, <3>3, <4>1, <1>1
      <4>3. s[i] # s[k] /\ (k # 1 => s[i] # s[k - 1]) /\ s[i] \in Node
        BY <1>2, <2>1, <4>1, <1>1
      <4> QED BY <1>4, <4>2, <4>3, <2>L
    <3>4. CASE i + 1 > k
      <4>1. /\ ~(i < k) /\ ~(i + 1 < k) /\ i + 1 # k /\ i + 1 # k - 1 /\ i + 1 # n
            /\ k # 1 => k - 1 \in 1 .. n
        BY <2>0, <2>11, <3>4
      <4> DEFINE j == i + 1
      <4>2. t[i] = s[j] /\ t[i + 1] = s[j + 1] /\ h.next[s[j]] = s[j + 1] /\ j \in 1 .. n
        BY <2>1, <3>1, <4>1, <1>1
      <4>3. s[j] # s[k] /\ (k # 1 => s[j] # s[k - 1]) /\ s[j] \in Node
        BY <1>2, <4>1, <4>2, <1>1
      <4> QED BY <1>4, <4>2, <4>3, <2>L
    <3> QED BY <2>0, <3>2, <3>3, <3>4
  <2>12. ASSUME NEW i \in 1 .. m, i # 1 PROVE g.prev[t[i]] = t[i - 1]
    <3>1. i - 1 \in 1 .. m /\ i - 1 \in 1 .. n /\ i + 1 \in 1 .. n /\ i \in 1 .. n
      BY <2>0, <2>12
    <3>2. CASE i = k
      <4>1. /\ ~(i < k) /\ i - 1 < k /\ k # n /\ k # 1
        BY <2>0, <2>12, <3>2
      <4>2. t[i] = s[k + 1] /\ t[i - 1] = s[k - 1]
        BY <2>1, <3>1, <3>2, <4>1
      <4> QED BY <1>4, <4>1, <4>2, <2>L
    <3>3. CASE i < k
      <4>1. /\ i # k /\ i - 1 < k /\ i # k + 1 /\ (k # n => k + 1 \in 1 .. n)
        BY <2>0, <3>3
      <4>2. t[i] = s[i] /\ t[i - 1] = s[i - 1] /\ h.prev[s[i]] = s[i - 1]
        BY <2>1, <2>12, <3>1, <3>3, <4>1, <1>1
      <4>3. s[i] # s[k] /\ s[i] # s[1] /\ (k # n => s[i] # s[k + 1]) /\ s[i] \in Node
        BY <1>2, <2>0, <2>12, <3>1, <4>1, <1>1
      <4> QED BY <1>4, <4>2, <4>3, <2>L
    <3>4. CASE i > k
      <4> DEFINE j == i + 1
      <4>1. /\ ~(i < k) /\ ~(i - 1 < k) /\ j # k /\ j # k + 1 /\ j # 1 /\ j - 1 = i - 1 + 1
            /\ j \in 1 .. n /\ k # n /\ k + 1 \in 1 .. n
        BY <2>0, <2>12, <3>1, <3>4
      <4>2. t[i] = s[j] /\ t[i - 1] = s[j - 1]
        BY <2>1, <3>1, <4>1
      <4>4. h.prev[s[j]] = s[j - 1]
        BY <4>1, <1>1
      <4>3. s[j] # s[k] /\ s[j] # s[k + 1] /\ s[j] \in Node
        BY <1>2, <4>1, <1>1
      <4> QED BY <1>4, <4>1, <4>2, <4>3, <4>4, <2>L
    <3> QED BY <2>0, <3>2, <3>3, <3>4
  <2>13. HasList(g, p, t)
    <3>1. IsHeap(g)
      BY <1>4, <2>L
    <3> QED BY <1>0, <2>0, <2>2, <2>3, <2>8, <2>9, <2>10, <2>11, <2>12, <3>1, MakesList
  <2>14. OthersKept(h, g, p, Items(s))
    <3>1. s[k] \in Items(s) /\ s[1] \in Items(s) /\ (k # 1 => s[k - 1] \in Items(s))
          /\ (k # n => s[k + 1] \in Items(s))
      BY <1>2, <2>0, <2>5, <2>6
    <3>2. \A q \in Node \ {p} : g.child[q] = h.child[q]
      BY <1>4, <2>L
    <3>3. \A x \in Node \ Items(s) : g.next[x] = h.next[x] /\ g.prev[x] = h.prev[x]
      BY <1>4, <3>1, <2>L
    <3> QED BY <3>2, <3>3, OthersLemma
  <2>15. s[k] \notin Items(t)
    <3>1. Len(t) = m
      BY <2>0, <2>2, LenProperties, <2>13, ListFacts DEF HasList
    <3> QED BY <2>4, <3>1 DEF Items
  <2>16. g.next[s[k]] = NULL /\ g.prev[s[k]] = NULL
    BY <1>4, <2>L
  <2> QED BY <2>13, <2>14, <2>15, <2>16 DEF t
<1> QED BY <1>1, <1>3, <1>4

-----------------------------------------------------------------------------
(* cJSON_InsertItemInArray, in front of an item that is there.             *)

\* g is h with x spliced in between last and after.
Spliced(h, g, x, last, after) ==
    /\ IsHeap(g) /\ g.next[x] = after /\ g.prev[x] = last /\ g.prev[after] = x
    /\ \A y \in Node : y # x /\ y # after => g.prev[y] = h.prev[y]

\* In front of the first item, whose prev is the last one.
FrontSpliced(h, g, p, x, last, after) ==
    /\ Spliced(h, g, x, last, after) /\ g.child[p] = x
    /\ \A q \in Node \ {p} : g.child[q] = h.child[q]
    /\ \A y \in Node : y # x => g.next[y] = h.next[y]

\* In front of a later one.
InnerSpliced(h, g, x, last, after) ==
    /\ Spliced(h, g, x, last, after) /\ g.next[last] = x
    /\ \A q \in Node : g.child[q] = h.child[q]
    /\ \A y \in Node : y # x /\ y # last => g.next[y] = h.next[y]

\* The assignments both cases share.
SpliceLinks(h, x, last, after) == PutPrev(PutPrev(PutNext(h, x, after), x, last), after, x)

\* What they leave.
LEMMA Splice ==
    ASSUME NEW h, IsHeap(h), NEW x \in Node, NEW last \in Node, NEW after \in Node, x # after
    PROVE  /\ IsHeap(SpliceLinks(h, x, last, after))
           /\ Spliced(h, SpliceLinks(h, x, last, after), x, last, after)
           /\ \A q \in Node : SpliceLinks(h, x, last, after).child[q] = h.child[q]
           /\ \A y \in Node : y # x => SpliceLinks(h, x, last, after).next[y] = h.next[y]
<1> DEFINE h1 == PutNext(h, x, after)
           h2 == PutPrev(h1, x, last)
           g == PutPrev(h2, after, x)
<1> HIDE DEF h1, h2, g
<1>1. IsHeap(h1) /\ NextPut(h, h1, x, after)
  BY PutNextLinks DEF h1
<1>2. IsHeap(h2) /\ PrevPut(h1, h2, x, last)
  BY <1>1, PutPrevLinks DEF h2
<1>3. IsHeap(g) /\ PrevPut(h2, g, after, x)
  BY <1>2, PutPrevLinks DEF g
<1>4. /\ Spliced(h, g, x, last, after) /\ \A q \in Node : g.child[q] = h.child[q]
      /\ \A y \in Node : y # x => g.next[y] = h.next[y]
  BY <1>1, <1>2, <1>3 DEF NextPut, PrevPut, Spliced
<1>5. g = SpliceLinks(h, x, last, after)
  BY DEF h1, h2, g, SpliceLinks
<1> QED BY <1>3, <1>4, <1>5

\* A new first item.
LEMMA SpliceFront ==
    ASSUME NEW h, IsHeap(h), NEW p \in Node, NEW x \in Node, NEW last \in Node,
           NEW after \in Node, x # after
    PROVE  FrontSpliced(h, PutChild(SpliceLinks(h, x, last, after), p, x), p, x, last, after)
<1> DEFINE h1 == SpliceLinks(h, x, last, after)
           g == PutChild(h1, p, x)
<1> HIDE DEF h1, g
<1>1. /\ IsHeap(h1) /\ Spliced(h, h1, x, last, after) /\ \A q \in Node : h1.child[q] = h.child[q]
      /\ \A y \in Node : y # x => h1.next[y] = h.next[y]
  BY Splice DEF h1
<1>2. IsHeap(h1)
  BY <1>1
<1>3. IsHeap(g) /\ ChildPut(h1, g, p, x)
  BY <1>2, PutChildLinks DEF g
<1>4. FrontSpliced(h, g, p, x, last, after)
  BY <1>1, <1>3 DEF ChildPut, Spliced, FrontSpliced
<1> QED BY <1>4 DEF h1, g

\* A new item between two others.
LEMMA SpliceInner ==
    ASSUME NEW h, IsHeap(h), NEW x \in Node, NEW last \in Node,
           NEW after \in Node, x # after, x # last
    PROVE  InnerSpliced(h, PutNext(SpliceLinks(h, x, last, after), last, x), x, last, after)
<1> DEFINE h1 == SpliceLinks(h, x, last, after)
           g == PutNext(h1, last, x)
<1> HIDE DEF h1, g
<1>1. /\ IsHeap(h1) /\ Spliced(h, h1, x, last, after) /\ \A q \in Node : h1.child[q] = h.child[q]
      /\ \A y \in Node : y # x => h1.next[y] = h.next[y]
  BY Splice DEF h1
<1>2. IsHeap(h1)
  BY <1>1
<1>3. IsHeap(g) /\ NextPut(h1, g, last, x)
  BY <1>2, PutNextLinks DEF g
<1>4. InnerSpliced(h, g, x, last, after)
  BY <1>1, <1>3 DEF NextPut, Spliced, InnerSpliced
<1> QED BY <1>4 DEF h1, g

\* The links after newitem was put in front of item k of s.
LEMMA InsertLinks ==
    ASSUME NEW h, NEW p, NEW s, HasList(h, p, s), NEW k \in 1 .. Len(s),
           NEW newitem \in Node, newitem \notin Items(s),
           NEW g, g = InsertBefore(h, p, s[k], newitem)
    PROVE  /\ IsHeap(g) /\ g.next[newitem] = s[k] /\ g.prev[s[k]] = newitem
           /\ g.prev[newitem] = (IF k = 1 THEN s[Len(s)] ELSE s[k - 1])
           /\ g.child[p] = (IF k = 1 THEN newitem ELSE s[1])
           /\ \A q \in Node \ {p} : g.child[q] = h.child[q]
           /\ k # 1 => g.next[s[k - 1]] = newitem
           /\ \A x \in Node : x # newitem /\ (k # 1 => x # s[k - 1]) => g.next[x] = h.next[x]
           /\ \A x \in Node : x # newitem /\ x # s[k] => g.prev[x] = h.prev[x]
<1> DEFINE n == Len(s)
           after == s[k]
           last == IF k = 1 THEN s[n] ELSE s[k - 1]
<1>0. IsHeap(h) /\ p \in Node
  BY DEF HasList
<1>n. n \in Nat /\ k \in 1 .. n
  BY ListFacts
<1>1. /\ n \in Nat /\ k \in 1 .. n
      /\ \A i \in 1 .. n : s[i] \in Node /\ s[i] # NULL
      /\ \A i, j \in 1 .. n : s[i] = s[j] => i = j
      /\ n > 0 => h.child[p] = s[1] /\ h.prev[s[1]] = s[n]
      /\ \A i \in 1 .. n : i # 1 => h.prev[s[i]] = s[i - 1]
  BY ListFacts
<1>2. /\ 1 \in 1 .. n /\ n \in 1 .. n /\ n > 0 /\ (k # 1 => k - 1 \in 1 .. n)
  BY <1>n
<1>3. /\ last \in Node /\ after \in Node /\ h.prev[after] = last /\ h.child[p] = s[1]
      /\ k = 1 => after = s[1]
      /\ k # 1 => after # s[1]
  BY <1>1, <1>2
<1>4. newitem # after /\ newitem # last
  BY <1>2 DEF Items
<1>5. CASE k = 1
  <2>1. g = PutChild(SpliceLinks(h, newitem, last, after), p, newitem)
    BY <1>3, <1>5 DEF InsertBefore, SpliceLinks, PutNext, PutPrev, PutChild
  <2>2. last = s[n]
    BY <1>5
  <2> HIDE DEF after, last
  <2>3. FrontSpliced(h, g, p, newitem, last, after)
    BY <1>0, <1>3, <1>4, <2>1, SpliceFront
  <2> QED BY <1>5, <2>2, <2>3 DEF FrontSpliced, Spliced, after
<1>6. CASE k # 1
  <2>1. g = PutNext(SpliceLinks(h, newitem, last, after), last, newitem)
    BY <1>3, <1>6 DEF InsertBefore, SpliceLinks, PutNext, PutPrev
  <2>2. last = s[k - 1]
    BY <1>6
  <2> HIDE DEF after, last
  <2>3. InnerSpliced(h, g, newitem, last, after)
    BY <1>0, <1>3, <1>4, <2>1, SpliceInner
  <2> QED BY <1>0, <1>3, <1>6, <2>2, <2>3 DEF InnerSpliced, Spliced, after
<1> QED BY <1>5, <1>6

\* It puts newitem at place k and moves the rest of the list one place on.
THEOREM InsertBeforeInserts ==
    ASSUME NEW h, NEW p, NEW s, HasList(h, p, s), NEW k \in 1 .. Len(s),
           NEW newitem \in Node, newitem \notin Items(s),
           NEW g, g = InsertBefore(h, p, s[k], newitem)
    PROVE  /\ HasList(g, p, Inserted(s, k, newitem))
           /\ OthersKept(h, g, p, Items(s) \cup {newitem})
<1> DEFINE n == Len(s)
           m == n + 1
           t == Inserted(s, k, newitem)
<1>0. IsHeap(h) /\ p \in Node /\ s \in Seq(Node)
  BY DEF HasList
<1>n. n \in Nat /\ k \in 1 .. n
  BY ListFacts
<1>1. /\ n \in Nat /\ k \in 1 .. n
      /\ \A i \in 1 .. n : s[i] \in Node /\ s[i] # NULL
      /\ \A i, j \in 1 .. n : s[i] = s[j] => i = j
      /\ n > 0 => h.child[p] = s[1] /\ h.prev[s[1]] = s[n] /\ h.next[s[n]] = NULL
      /\ \A i \in 1 .. n : i # n => h.next[s[i]] = s[i + 1]
      /\ \A i \in 1 .. n : i # 1 => h.prev[s[i]] = s[i - 1]
  BY ListFacts
<1>2. \A i \in 1 .. n : s[i] \in Items(s) /\ s[i] # newitem
  BY DEF Items
<1>3. /\ IsHeap(g) /\ g.next[newitem] = s[k] /\ g.prev[s[k]] = newitem
      /\ g.prev[newitem] = (IF k = 1 THEN s[n] ELSE s[k - 1])
      /\ g.child[p] = (IF k = 1 THEN newitem ELSE s[1])
      /\ \A q \in Node \ {p} : g.child[q] = h.child[q]
      /\ k # 1 => g.next[s[k - 1]] = newitem
      /\ \A x \in Node : x # newitem /\ (k # 1 => x # s[k - 1]) => g.next[x] = h.next[x]
      /\ \A x \in Node : x # newitem /\ x # s[k] => g.prev[x] = h.prev[x]
  BY InsertLinks
<1>4. /\ m \in Nat \ {0} /\ m - 1 = n /\ 1 \in 1 .. m /\ m \in 1 .. m /\ k \in 1 .. m
      /\ 1 \in 1 .. n /\ n \in 1 .. n /\ n > 0 /\ (k # 1 => k - 1 \in 1 .. n)
  BY <1>n
<1>5. /\ \A i \in 1 .. m : i < k => t[i] = s[i] /\ i \in 1 .. n
      /\ t[k] = newitem
      /\ \A i \in 1 .. m : i > k => t[i] = s[i - 1] /\ i - 1 \in 1 .. n
      /\ t = [i \in 1 .. m |-> t[i]]
  <2>1. t = [i \in 1 .. m |-> IF i < k THEN s[i] ELSE IF i = k THEN newitem ELSE s[i - 1]]
    BY DEF Inserted
  <2> HIDE DEF t, m, n
  <2>2. \A i \in 1 .. m : t[i] = IF i < k THEN s[i] ELSE IF i = k THEN newitem ELSE s[i - 1]
    BY <2>1
  <2>3. k \in Nat /\ \A i \in 1 .. m : /\ i \in Nat
                                       /\ i < k => i \in 1 .. n
                                       /\ i > k => i - 1 \in 1 .. n /\ ~(i < k) /\ i # k
    BY <1>n, <1>4
  <2>4. ~(k < k)
    BY <2>3
  <2> QED BY <1>4, <2>1, <2>2, <2>3, <2>4
<1> HIDE DEF n, m, t
<1>6. t \in [1 .. m -> Node]
  <2>1. ASSUME NEW i \in 1 .. m PROVE t[i] \in Node
    <3>1. i < k \/ i = k \/ i > k
      BY <1>4
    <3> QED BY <1>1, <1>5, <3>1
  <2> QED BY <1>5, <2>1
<1>7. \A i, j \in 1 .. m : t[i] = t[j] => i = j
  <2>1. ASSUME NEW i \in 1 .. m, NEW j \in 1 .. m, i < j PROVE t[i] # t[j]
    <3>1. CASE j < k
      <4>1. i < k /\ i # j
        BY <1>4, <2>1, <3>1
      <4> QED BY <1>1, <1>5, <3>1, <4>1
    <3>2. CASE j = k
      BY <1>2, <1>5, <2>1, <3>2
    <3>3. CASE j > k /\ i = k
      BY <1>2, <1>5, <3>3
    <3>4. CASE j > k /\ i < k
      <4>1. i # j - 1
        BY <1>4, <2>1, <3>4
      <4> QED BY <1>1, <1>5, <3>4, <4>1
    <3>5. CASE j > k /\ i > k
      <4>1. i - 1 # j - 1
        BY <1>4, <2>1, <3>5
      <4> QED BY <1>1, <1>5, <3>5, <4>1
    <3>6. j < k \/ j = k \/ (j > k /\ i = k) \/ (j > k /\ i < k) \/ (j > k /\ i > k)
      BY <1>4
    <3> QED BY <3>1, <3>2, <3>3, <3>4, <3>5, <3>6
  <2>2. \A i, j \in 1 .. m : i < j \/ i = j \/ j < i
    BY <1>4
  <2> QED BY <2>1, <2>2
<1>8. t[1] = (IF k = 1 THEN newitem ELSE s[1]) /\ t[m] = s[n]
  <2>1. m > k /\ (k # 1 => 1 < k)
    BY <1>n, <1>4
  <2> QED BY <1>4, <1>5, <2>1
<1>9. g.child[p] = t[1]
  BY <1>3, <1>8
<1>10. g.prev[t[1]] = t[m]
  <2>1. CASE k = 1
    BY <1>3, <1>8, <2>1
  <2>2. CASE k # 1
    <3>1. s[1] # newitem /\ s[1] # s[k] /\ s[1] \in Node /\ h.prev[s[1]] = s[n]
      BY <1>1, <1>2, <1>4, <2>2
    <3> QED BY <1>3, <1>8, <2>2, <3>1
  <2> QED BY <2>1, <2>2
<1>11. g.next[t[m]] = NULL
  <2>1. k # 1 => k - 1 # n
    BY <1>n
  <2>2. s[n] # newitem /\ (k # 1 => s[n] # s[k - 1]) /\ s[n] \in Node /\ h.next[s[n]] = NULL
    BY <1>1, <1>2, <1>4, <2>1
  <2> QED BY <1>3, <1>8, <2>2
<1>12. ASSUME NEW i \in 1 .. m, i # m PROVE g.next[t[i]] = t[i + 1]
  <2>1. i + 1 \in 1 .. m
    BY <1>4, <1>12
  <2>2. CASE i + 1 < k
    <3>1. i < k /\ i # k - 1 /\ i # n
      BY <1>n, <1>4, <2>2
    <3>2. t[i] = s[i] /\ t[i + 1] = s[i + 1] /\ i \in 1 .. n
      BY <1>5, <2>1, <2>2, <3>1
    <3>3. /\ h.next[s[i]] = s[i + 1] /\ s[i] \in Node /\ s[i] # newitem
          /\ k # 1 => s[i] # s[k - 1]
      BY <1>1, <1>2, <1>4, <3>1, <3>2
    <3> QED BY <1>3, <3>2, <3>3
  <2>3. CASE i + 1 = k
    <3>1. i < k /\ k # 1 /\ i = k - 1
      BY <1>4, <2>3
    <3>2. t[i] = s[k - 1] /\ t[i + 1] = newitem
      BY <1>5, <2>3, <3>1
    <3> QED BY <1>3, <3>1, <3>2
  <2>4. CASE i = k
    <3>1. i + 1 > k /\ i + 1 - 1 = k
      BY <1>4, <2>4
    <3>2. t[i] = newitem /\ t[i + 1] = s[k]
      BY <1>5, <2>1, <2>4, <3>1
    <3> QED BY <1>3, <3>2
  <2>5. CASE i > k
    <3> DEFINE j == i - 1
    <3>1. i + 1 > k /\ i + 1 - 1 = j + 1 /\ j # n /\ j # k - 1 /\ j \in 1 .. n
      BY <1>n, <1>4, <1>12, <2>5
    <3>2. t[i] = s[j] /\ t[i + 1] = s[j + 1]
      BY <1>5, <2>1, <2>5, <3>1
    <3>3. /\ h.next[s[j]] = s[j + 1] /\ s[j] \in Node /\ s[j] # newitem
          /\ k # 1 => s[j] # s[k - 1]
      <4> HIDE DEF j
      <4> QED BY <1>1, <1>2, <1>4, <3>1
    <3> QED BY <1>3, <3>2, <3>3
  <2>6. i + 1 < k \/ i + 1 = k \/ i = k \/ i > k
    BY <1>4
  <2> QED BY <2>2, <2>3, <2>4, <2>5, <2>6
<1>13. ASSUME NEW i \in 1 .. m, i # 1 PROVE g.prev[t[i]] = t[i - 1]
  <2>1. i - 1 \in 1 .. m
    BY <1>4, <1>13
  <2>2. CASE i < k
    <3>1. i - 1 < k /\ i # k
      BY <1>4, <2>2
    <3>2. t[i] = s[i] /\ t[i - 1] = s[i - 1] /\ i \in 1 .. n
      BY <1>5, <2>1, <2>2, <3>1
    <3>3. h.prev[s[i]] = s[i - 1] /\ s[i] \in Node /\ s[i] # newitem /\ s[i] # s[k]
      BY <1>1, <1>2, <1>13, <3>1, <3>2
    <3> QED BY <1>3, <3>2, <3>3
  <2>3. CASE i = k
    <3>1. i - 1 < k /\ k # 1
      BY <1>4, <1>13, <2>3
    <3>2. t[i] = newitem /\ t[i - 1] = s[k - 1]
      BY <1>5, <2>1, <2>3, <3>1
    <3> QED BY <1>3, <3>1, <3>2
  <2>4. CASE i = k + 1
    <3>1. i > k /\ i - 1 = k
      BY <1>4, <2>4
    <3>2. t[i] = s[k] /\ t[i - 1] = newitem
      BY <1>5, <2>1, <3>1
    <3> QED BY <1>3, <3>2
  <2>5. CASE i > k + 1
    <3> DEFINE j == i - 1
    <3>1. i > k /\ i - 1 > k /\ i - 1 - 1 = j - 1 /\ j # 1 /\ j # k /\ j \in 1 .. n
      BY <1>n, <1>4, <2>5
    <3>2. t[i] = s[j] /\ t[i - 1] = s[j - 1]
      BY <1>5, <2>1, <3>1
    <3>3. h.prev[s[j]] = s[j - 1] /\ s[j] \in Node /\ s[j] # newitem /\ s[j] # s[k]
      <4> HIDE DEF j
      <4> QED BY <1>1, <1>2, <3>1
    <3> QED BY <1>3, <3>2, <3>3
  <2>6. i < k \/ i = k \/ i = k + 1 \/ i > k + 1
    BY <1>4
  <2> QED BY <2>2, <2>3, <2>4, <2>5, <2>6
<1>14. HasList(g, p, t)
  <2>1. IsHeap(g) /\ m \in Nat \ {0}
    BY <1>3, <1>4
  <2> QED BY <1>0, <1>6, <1>7, <1>9, <1>10, <1>11, <1>12, <1>13, <2>1, MakesList
<1>15. OthersKept(h, g, p, Items(s) \cup {newitem})
  <2>1. s[k] \in Items(s) /\ (k # 1 => s[k - 1] \in Items(s))
    BY <1>1, <1>2, <1>4
  <2>2. \A x \in Node \ (Items(s) \cup {newitem}) : g.next[x] = h.next[x] /\ g.prev[x] = h.prev[x]
    BY <1>3, <2>1
  <2>3. \A q \in Node \ {p} : g.child[q] = h.child[q]
    BY <1>3
  <2> QED BY <2>2, <2>3, OthersLemma
<1> QED BY <1>14, <1>15 DEF t

-----------------------------------------------------------------------------
(* Induction over the numbers, and the walk along next.                    *)

\* A set of numbers has a least one.
LEMMA NatMinimum ==
    ASSUME NEW S, S \subseteq Nat, S # {}
    PROVE  \E n \in S : \A m \in S : n <= m
<1>1. IsWellFoundedOn(OpToRel(<, Nat), Nat)
  BY NatLessThanWellFounded
<1>2. PICK n \in S : \A m \in S : ~(<<m, n>> \in OpToRel(<, Nat))
  BY <1>1, WFMin
<1>3. \A m \in S : ~(m < n)
  BY <1>2 DEF OpToRel
<1> QED BY <1>3

\* A set with 0 and the successors of its numbers has all numbers.
LEMMA NatSteps ==
    ASSUME NEW S, 0 \in S, \A n \in Nat : n \in S => n + 1 \in S
    PROVE  Nat \subseteq S
<1> SUFFICES ASSUME ~(Nat \subseteq S) PROVE FALSE
  OBVIOUS
<1> DEFINE T == Nat \ S
<1>1. T \subseteq Nat /\ T # {}
  OBVIOUS
<1>2. PICK n \in T : \A m \in T : n <= m
  BY <1>1, NatMinimum
<1>3. n # 0 /\ n \in Nat
  BY <1>2
<1>4. n - 1 \in Nat /\ n - 1 \notin T
  BY <1>2, <1>3
<1> QED BY <1>2, <1>3, <1>4

\* Walk's recursion, as the table of its results.
WalkRow(h, f, i) ==
    [x \in Node \cup {NULL} |->
        IF x = NULL \/ i = 0 THEN <<>> ELSE <<x>> \o f[i - 1][h.next[x]]]

WalkTable(h, f, n) == f = [i \in 0 .. n |-> WalkRow(h, f, i)]

\* A row depends on the row before only.
LEMMA WalkRowLocal ==
    ASSUME NEW h, NEW f, NEW g, NEW i \in Nat, i # 0 => f[i - 1] = g[i - 1]
    PROVE  WalkRow(h, f, i) = WalkRow(h, g, i)
  BY DEF WalkRow

\* So there is such a table.
LEMMA WalkExists ==
    ASSUME NEW h, NEW k \in Nat
    PROVE  \E f : WalkTable(h, f, k)
<1> DEFINE S == {n \in Nat : \E f : WalkTable(h, f, n)}
<1>1. 0 \in S
  <2> DEFINE f == [i \in 0 .. 0 |-> WalkRow(h, <<>>, i)]
  <2>1. \A i \in 0 .. 0 : WalkRow(h, <<>>, i) = WalkRow(h, f, i)
    BY WalkRowLocal
  <2>2. WalkTable(h, f, 0)
    BY <2>1 DEF WalkTable
  <2> QED BY <2>2
<1>2. ASSUME NEW n \in Nat, n \in S PROVE n + 1 \in S
  <2>1. PICK f : WalkTable(h, f, n)
    BY <1>2
  <2> DEFINE g == [i \in 0 .. n + 1 |-> WalkRow(h, f, i)]
  <2>2. ASSUME NEW i \in 0 .. n + 1 PROVE WalkRow(h, f, i) = WalkRow(h, g, i)
    <3>1. i # 0 => g[i - 1] = f[i - 1]
      BY <2>1 DEF WalkTable
    <3> HIDE DEF g
    <3> QED BY <3>1, WalkRowLocal
  <2>3. WalkTable(h, g, n + 1)
    BY <2>2 DEF WalkTable
  <2> QED BY <2>3
<1>3. Nat \subseteq S
  BY <1>1, <1>2, NatSteps
<1> QED BY <1>3

\* Walk answers from the last row.
LEMMA WalkIs ==
    ASSUME NEW h, NEW k \in Nat
    PROVE  \E f : WalkTable(h, f, k) /\ \A x : Walk(h, x, k) = f[k][x]
<1> DEFINE F == CHOOSE f : WalkTable(h, f, k)
<1>1. WalkTable(h, F, k)
  BY WalkExists
<1>2. ASSUME NEW x PROVE Walk(h, x, k) = F[k][x]
  BY DEF Walk, WalkTable, WalkRow
<1> QED BY <1>1, <1>2

\* w is what a walk of at most k steps meets from place j of s on.
Follows(s, j, k, w) ==
    /\ w \in Seq(Node) /\ Len(w) = IF k <= Len(s) - j + 1 THEN k ELSE Len(s) - j + 1
    /\ \A i \in 1 .. Len(w) : w[i] = s[j + i - 1]

\* An element before a sequence.
LEMMA InFront ==
    ASSUME NEW S, NEW x \in S, NEW t \in Seq(S), NEW w, w = <<x>> \o t
    PROVE  /\ Len(t) \in Nat /\ w \in Seq(S) /\ Len(w) = 1 + Len(t)
           /\ \A i \in 1 .. 1 + Len(t) : w[i] = IF i <= 1 THEN x ELSE t[i - 1]
<1> DEFINE m == <<x>>
<1>1. m \in Seq(S) /\ Len(m) = 1 /\ m[1] = x /\ w = m \o t /\ Len(t) \in Nat
  BY LenProperties
<1> HIDE DEF m
<1>2. /\ w \in Seq(S) /\ Len(w) = 1 + Len(t)
      /\ \A i \in 1 .. 1 + Len(t) : w[i] = IF i <= 1 THEN m[i] ELSE t[i - 1]
  BY <1>1, ConcatProperties
<1>3. \A i \in 1 .. 1 + Len(t) : i <= 1 => i = 1
  BY <1>1
<1> QED BY <1>1, <1>2, <1>3

\* One step more.
LEMMA FollowsStep ==
    ASSUME NEW s \in Seq(Node), NEW j \in 1 .. Len(s), NEW k \in Nat, NEW t,
           IF j = Len(s) THEN t = <<>> ELSE Follows(s, j + 1, k, t)
    PROVE  Follows(s, j, k + 1, <<s[j]>> \o t)
<1> DEFINE w == <<s[j]>> \o t
<1>1. Len(s) \in Nat /\ s[j] \in Node
  BY LenProperties, ElementOfSeq
<1>2. t \in Seq(Node)
  BY EmptySeq DEF Follows
<1>3. /\ Len(t) \in Nat /\ w \in Seq(Node) /\ Len(w) = 1 + Len(t)
      /\ \A i \in 1 .. 1 + Len(t) : w[i] = IF i <= 1 THEN s[j] ELSE t[i - 1]
  BY <1>1, <1>2, InFront
<1> HIDE DEF w
<1>4. Len(w) = IF k + 1 <= Len(s) - j + 1 THEN k + 1 ELSE Len(s) - j + 1
  <2>1. CASE j = Len(s)
    <3>1. Len(t) = 0
      BY <2>1, EmptySeq
    <3> QED BY <1>1, <1>3, <2>1, <3>1
  <2>2. CASE j # Len(s)
    <3>1. Len(t) = IF k <= Len(s) - (j + 1) + 1 THEN k ELSE Len(s) - (j + 1) + 1
      BY <2>2 DEF Follows
    <3> QED BY <1>1, <1>3, <2>2, <3>1
  <2> QED BY <2>1, <2>2
<1>5. ASSUME NEW i \in 1 .. Len(w) PROVE w[i] = s[j + i - 1]
  <2>1. CASE i = 1
    <3>1. j + i - 1 = j /\ w[i] = s[j]
      BY <1>3, <2>1
    <3> QED BY <3>1
  <2>2. CASE i # 1
    <3>1. w[i] = t[i - 1] /\ i - 1 \in 1 .. Len(t) /\ (j + 1) + (i - 1) - 1 = j + i - 1
      BY <1>3, <2>2
    <3>2. j # Len(s)
      <4>1. Len(t) # 0
        BY <1>3, <3>1
      <4> QED BY <4>1, EmptySeq
    <3>3. t[i - 1] = s[(j + 1) + (i - 1) - 1]
      BY <3>1, <3>2 DEF Follows
    <3> QED BY <3>1, <3>3
  <2> QED BY <2>1, <2>2
<1> QED BY <1>3, <1>4, <1>5 DEF Follows, w

\* Walk follows the list of p.
LEMMA WalkFollows ==
    ASSUME NEW h, NEW p, NEW s, HasList(h, p, s), NEW d \in Nat
    PROVE  /\ Walk(h, NULL, d) = <<>>
           /\ \A j \in 1 .. Len(s) : Follows(s, j, d, Walk(h, s[j], d))
<1>1. /\ s \in Seq(Node) /\ Len(s) \in Nat
      /\ \A i \in 1 .. Len(s) : s[i] \in Node /\ s[i] # NULL
      /\ Len(s) > 0 => h.next[s[Len(s)]] = NULL
      /\ \A i \in 1 .. Len(s) : i # Len(s) => h.next[s[i]] = s[i + 1]
  BY ListFacts DEF HasList
<1>2. PICK f : WalkTable(h, f, d) /\ \A x : Walk(h, x, d) = f[d][x]
  BY WalkIs
<1>3. \A k \in 0 .. d : f[k] = WalkRow(h, f, k)
  BY <1>2 DEF WalkTable
<1> DEFINE Good(k) == f[k][NULL] = <<>> /\ \A j \in 1 .. Len(s) : Follows(s, j, k, f[k][s[j]])
           S == {k \in Nat : k <= d => Good(k)}
<1>4. 0 \in S
  <2>1. f[0] = WalkRow(h, f, 0)
    BY <1>3
  <2>2. f[0][NULL] = <<>> /\ \A j \in 1 .. Len(s) : f[0][s[j]] = <<>>
    BY <1>1, <2>1 DEF WalkRow
  <2>3. ASSUME NEW j \in 1 .. Len(s) PROVE Follows(s, j, 0, <<>>)
    <3>1. <<>> \in Seq(Node) /\ Len(<<>>) = 0 /\ 1 .. 0 = {}
      BY EmptySeq
    <3>2. 0 <= Len(s) - j + 1
      BY <1>1
    <3> QED BY <3>1, <3>2 DEF Follows
  <2> QED BY <2>2, <2>3
<1>5. ASSUME NEW k \in Nat, k \in S PROVE k + 1 \in S
  <2> SUFFICES ASSUME k + 1 <= d PROVE Good(k + 1)
    OBVIOUS
  <2>1. k + 1 \in 0 .. d /\ k + 1 # 0 /\ (k + 1) - 1 = k /\ k <= d
    OBVIOUS
  <2>2. f[k + 1] = WalkRow(h, f, k + 1)
    BY <1>3, <2>1
  <2>3. f[k + 1][NULL] = <<>>
    BY <2>2 DEF WalkRow
  <2>4. Good(k)
    BY <1>5, <2>1
  <2>5. ASSUME NEW j \in 1 .. Len(s) PROVE Follows(s, j, k + 1, f[k + 1][s[j]])
    <3> DEFINE t == f[k][h.next[s[j]]]
    <3>1. f[k + 1][s[j]] = <<s[j]>> \o t
      BY <1>1, <2>1, <2>2 DEF WalkRow
    <3>2. IF j = Len(s) THEN t = <<>> ELSE Follows(s, j + 1, k, t)
      <4>1. CASE j = Len(s)
        BY <1>1, <2>4, <4>1
      <4>2. CASE j # Len(s)
        <5>1. j + 1 \in 1 .. Len(s) /\ h.next[s[j]] = s[j + 1]
          BY <1>1, <4>2
        <5> QED BY <2>4, <4>2, <5>1
      <4> QED BY <4>1, <4>2
    <3> HIDE DEF t
    <3> QED BY <1>1, <3>1, <3>2, FollowsStep
  <2> QED BY <2>3, <2>5
<1>6. d \in S
  <2>1. Nat \subseteq S
    <3> HIDE DEF S
    <3> QED BY <1>4, <1>5, NatSteps
  <2> QED BY <2>1
<1> QED BY <1>2, <1>6

\* get_array_item answers the child at the index, and null behind the last one.
THEOREM GetFindsChild ==
    ASSUME NEW h, NEW p, NEW s, HasList(h, p, s), NEW index \in Nat
    PROVE  get_array_item(h, p, index) = IF index < Len(s) THEN s[index + 1] ELSE NULL
<1> DEFINE k == index + 1
           w == Walk(h, h.child[p], k)
<1>1. k \in Nat /\ Len(s) \in Nat
  BY ListFacts
<1>2. get_array_item(h, p, index) = IF Len(w) = k THEN w[k] ELSE NULL
  BY DEF get_array_item
<1>3. CASE Len(s) = 0
  <2>1. h.child[p] = NULL /\ Walk(h, NULL, k) = <<>>
    BY <1>1, <1>3, ListFacts, WalkFollows
  <2>2. Len(w) = 0
    BY <2>1
  <2> QED BY <1>2, <1>3, <2>2
<1>4. CASE Len(s) # 0
  <2>1. 1 \in 1 .. Len(s) /\ h.child[p] = s[1]
    BY <1>1, <1>4, ListFacts
  <2>2. Follows(s, 1, k, w)
    BY <1>1, <2>1, WalkFollows
  <2> HIDE DEF w
  <2>3. Len(w) = IF k <= Len(s) - 1 + 1 THEN k ELSE Len(s) - 1 + 1
    BY <2>2 DEF Follows
  <2>4. CASE index < Len(s)
    <3>1. Len(w) = k /\ k \in 1 .. Len(w) /\ 1 + k - 1 = k
      BY <1>1, <2>3, <2>4
    <3>2. w[k] = s[k]
      BY <2>2, <3>1 DEF Follows
    <3> QED BY <1>2, <2>4, <3>1, <3>2
  <2>5. CASE ~(index < Len(s))
    <3>1. Len(w) # k
      BY <1>1, <2>3, <2>5
    <3> QED BY <1>2, <2>5, <3>1
  <2> QED BY <2>4, <2>5
<1> QED BY <1>3, <1>4

\* cJSON_InsertItemInArray puts a loose item at the index, and behind the last
\* child when the list is shorter.
THEOREM InsertItemInserts ==
    ASSUME NEW h, NEW p, NEW s, HasList(h, p, s), NEW which \in Nat,
           NEW item \in Node, item # p, item \notin Items(s), h.next[item] = NULL,
           NEW g, g = cJSON_InsertItemInArray(h, p, which, item)
    PROVE  /\ HasList(g, p, IF which < Len(s) THEN Inserted(s, which + 1, item) ELSE Append(s, item))
           /\ OthersKept(h, g, p, Items(s) \cup {item})
<1>1. Len(s) \in Nat /\ \A i \in 1 .. Len(s) : s[i] \in Node /\ s[i] # NULL
  BY ListFacts
<1>2. get_array_item(h, p, which) = IF which < Len(s) THEN s[which + 1] ELSE NULL
  BY GetFindsChild
<1> DEFINE k == which + 1
<1>3. CASE which < Len(s)
  <2>1. k \in 1 .. Len(s)
    BY <1>1, <1>3
  <2>2. g = InsertBefore(h, p, s[k], item)
    BY <1>1, <1>2, <1>3, <2>1 DEF cJSON_InsertItemInArray
  <2> HIDE DEF k
  <2>3. HasList(g, p, Inserted(s, k, item)) /\ OthersKept(h, g, p, Items(s) \cup {item})
    BY <2>1, <2>2, InsertBeforeInserts
  <2> QED BY <1>3, <2>3 DEF k
<1>4. CASE ~(which < Len(s))
  <2>1. g = add_item_to_array(h, p, item)
    BY <1>2, <1>4 DEF cJSON_InsertItemInArray
  <2>2. HasList(g, p, Append(s, item)) /\ OthersKept(h, g, p, Items(s) \cup {item})
    BY <2>1, AddAppends
  <2> QED BY <1>4, <2>2
<1> QED BY <1>3, <1>4

-----------------------------------------------------------------------------
(* cJSON_ReplaceItemViaPointer, up to the call of cJSON_Delete.            *)

\* The stages of RelinkReplacement: r takes over item's links, then the item
\* behind points back to r, then whatever points forward to item does.
Taken(h, item, r) == PutPrev(PutNext(h, r, h.next[item]), r, h.prev[item])
BackLinked(h, h1, item, r) ==
    IF h.next[item] = NULL THEN h1 ELSE PutPrev(h1, h.next[item], r)
FirstLinked(h2, p, item, r) ==
    PutChild(PutPrev(h2, r, IF h2.prev[item] = item THEN r ELSE h2.prev[r]), p, r)
NextLinked(h2, r) == IF h2.prev[r] = NULL THEN h2 ELSE PutNext(h2, h2.prev[r], r)
LastLinked(h, h4, p, r) == IF h4.next[r] # NULL THEN h4 ELSE PutPrev(h4, h.child[p], r)

\* RelinkReplacement goes through these stages.
LEMMA RelinkStages ==
    ASSUME NEW h, NEW p, NEW item, NEW r
    PROVE  RelinkReplacement(h, p, item, r) =
             LET h2 == BackLinked(h, Taken(h, item, r), item, r)
             IN  Cleared(IF h.child[p] = item THEN FirstLinked(h2, p, item, r)
                         ELSE LastLinked(h, NextLinked(h2, r), p, r), item)
  BY DEF RelinkReplacement, Taken, BackLinked, FirstLinked, NextLinked, LastLinked,
         PutChild, PutNext, PutPrev, Cleared

\* h1 is h with r taking over item's links.
TakesOver(h, h1, item, r) ==
    /\ IsHeap(h1) /\ h1.next[r] = h.next[item] /\ h1.prev[r] = h.prev[item]
    /\ \A q \in Node : h1.child[q] = h.child[q]
    /\ \A y \in Node : y # r => h1.next[y] = h.next[y] /\ h1.prev[y] = h.prev[y]

\* After the first stage.
LEMMA TakenLinks ==
    ASSUME NEW h, IsHeap(h), NEW item \in Node, NEW r \in Node
    PROVE  TakesOver(h, Taken(h, item, r), item, r)
<1> DEFINE nx == h.next[item]
           pv == h.prev[item]
           h0 == PutNext(h, r, nx)
           h1 == Taken(h, item, r)
<1>1. nx \in Node \cup {NULL} /\ pv \in Node \cup {NULL}
  BY DEF IsHeap, Links
<1>2. h1 = PutPrev(h0, r, pv)
  BY DEF Taken
<1> HIDE DEF h0, h1, nx, pv
<1>3. IsHeap(h0) /\ NextPut(h, h0, r, nx)
  BY <1>1, PutNextLinks DEF h0
<1>4. IsHeap(h1) /\ PrevPut(h0, h1, r, pv)
  BY <1>1, <1>2, <1>3, PutPrevLinks
<1>5. h1.next[r] = nx /\ h1.prev[r] = pv
  BY <1>3, <1>4 DEF NextPut, PrevPut
<1>6. TakesOver(h, h1, item, r)
  BY <1>3, <1>4, <1>5 DEF NextPut, PrevPut, TakesOver, nx, pv
<1> QED BY <1>6 DEF h1

\* The links after r replaced item k of s.
RelinkedAt(h, g, p, s, k, r) ==
    /\ IsHeap(g) /\ g.next[s[k]] = NULL /\ g.prev[s[k]] = NULL
    /\ g.next[r] = (IF k = Len(s) THEN NULL ELSE s[k + 1])
    /\ g.prev[r] = (IF Len(s) = 1 THEN r ELSE IF k = 1 THEN s[Len(s)] ELSE s[k - 1])
    /\ g.child[p] = (IF k = 1 THEN r ELSE s[1])
    /\ \A q \in Node \ {p} : g.child[q] = h.child[q]
    /\ k # 1 => g.next[s[k - 1]] = r
    /\ k # Len(s) => g.prev[s[k + 1]] = r
    /\ k = Len(s) /\ k # 1 => g.prev[s[1]] = r
    /\ \A x \in Node : x # r /\ x # s[k] /\ (k # 1 => x # s[k - 1]) => g.next[x] = h.next[x]
    /\ \A x \in Node : /\ x # r /\ x # s[k]
                       /\ k # Len(s) => x # s[k + 1]
                       /\ k = Len(s) => x # s[1]
                      => g.prev[x] = h.prev[x]

\* RelinkReplacement leaves these links, wherever item k stands in the list.
LEMMA RelinkLinks ==
    ASSUME NEW h, NEW p, NEW s, HasList(h, p, s), NEW k \in 1 .. Len(s),
           NEW r \in Node, r \notin Items(s)
    PROVE  RelinkedAt(h, RelinkReplacement(h, p, s[k], r), p, s, k, r)
<1> DEFINE n == Len(s)
           item == s[k]
           first == s[1]
           last == s[n]
           a == s[k - 1]
           b == s[k + 1]
           h1 == Taken(h, item, r)
           h2 == BackLinked(h, h1, item, r)
           h3 == IF h.child[p] = item THEN FirstLinked(h2, p, item, r)
                 ELSE LastLinked(h, NextLinked(h2, r), p, r)
           g == Cleared(h3, item)
<1>0. IsHeap(h) /\ p \in Node
  BY DEF HasList
<1>n. n \in Nat /\ k \in 1 .. n
  BY ListFacts
<1>1. /\ n \in Nat /\ k \in 1 .. n
      /\ \A i \in 1 .. n : s[i] \in Node /\ s[i] # NULL /\ s[i] # r
      /\ \A i, j \in 1 .. n : s[i] = s[j] => i = j
      /\ n > 0 => h.child[p] = s[1] /\ h.prev[s[1]] = s[n] /\ h.next[s[n]] = NULL
      /\ \A i \in 1 .. n : i # n => h.next[s[i]] = s[i + 1]
      /\ \A i \in 1 .. n : i # 1 => h.prev[s[i]] = s[i - 1]
  BY ListFacts DEF Items
<1>2. /\ 1 \in 1 .. n /\ n \in 1 .. n /\ n > 0 /\ (k # 1 => k - 1 \in 1 .. n /\ k - 1 # k)
      /\ k # n => k + 1 \in 1 .. n /\ k + 1 # k
      /\ k # 1 => k + 1 # 1
      /\ k = 1 => b = s[2]
  BY <1>1
<1>3. g = RelinkReplacement(h, p, item, r)
  BY RelinkStages
<1>4. /\ first \in Node /\ last \in Node /\ item \in Node /\ first # r /\ last # r /\ item # r
      /\ h.child[p] = first
      /\ k = 1 => item = first /\ h.prev[item] = last
      /\ k # 1 => item # first
      /\ k = n => item = last /\ h.next[item] = NULL
      /\ k # n => item # last
  BY <1>1, <1>2
<1>5. k # 1 => a \in Node /\ a # item /\ a # r /\ h.prev[item] = a
  BY <1>1, <1>2
<1>6. k # n => b \in Node /\ b # item /\ b # r /\ h.next[item] = b
  BY <1>1, <1>2
<1>7. /\ IsHeap(h1) /\ h1.next[r] = h.next[item] /\ h1.prev[r] = h.prev[item]
      /\ \A q \in Node : h1.child[q] = h.child[q]
      /\ \A y \in Node : y # r => h1.next[y] = h.next[y] /\ h1.prev[y] = h.prev[y]
  <2> HIDE DEF item, h1
  <2>1. TakesOver(h, h1, item, r)
    BY <1>0, <1>4, TakenLinks DEF h1
  <2> QED BY <2>1 DEF TakesOver
<1>12. IsHeap(h1)
  BY <1>7
<1>8. CASE k = 1 /\ n = 1
  <2> DEFINE h4 == PutPrev(h1, r, r)
  <2>1. item = last /\ item = first
    BY <1>8
  <2> HIDE DEF n, item, first, last, a, b, h1, h2, h3, g, h4
  <2>2. h2 = h1 /\ h1.prev[item] = item
    BY <1>4, <1>7, <1>8, <2>1 DEF h2, BackLinked
  <2>3. h3 = PutChild(h4, p, r)
    BY <1>4, <2>1, <2>2 DEF h3, h4, FirstLinked
  <2>4. IsHeap(h4) /\ PrevPut(h1, h4, r, r)
    BY <1>12, PutPrevLinks DEF h4
  <2>5. IsHeap(h3) /\ ChildPut(h4, h3, p, r)
    BY <1>0, <2>3, <2>4, PutChildLinks
  <2>6. IsHeap(g) /\ ItemCleared(h3, g, item)
    BY <1>4, <2>5, ClearedLinks DEF g
  <2>7. /\ IsHeap(g) /\ g.next[item] = NULL /\ g.prev[item] = NULL /\ g.child[p] = r
        /\ g.next[r] = NULL /\ g.prev[r] = r
        /\ \A q \in Node \ {p} : g.child[q] = h.child[q]
        /\ \A x \in Node : x # r /\ x # item => g.next[x] = h.next[x] /\ g.prev[x] = h.prev[x]
    BY <1>0, <1>4, <1>7, <1>8, <2>4, <2>5, <2>6 DEF PrevPut, ChildPut, ItemCleared
  <2> QED BY <1>3, <1>8, <2>7 DEF RelinkedAt, n, item
<1>9. CASE k = 1 /\ n # 1
  <2> DEFINE h4 == PutPrev(h2, r, last)
  <2>1. k # n
    BY <1>9
  <2> HIDE DEF n, item, first, last, a, b, h1, h2, h3, g, h4
  <2>2. h2 = PutPrev(h1, b, r)
    BY <1>1, <1>2, <1>6, <2>1, NullAssumption DEF h2, BackLinked
  <2>3. IsHeap(h2) /\ PrevPut(h1, h2, b, r)
    BY <1>6, <1>12, <2>1, <2>2, PutPrevLinks
  <2>4. h2.prev[item] = last /\ h2.prev[r] = last /\ last # item
    BY <1>4, <1>6, <1>7, <1>9, <2>1, <2>3 DEF PrevPut
  <2>5. h3 = PutChild(h4, p, r)
    BY <1>4, <1>9, <2>4 DEF h3, h4, FirstLinked
  <2>6. IsHeap(h4) /\ PrevPut(h2, h4, r, last)
    BY <1>4, <2>3, PutPrevLinks DEF h4
  <2>7. IsHeap(h3) /\ ChildPut(h4, h3, p, r)
    BY <1>0, <2>5, <2>6, PutChildLinks
  <2>8. IsHeap(g) /\ ItemCleared(h3, g, item)
    BY <1>4, <2>7, ClearedLinks DEF g
  <2>9. /\ IsHeap(g) /\ g.next[item] = NULL /\ g.prev[item] = NULL /\ g.child[p] = r
        /\ g.next[r] = b /\ g.prev[r] = last /\ g.prev[b] = r
        /\ \A q \in Node \ {p} : g.child[q] = h.child[q]
        /\ \A x \in Node : x # r /\ x # item => g.next[x] = h.next[x]
        /\ \A x \in Node : x # r /\ x # item /\ x # b => g.prev[x] = h.prev[x]
    BY <1>0, <1>4, <1>6, <1>7, <2>1, <2>3, <2>6, <2>7, <2>8 DEF PrevPut, ChildPut, ItemCleared
  <2> QED BY <1>3, <1>9, <2>1, <2>9 DEF RelinkedAt, n, item, last, b
<1>10. CASE k # 1 /\ k # n
  <2> DEFINE h4 == NextLinked(h2, r)
  <2> HIDE DEF n, item, first, last, a, b, h1, h2, h3, g, h4
  <2>2. h2 = PutPrev(h1, b, r)
    BY <1>6, <1>10, NullAssumption DEF h2, BackLinked
  <2>3. IsHeap(h2) /\ PrevPut(h1, h2, b, r)
    BY <1>6, <1>12, <1>10, <2>2, PutPrevLinks
  <2>4. h2.prev[r] = a /\ h2.next[r] = b
    BY <1>5, <1>6, <1>7, <1>10, <2>3 DEF PrevPut
  <2>5. h4 = PutNext(h2, a, r)
    BY <1>5, <1>10, <2>4, NullAssumption DEF h4, NextLinked
  <2>6. IsHeap(h4) /\ NextPut(h2, h4, a, r)
    BY <1>5, <1>10, <2>3, <2>5, PutNextLinks
  <2>7. h4.next[r] # NULL
    BY <1>5, <1>6, <1>10, <2>4, <2>6, NullAssumption DEF NextPut
  <2>8. h3 = h4
    BY <1>4, <1>10, <2>7 DEF h3, h4, LastLinked
  <2>9. IsHeap(g) /\ ItemCleared(h4, g, item)
    BY <1>4, <2>6, <2>8, ClearedLinks DEF g
  <2>10. /\ IsHeap(g) /\ g.next[item] = NULL /\ g.prev[item] = NULL
         /\ g.next[r] = b /\ g.prev[r] = a /\ g.prev[b] = r /\ g.next[a] = r
         /\ \A q \in Node : g.child[q] = h.child[q]
         /\ \A x \in Node : x # r /\ x # item /\ x # a => g.next[x] = h.next[x]
         /\ \A x \in Node : x # r /\ x # item /\ x # b => g.prev[x] = h.prev[x]
    BY <1>4, <1>5, <1>6, <1>7, <1>10, <2>3, <2>4, <2>6, <2>9 DEF PrevPut, NextPut, ItemCleared
  <2>11. n # 1 /\ g.child[p] = first
    BY <1>0, <1>1, <1>4, <1>10, <2>10
  <2> QED BY <1>3, <1>10, <2>10, <2>11 DEF RelinkedAt, n, item, first, a, b
<1>11. CASE k # 1 /\ k = n
  <2> DEFINE h4 == NextLinked(h2, r)
  <2> HIDE DEF n, item, first, last, a, b, h1, h2, h3, g, h4
  <2>1. h2 = h1
    BY <1>4, <1>11 DEF h2, BackLinked
  <2>2. h1.prev[r] = a /\ h1.next[r] = NULL
    BY <1>4, <1>5, <1>7, <1>11
  <2>3. h4 = PutNext(h1, a, r)
    BY <1>5, <1>11, <2>1, <2>2, NullAssumption DEF h4, NextLinked
  <2>4. IsHeap(h4) /\ NextPut(h1, h4, a, r)
    BY <1>5, <1>12, <1>11, <2>3, PutNextLinks
  <2>5. h4.next[r] = NULL
    BY <1>5, <1>11, <2>2, <2>4 DEF NextPut
  <2>6. h3 = PutPrev(h4, first, r)
    BY <1>4, <1>11, <2>5 DEF h3, h4, LastLinked
  <2>7. IsHeap(h3) /\ PrevPut(h4, h3, first, r)
    BY <1>4, <2>4, <2>6, PutPrevLinks
  <2>8. IsHeap(g) /\ ItemCleared(h3, g, item)
    BY <1>4, <2>7, ClearedLinks DEF g
  <2>9. /\ IsHeap(g) /\ g.next[item] = NULL /\ g.prev[item] = NULL
        /\ g.next[r] = NULL /\ g.prev[r] = a /\ g.prev[first] = r /\ g.next[a] = r
        /\ \A q \in Node : g.child[q] = h.child[q]
        /\ \A x \in Node : x # r /\ x # item /\ x # a => g.next[x] = h.next[x]
        /\ \A x \in Node : x # r /\ x # item /\ x # first => g.prev[x] = h.prev[x]
    BY <1>4, <1>5, <1>7, <1>11, <2>2, <2>4, <2>7, <2>8 DEF PrevPut, NextPut, ItemCleared
  <2>10. n # 1 /\ g.child[p] = first
    BY <1>0, <1>4, <1>11, <2>9
  <2> QED BY <1>3, <1>11, <2>9, <2>10 DEF RelinkedAt, n, item, first, a
<1> QED BY <1>8, <1>9, <1>10, <1>11

\* It puts replacement in the place of item k and clears the item's own links,
\* so that cJSON_Delete, which follows next, frees no item that stays.
THEOREM ReplaceRelinks ==
    ASSUME NEW h, NEW p, NEW s, HasList(h, p, s), NEW k \in 1 .. Len(s),
           NEW replacement \in Node, replacement \notin Items(s),
           NEW g, g = RelinkReplacement(h, p, s[k], replacement)
    PROVE  /\ HasList(g, p, Replaced(s, k, replacement))
           /\ g.next[s[k]] = NULL /\ g.prev[s[k]] = NULL
           /\ OthersKept(h, g, p, Items(s) \cup {replacement})
<1> DEFINE n == Len(s)
           r == replacement
           t == Replaced(s, k, r)
<1>0. IsHeap(h) /\ p \in Node /\ s \in Seq(Node)
  BY DEF HasList
<1>n. n \in Nat /\ k \in 1 .. n
  BY ListFacts
<1>1. /\ n \in Nat /\ k \in 1 .. n
      /\ \A i \in 1 .. n : s[i] \in Node /\ s[i] # NULL /\ s[i] # r /\ s[i] \in Items(s)
      /\ \A i, j \in 1 .. n : s[i] = s[j] => i = j
      /\ n > 0 => h.child[p] = s[1] /\ h.prev[s[1]] = s[n] /\ h.next[s[n]] = NULL
      /\ \A i \in 1 .. n : i # n => h.next[s[i]] = s[i + 1]
      /\ \A i \in 1 .. n : i # 1 => h.prev[s[i]] = s[i - 1]
  BY ListFacts DEF Items
<1>2. /\ n \in Nat \ {0} /\ 1 \in 1 .. n /\ n \in 1 .. n /\ n > 0
      /\ k # 1 => k - 1 \in 1 .. n /\ k - 1 # k
      /\ k # n => k + 1 \in 1 .. n /\ k + 1 # k
  BY <1>n
<1>3. RelinkedAt(h, g, p, s, k, r)
  BY RelinkLinks
<1>4. /\ IsHeap(g) /\ g.next[s[k]] = NULL /\ g.prev[s[k]] = NULL
      /\ g.next[r] = (IF k = n THEN NULL ELSE s[k + 1])
      /\ g.prev[r] = (IF n = 1 THEN r ELSE IF k = 1 THEN s[n] ELSE s[k - 1])
      /\ g.child[p] = (IF k = 1 THEN r ELSE s[1])
      /\ \A q \in Node \ {p} : g.child[q] = h.child[q]
      /\ k # 1 => g.next[s[k - 1]] = r
      /\ k # n => g.prev[s[k + 1]] = r
      /\ k = n /\ k # 1 => g.prev[s[1]] = r
      /\ \A x \in Node : x # r /\ x # s[k] /\ (k # 1 => x # s[k - 1]) => g.next[x] = h.next[x]
      /\ \A x \in Node : x # r /\ x # s[k] /\ (k # n => x # s[k + 1]) /\ (k = n => x # s[1])
                           => g.prev[x] = h.prev[x]
  BY <1>3 DEF RelinkedAt
<1>5. /\ t[k] = r /\ (\A i \in 1 .. n : i # k => t[i] = s[i])
      /\ t = [i \in 1 .. n |-> t[i]]
  BY <1>1 DEF Replaced
<1> HIDE DEF n, r, t
<1>6. t \in [1 .. n -> Node]
  <2>1. \A i \in 1 .. n : t[i] \in Node
    BY <1>1, <1>5 DEF r
  <2> QED BY <1>5, <2>1
<1>7. \A i, j \in 1 .. n : t[i] = t[j] => i = j
  BY <1>1, <1>5
<1>8. g.child[p] = t[1]
  BY <1>2, <1>4, <1>5
<1>9. g.prev[t[1]] = t[n]
  <2>1. CASE k = 1 /\ n = 1
    BY <1>4, <1>5, <2>1
  <2>2. CASE k = 1 /\ n # 1
    BY <1>2, <1>4, <1>5, <2>2
  <2>3. CASE k # 1 /\ k = n
    BY <1>2, <1>4, <1>5, <2>3
  <2>4. CASE k # 1 /\ k # n
    <3>1. t[1] = s[1] /\ t[n] = s[n]
      BY <1>2, <1>5, <2>4
    <3>2. k + 1 # 1
      BY <1>n
    <3>3. /\ s[1] # r /\ s[1] # s[k] /\ s[1] # s[k + 1] /\ s[1] \in Node /\ h.prev[s[1]] = s[n]
      BY <1>1, <1>2, <2>4, <3>2
    <3> QED BY <1>4, <2>4, <3>1, <3>3
  <2> QED BY <2>1, <2>2, <2>3, <2>4
<1>10. g.next[t[n]] = NULL
  <2>1. CASE k = n
    BY <1>4, <1>5, <2>1
  <2>2. CASE k # n
    <3>1. t[n] = s[n]
      BY <1>2, <1>5, <2>2
    <3>2. k # 1 => k - 1 # n
      BY <1>n
    <3>3. /\ s[n] # r /\ s[n] # s[k] /\ s[n] \in Node /\ h.next[s[n]] = NULL
          /\ k # 1 => s[n] # s[k - 1]
      BY <1>1, <1>2, <2>2, <3>2
    <3> QED BY <1>4, <3>1, <3>3
  <2> QED BY <2>1, <2>2
<1>11. ASSUME NEW i \in 1 .. n, i # n PROVE g.next[t[i]] = t[i + 1]
  <2>1. i + 1 \in 1 .. n
    BY <1>n, <1>11
  <2>2. CASE i = k
    <3>1. k # n /\ i + 1 # k
      BY <1>2, <1>11, <2>2
    <3> QED BY <1>4, <1>5, <2>1, <2>2, <3>1
  <2>3. CASE i + 1 = k
    <3>1. k # 1 /\ i = k - 1 /\ i # k
      BY <1>n, <2>3
    <3> QED BY <1>4, <1>5, <2>3, <3>1
  <2>4. CASE i # k /\ i + 1 # k
    <3>1. k # 1 => i # k - 1
      BY <1>n, <2>4
    <3>2. t[i] = s[i] /\ t[i + 1] = s[i + 1] /\ h.next[s[i]] = s[i + 1]
      BY <1>1, <1>5, <1>11, <2>1, <2>4
    <3>3. s[i] # r /\ s[i] # s[k] /\ s[i] \in Node /\ (k # 1 => s[i] # s[k - 1])
      BY <1>1, <1>2, <2>4, <3>1
    <3> QED BY <1>4, <3>2, <3>3
  <2> QED BY <2>2, <2>3, <2>4
<1>12. ASSUME NEW i \in 1 .. n, i # 1 PROVE g.prev[t[i]] = t[i - 1]
  <2>1. i - 1 \in 1 .. n
    BY <1>n, <1>12
  <2>2. CASE i = k
    <3>1. k # 1 /\ i - 1 # k /\ n # 1
      BY <1>n, <1>12, <2>2
    <3> QED BY <1>4, <1>5, <2>1, <2>2, <3>1
  <2>3. CASE i - 1 = k
    <3>1. k # n /\ i = k + 1 /\ i # k
      BY <1>n, <2>3
    <3> QED BY <1>4, <1>5, <2>3, <3>1
  <2>4. CASE i # k /\ i - 1 # k
    <3>1. k # n => i # k + 1
      BY <1>n, <2>4
    <3>2. t[i] = s[i] /\ t[i - 1] = s[i - 1] /\ h.prev[s[i]] = s[i - 1]
      BY <1>1, <1>5, <1>12, <2>1, <2>4
    <3>3. s[i] # r /\ s[i] # s[k] /\ s[i] \in Node /\ (k # n => s[i] # s[k + 1]) /\ s[i] # s[1]
      BY <1>1, <1>2, <1>12, <2>4, <3>1
    <3> QED BY <1>4, <3>2, <3>3
  <2> QED BY <2>2, <2>3, <2>4
<1>13. HasList(g, p, t)
  <2>1. IsHeap(g) /\ n \in Nat \ {0}
    BY <1>2, <1>4
  <2> QED BY <1>0, <1>6, <1>7, <1>8, <1>9, <1>10, <1>11, <1>12, <2>1, MakesList
<1>14. OthersKept(h, g, p, Items(s) \cup {r})
  <2>1. /\ s[k] \in Items(s) /\ s[1] \in Items(s) /\ (k # 1 => s[k - 1] \in Items(s))
        /\ k # n => s[k + 1] \in Items(s)
    BY <1>1, <1>2
  <2>2. \A x \in Node \ (Items(s) \cup {r}) : g.next[x] = h.next[x] /\ g.prev[x] = h.prev[x]
    BY <1>4, <2>1
  <2>3. \A q \in Node \ {p} : g.child[q] = h.child[q]
    BY <1>4
  <2> QED BY <2>2, <2>3, OthersLemma
<1> QED BY <1>4, <1>13, <1>14 DEF r, t
=============================================================================
