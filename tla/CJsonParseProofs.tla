-------------------------- MODULE CJsonParseProofs --------------------------
(***************************************************************************)
(* Proofs about CJsonParse, for texts of any length, any nesting limit and *)
(* any number of items and of allocations that succeed: the parser stays   *)
(* in its text, cJSON_Delete frees exactly the tree it is given, nothing   *)
(* is left when the parser gives up or BodyParse is through, and what      *)
(* cJSON_ParseWithOpts returns is a tree of proper lists.                  *)
(*                                                                         *)
(* The items form binary trees when child and next are taken for the two   *)
(* branches.  Items are allocated in the order of their addresses, and a   *)
(* pointer goes to a later item: so the recursion of cJSON_Delete ends,    *)
(* which is where induction comes in.                                      *)
(***************************************************************************)
EXTENDS CJsonParse, CJsonLinksProofs, FiniteSetTheorems, Integers

\* A pointer to an item.
Ptr == Node \cup {NULL}

-----------------------------------------------------------------------------
(* The inductive invariant.                                                *)

\* The members of cJSON's heap.
HeapFields == {"live", "type", "value", "key", "const", "ref", "child", "next", "prev",
               "strs", "mem", "cap", "fault"}

\* The types the parser gives.
ItemTypes == {"Literal", "Number", "String", "Array", "Object"}

\* The types of the members.
HeapTypeOK(g) ==
    /\ DOMAIN g = HeapFields
    /\ g.live \in SUBSET Node /\ g.const \in SUBSET Node /\ g.ref \in SUBSET Node
    /\ g.type \in [Node -> ItemTypes \cup {NULL}] /\ g.value \in [Node -> Words \cup {NULL}]
    /\ g.key \in [Node -> {WordKeys[w] : w \in Words} \cup {NULL}]
    /\ g.child \in [Node -> Ptr] /\ g.next \in [Node -> Ptr] /\ g.prev \in [Node -> Ptr]
    /\ g.strs \in Nat /\ g.mem \in Nat /\ g.cap \in Nat /\ g.fault \in BOOLEAN

\* A call of parse_array or parse_object.
Frame == [kind : {"Array", "Object"}, item : Ptr, head : Ptr, current : Ptr]

\* The characters a text may have.
TextChars == (UNION {i.chars : i \in Inputs}) \cup {"NUL"}

\* The values of pc.
Steps == {"begin", "value", "open", "item", "name", "colon", "done", "close", "fail", "failed",
          "end", "parsed", "read"}

\* The types of the variables.
ParseTypeOK ==
    /\ input \in Inputs /\ HeapTypeOK(h)
    /\ text \in Seq(TextChars) /\ off \in Nat /\ depth \in Nat
    /\ frames \in Seq(Frame) /\ pc \in Steps /\ root \in Ptr

\* A call of parse_array or parse_object runs.
InList == pc \in {"open", "item", "name", "colon", "close"}

\* The parser has not given up and the tree is not deleted yet.
Building == pc \notin {"fail", "failed", "read"}

\* The offset: at most the end of what was read, and before the NUL.
BoundsInv ==
    /\ off <= Len(text) /\ (Ended => off < Len(text))
    /\ pc = "begin" => off = 0
    /\ pc = "close" => Accessible /\ Char # "NUL"
    /\ depth <= NestingLimit
    /\ pc \notin {"fail", "failed"} => Len(frames) = depth
    /\ InList => frames # <<>>
    /\ pc \in {"begin", "end", "parsed", "failed", "read"} => frames = <<>>

\* What is not live is blank.
Blanks(g) ==
    \A n \in Node \ g.live :
        g.child[n] = NULL /\ g.next[n] = NULL /\ g.value[n] = NULL /\ g.key[n] = NULL

\* The items that own a block with a value.
Texts(g) == {n \in g.live : g.value[n] # NULL}

\* The items that own a block with a key.
Names(g) == {n \in g.live : g.key[n] # NULL}

\* The account of the blocks that hold strings.
Accounts(g) ==
    /\ g.strs = Cardinality(Texts(g)) + Cardinality(Names(g))
    /\ \A n \in Node : g.value[n] # NULL => g.type[n] = "String"

\* A heap without a fault, whose books balance.
HeapOK(g) ==
    HeapTypeOK(g) /\ ~g.fault /\ g.ref = {} /\ g.const = {} /\ Blanks(g) /\ Accounts(g)

\* m has a pointer to n.
Points(g, m, n) == g.child[m] = n \/ g.next[m] = n

\* The live items are trees with the roots R, when child and next are taken for
\* the two branches: pointers go to later items, no two go to the same one, none to
\* a root, and one to each item that is no root.
Forest(g, R) ==
    /\ R \subseteq g.live
    /\ \A m \in g.live : \A n \in Node : Points(g, m, n) => n \in g.live /\ m < n /\ n \notin R
    /\ \A m \in g.live : \A n \in Node : ~(g.child[m] = n /\ g.next[m] = n)
    /\ \A k, m \in g.live : \A n \in Node : Points(g, k, n) /\ Points(g, m, n) => k = m
    /\ \A n \in g.live \ R : \E m \in g.live : Points(g, m, n)

\* The item rt that is returned and the lists that the calls fs are building are
\* not linked to anything yet.
Roots(fs, rt) == ({rt} \cup {fs[i].head : i \in 1 .. Len(fs)}) \ {NULL}

\* These are different items.
HeadsDistinct(fs, rt) ==
    \A i \in 1 .. Len(fs) :
        fs[i].head # NULL =>
            /\ fs[i].head # rt
            /\ \A j \in 1 .. Len(fs) : fs[i].head = fs[j].head => i = j

\* An item without value and children yet.
FreshItem(g, n) == n \in g.live /\ g.child[n] = NULL /\ g.value[n] = NULL

\* The list that a call is building: empty, or from head to current.
PartOK(g, f) ==
    \/ f.head = NULL /\ f.current = NULL
    \/ /\ f.head \in g.live /\ f.current \in g.live
       /\ f.item < f.head /\ f.head <= f.current /\ g.next[f.current] = NULL

\* Each call fills in the item its caller is at.
CallsOK(g, fs, rt) ==
    /\ \A i \in 1 .. Len(fs) :
          /\ FreshItem(g, fs[i].item) /\ PartOK(g, fs[i])
          /\ fs[i].item = IF i = 1 THEN rt ELSE fs[i - 1].current
    /\ \A i, j \in 1 .. Len(fs) : i < j => fs[i].item < fs[j].item

\* Items are allocated in the order of their addresses.
Packed(g) ==
    g.cap = Cardinality(Node) /\ \A n \in g.live, m \in Node : m < n => m \in g.live

\* first[n] is the first item of the list that n is in.
Lists(g, first) ==
    \A n \in g.live :
        /\ first[n] \in g.live /\ first[n] <= n
        /\ \A m \in Node : g.next[n] = m => first[m] = first[n] /\ g.prev[m] = n
        /\ \A m \in Node : g.child[n] = m =>
              /\ first[m] = m
              /\ g.prev[m] \in g.live /\ first[g.prev[m]] = m /\ g.next[g.prev[m]] = NULL

\* The lists of the tree, of the calls, and the root's list of one.
ListsOK(g, fs, rt) ==
    \E first \in [Node -> Node] :
        /\ Lists(g, first)
        /\ rt # NULL => first[rt] = rt /\ g.next[rt] = NULL
        /\ \A i \in 1 .. Len(fs) : fs[i].head # NULL =>
              first[fs[i].head] = fs[i].head /\ first[fs[i].current] = fs[i].head

\* What holds until everything is freed.
Trees(g, fs, rt) == HeapOK(g) /\ Forest(g, Roots(fs, rt)) /\ HeadsDistinct(fs, rt)

\* What holds as long as the parser builds.
Built(g, fs, rt) == CallsOK(g, fs, rt) /\ Packed(g) /\ ListsOK(g, fs, rt)

\* Where the parser is, and the item it has in hand.
PlaceInv ==
    /\ pc = "begin" => root = NULL /\ h.live = {}
    /\ pc \in {"failed", "read"} => root = NULL
    /\ Building /\ pc # "begin" => root \in h.live
    /\ pc \in {"value", "name", "colon"} => FreshItem(h, Current)
    /\ pc = "name" => h.key[Current] = NULL

\* The inductive invariant.
ParseInv ==
    /\ ParseTypeOK /\ BoundsInv /\ PlaceInv /\ Trees(h, frames, root)
    /\ Building => Built(h, frames, root)

-----------------------------------------------------------------------------
(* Freeing.                                                                *)

\* The members of a heap after Deallocate.
LEMMA DeallocateMembers ==
    ASSUME NEW g, HeapTypeOK(g), NEW n \in Node
    PROVE  LET d == Deallocate(g, n)
           IN  /\ DOMAIN d = HeapFields
               /\ d.live = g.live \ {n} /\ d.ref = g.ref \ {n} /\ d.const = g.const \ {n}
               /\ d.strs = g.strs - Owned(g, n)
               /\ d.mem = g.mem /\ d.cap = g.cap /\ d.fault = g.fault
               /\ d.type = [g.type EXCEPT ![n] = NULL] /\ d.value = [g.value EXCEPT ![n] = NULL]
               /\ d.key = [g.key EXCEPT ![n] = NULL] /\ d.child = [g.child EXCEPT ![n] = NULL]
               /\ d.next = [g.next EXCEPT ![n] = NULL] /\ d.prev = [g.prev EXCEPT ![n] = NULL]
<1> DEFINE d == Deallocate(g, n)
<1>1. DOMAIN g = HeapFields
  BY DEF HeapTypeOK
<1>2. DOMAIN d = HeapFields
  BY <1>1, Zenon DEF Deallocate
<1>3. d.live = g.live \ {n} /\ d.ref = g.ref \ {n} /\ d.const = g.const \ {n}
  BY <1>1 DEF Deallocate, HeapFields
<1>4. /\ d.strs = g.strs - Owned(g, n)
      /\ d.mem = g.mem /\ d.cap = g.cap /\ d.fault = g.fault
  BY <1>1 DEF Deallocate, HeapFields
<1>5. d.type = [g.type EXCEPT ![n] = NULL] /\ d.value = [g.value EXCEPT ![n] = NULL]
  BY <1>1 DEF Deallocate, HeapFields
<1>6. d.key = [g.key EXCEPT ![n] = NULL] /\ d.child = [g.child EXCEPT ![n] = NULL]
  BY <1>1 DEF Deallocate, HeapFields
<1>7. d.next = [g.next EXCEPT ![n] = NULL] /\ d.prev = [g.prev EXCEPT ![n] = NULL]
  BY <1>1 DEF Deallocate, HeapFields
<1> QED BY <1>2, <1>3, <1>4, <1>5, <1>6, <1>7

\* Freeing one item keeps the account of strings and leaves the other items alone.
LEMMA DeallocateKeeps ==
    ASSUME NEW g, HeapOK(g), NEW n \in g.live
    PROVE  LET d == Deallocate(g, n)
           IN  /\ HeapOK(d) /\ d.live = g.live \ {n}
               /\ \A m \in d.live : d.child[m] = g.child[m] /\ d.next[m] = g.next[m]
<1> DEFINE d == Deallocate(g, n)
<1>1. HeapTypeOK(g) /\ n \in Node /\ g.live \subseteq Node
  BY DEF HeapOK, HeapTypeOK
<1>2. /\ DOMAIN d = HeapFields
      /\ d.live = g.live \ {n} /\ d.ref = g.ref \ {n} /\ d.const = g.const \ {n}
      /\ d.strs = g.strs - Owned(g, n)
      /\ d.mem = g.mem /\ d.cap = g.cap /\ d.fault = g.fault
      /\ d.type = [g.type EXCEPT ![n] = NULL] /\ d.value = [g.value EXCEPT ![n] = NULL]
      /\ d.key = [g.key EXCEPT ![n] = NULL] /\ d.child = [g.child EXCEPT ![n] = NULL]
      /\ d.next = [g.next EXCEPT ![n] = NULL] /\ d.prev = [g.prev EXCEPT ![n] = NULL]
  BY <1>1, DeallocateMembers
<1> HIDE DEF d
<1>3. Texts(d) = Texts(g) \ {n} /\ Names(d) = Names(g) \ {n}
  BY <1>1, <1>2 DEF Texts, Names, HeapTypeOK
<1>4. IsFiniteSet(Texts(g)) /\ IsFiniteSet(Names(g))
  <2>1. Texts(g) \in SUBSET Node /\ Names(g) \in SUBSET Node
    BY <1>1 DEF Texts, Names
  <2> QED BY <2>1, FS_Subset, NodeAssumption
<1>5. /\ Cardinality(Texts(g)) \in Nat /\ Cardinality(Names(g)) \in Nat
      /\ Cardinality(Texts(d)) \in Nat /\ Cardinality(Names(d)) \in Nat
      /\ Cardinality(Texts(d)) = IF n \in Texts(g) THEN Cardinality(Texts(g)) - 1 ELSE Cardinality(Texts(g))
      /\ Cardinality(Names(d)) = IF n \in Names(g) THEN Cardinality(Names(g)) - 1 ELSE Cardinality(Names(g))
  BY <1>3, <1>4, FS_RemoveElement, FS_CardinalityType
<1>6. Owned(g, n) = (IF n \in Texts(g) THEN 1 ELSE 0) + (IF n \in Names(g) THEN 1 ELSE 0)
  BY <1>1 DEF Owned, HeapOK, Accounts, Texts, Names
<1>7. g.strs = Cardinality(Texts(g)) + Cardinality(Names(g))
  BY DEF HeapOK, Accounts
<1>8. d.strs = Cardinality(Texts(d)) + Cardinality(Names(d)) /\ d.strs \in Nat
  BY <1>2, <1>5, <1>6, <1>7
<1>9. HeapTypeOK(d)
  <2>1. /\ d.type \in [Node -> ItemTypes \cup {NULL}] /\ d.value \in [Node -> Words \cup {NULL}]
        /\ d.key \in [Node -> {WordKeys[w] : w \in Words} \cup {NULL}]
        /\ d.child \in [Node -> Ptr] /\ d.next \in [Node -> Ptr] /\ d.prev \in [Node -> Ptr]
    BY <1>1, <1>2 DEF HeapTypeOK, Ptr
  <2>2. /\ d.live \in SUBSET Node /\ d.ref \in SUBSET Node /\ d.const \in SUBSET Node
        /\ d.mem \in Nat /\ d.cap \in Nat /\ d.fault \in BOOLEAN
    BY <1>1, <1>2 DEF HeapTypeOK
  <2> QED BY <1>1, <1>2, <1>8, <2>1, <2>2 DEF HeapTypeOK
<1>10. Blanks(d)
  BY <1>1, <1>2 DEF HeapOK, Blanks, HeapTypeOK
<1>11. ~d.fault /\ d.ref = {} /\ d.const = {}
  BY <1>2 DEF HeapOK
<1>12. \A m \in Node : d.value[m] # NULL => d.type[m] = "String"
  BY <1>1, <1>2 DEF HeapOK, Accounts, HeapTypeOK
<1>13. HeapOK(d)
  BY <1>8, <1>9, <1>10, <1>11, <1>12 DEF HeapOK, Accounts
<1>14. \A m \in d.live : d.child[m] = g.child[m] /\ d.next[m] = g.next[m]
  BY <1>1, <1>2 DEF HeapTypeOK
<1> QED BY <1>2, <1>13, <1>14 DEF d

\* FreeAll's recursion, as the table of its results.
FreedRow(g, s, f, i) ==
    IF i = 0 THEN g
    ELSE IF s[i] \in f[i - 1].live THEN Deallocate(f[i - 1], s[i])
    ELSE [f[i - 1] EXCEPT !.fault = TRUE]

\* f holds the heaps of the first n deallocations of s.
FreedTable(g, s, f, n) == f = [i \in 0 .. n |-> FreedRow(g, s, f, i)]

\* A row depends on the row before only.
LEMMA FreedRowLocal ==
    ASSUME NEW g, NEW s, NEW f, NEW e, NEW i \in Nat, i # 0 => f[i - 1] = e[i - 1]
    PROVE  FreedRow(g, s, f, i) = FreedRow(g, s, e, i)
  BY DEF FreedRow

\* So there is such a table.
LEMMA FreedExists ==
    ASSUME NEW g, NEW s, NEW k \in Nat
    PROVE  \E f : FreedTable(g, s, f, k)
<1> DEFINE S == {n \in Nat : \E f : FreedTable(g, s, f, n)}
<1>1. 0 \in S
  <2> DEFINE f == [i \in 0 .. 0 |-> FreedRow(g, s, <<>>, i)]
  <2>1. \A i \in 0 .. 0 : FreedRow(g, s, <<>>, i) = FreedRow(g, s, f, i)
    BY FreedRowLocal
  <2>2. FreedTable(g, s, f, 0)
    BY <2>1 DEF FreedTable
  <2> QED BY <2>2
<1>2. ASSUME NEW n \in Nat, n \in S PROVE n + 1 \in S
  <2>1. PICK f : FreedTable(g, s, f, n)
    BY <1>2
  <2> DEFINE e == [i \in 0 .. n + 1 |-> FreedRow(g, s, f, i)]
  <2>2. ASSUME NEW i \in 0 .. n + 1 PROVE FreedRow(g, s, f, i) = FreedRow(g, s, e, i)
    <3>1. i # 0 => e[i - 1] = f[i - 1]
      BY <2>1 DEF FreedTable
    <3> HIDE DEF e
    <3> QED BY <3>1, FreedRowLocal
  <2>3. FreedTable(g, s, e, n + 1)
    BY <2>2 DEF FreedTable
  <2> QED BY <2>3
<1>3. Nat \subseteq S
  BY <1>1, <1>2, NatSteps
<1> QED BY <1>3

\* FreeAll answers the last row.
LEMMA FreeAllTable ==
    ASSUME NEW g, NEW s, Len(s) \in Nat
    PROVE  \E f : FreedTable(g, s, f, Len(s)) /\ FreeAll(g, s) = f[Len(s)]
<1> DEFINE F == CHOOSE f : FreedTable(g, s, f, Len(s))
<1>1. FreedTable(g, s, F, Len(s))
  BY FreedExists
<1>2. FreeAll(g, s) = F[Len(s)]
  BY DEF FreeAll, FreedTable, FreedRow
<1> QED BY <1>1, <1>2

\* The items other than those of D are as before, and those of D are free.
Freed(g, d, D) ==
    /\ HeapOK(d) /\ d.live = g.live \ D
    /\ \A m \in d.live : d.child[m] = g.child[m] /\ d.next[m] = g.next[m]

\* FreeAll frees the items of s, if they are live and different.
LEMMA FreeAllFrees ==
    ASSUME NEW g, HeapOK(g), NEW s \in Seq(g.live),
           \A i, j \in 1 .. Len(s) : s[i] = s[j] => i = j
    PROVE  Freed(g, FreeAll(g, s), Items(s))
<1>1. Len(s) \in Nat /\ \A i \in 1 .. Len(s) : s[i] \in g.live
  BY LenProperties, ElementOfSeq
<1>2. PICK f : FreedTable(g, s, f, Len(s)) /\ FreeAll(g, s) = f[Len(s)]
  BY <1>1, FreeAllTable
<1>3. \A i \in 0 .. Len(s) : f[i] = FreedRow(g, s, f, i)
  BY <1>2 DEF FreedTable
<1> DEFINE Upto(i) == {s[j] : j \in 1 .. i}
           S == {i \in Nat : i <= Len(s) => Freed(g, f[i], Upto(i))}
<1>4. 0 \in S
  <2>1. Upto(0) = {}
    <3>1. 1 .. 0 = {} OBVIOUS
    <3>2. \A x : x \notin Upto(0)
      BY <3>1
    <3> HIDE DEF Upto
    <3> QED BY <3>2
  <2>2. f[0] = g
    <3>1. 0 \in 0 .. Len(s)
      BY <1>1
    <3>2. FreedRow(g, s, f, 0) = g
      BY DEF FreedRow
    <3> QED BY <1>3, <3>1, <3>2
  <2>3. Freed(g, f[0], {})
    BY <2>2 DEF Freed
  <2> QED BY <2>1, <2>3
<1>5. ASSUME NEW i \in Nat, i \in S PROVE i + 1 \in S
  <2> SUFFICES ASSUME i + 1 <= Len(s) PROVE Freed(g, f[i + 1], Upto(i + 1))
    OBVIOUS
  <2>1. i + 1 \in 0 .. Len(s) /\ i + 1 \in 1 .. Len(s) /\ i + 1 # 0 /\ (i + 1) - 1 = i /\ i <= Len(s)
    BY <1>1
  <2>2. Freed(g, f[i], Upto(i))
    BY <1>5, <2>1
  <2>3. s[i + 1] \in g.live /\ s[i + 1] \notin Upto(i)
    BY <1>1, <2>1
  <2>4. Upto(i + 1) = Upto(i) \cup {s[i + 1]}
    BY <1>1, <2>1
  <2> HIDE DEF Upto
  <2>5. f[i].live = g.live \ Upto(i) /\ HeapOK(f[i]) /\ s[i + 1] \in f[i].live
    BY <2>2, <2>3 DEF Freed
  <2>6. f[i + 1] = Deallocate(f[i], s[i + 1])
    BY <1>3, <2>1, <2>5 DEF FreedRow
  <2> DEFINE d == Deallocate(f[i], s[i + 1])
  <2>7. /\ HeapOK(d) /\ d.live = f[i].live \ {s[i + 1]}
        /\ \A m \in d.live : d.child[m] = f[i].child[m] /\ d.next[m] = f[i].next[m]
    BY <2>5, DeallocateKeeps
  <2> HIDE DEF d
  <2>8. Freed(g, d, Upto(i) \cup {s[i + 1]})
    BY <2>2, <2>5, <2>7 DEF Freed
  <2> QED BY <2>4, <2>6, <2>8 DEF d
<1>6. Nat \subseteq S
  <2> HIDE DEF S
  <2> QED BY <1>4, <1>5, NatSteps
<1>7. Freed(g, f[Len(s)], Upto(Len(s)))
  <2>1. Len(s) \in S
    BY <1>1, <1>6
  <2> QED BY <1>1, <2>1
<1> QED BY <1>2, <1>7 DEF Items

-----------------------------------------------------------------------------
(* The order in which cJSON_Delete frees.                                  *)

\* How many pointers in a row there can be from x on.
Rank(x) == Cardinality({y \in Node : x <= y})

\* A later item has a lower rank.
LEMMA RankFalls ==
    ASSUME NEW x \in Node
    PROVE  /\ Rank(x) \in Nat /\ Rank(x) > 0 /\ Rank(x) <= Cardinality(Node) /\ Cardinality(Node) \in Nat
           /\ \A y \in Node : x < y => Rank(y) < Rank(x)
<1> DEFINE A == {y \in Node : x <= y}
<1>1. Node \subseteq Nat /\ IsFiniteSet(Node)
  BY NodeAssumption
<1>2. A \in SUBSET Node /\ x \in A
  BY <1>1
<1>3. IsFiniteSet(A) /\ Cardinality(A) <= Cardinality(Node) /\ Cardinality(A) \in Nat /\ Cardinality(Node) \in Nat
  BY <1>1, <1>2, FS_Subset, FS_CardinalityType
<1>4. Cardinality(A) # 0
  BY <1>2, <1>3, FS_EmptySet
<1>5. ASSUME NEW y \in Node, x < y PROVE Rank(y) < Rank(x)
  <2> DEFINE B == {z \in Node : y <= z}
  <2>1. B \in SUBSET (A \ {x})
    <3>1. ASSUME NEW z \in Node, y <= z PROVE x <= z /\ z # x
      <4>1. x \in Nat /\ y \in Nat /\ z \in Nat
        BY <1>1
      <4> QED BY <1>5, <3>1, <4>1
    <3> QED BY <3>1
  <2>2. IsFiniteSet(A \ {x}) /\ Cardinality(A \ {x}) = Cardinality(A) - 1
    BY <1>2, <1>3, FS_RemoveElement
  <2>3. IsFiniteSet(B) /\ Cardinality(B) <= Cardinality(A \ {x})
    BY <2>1, <2>2, FS_Subset
  <2>4. Cardinality(B) \in Nat
    BY <2>3, FS_CardinalityType
  <2> HIDE DEF A, B
  <2>5. Cardinality(B) < Cardinality(A)
    BY <1>3, <1>4, <2>2, <2>3, <2>4
  <2> QED BY <2>5 DEF Rank, A, B
<1> HIDE DEF A
<1>6. Rank(x) = Cardinality(A)
  BY DEF Rank, A
<1> QED BY <1>3, <1>4, <1>5, <1>6

\* D is x and what hangs below and behind it.
TreeSet(g, D, x) ==
    /\ D \subseteq g.live /\ x \in D
    /\ \A y \in D : x <= y /\ \A n \in Node : Points(g, y, n) => n \in D
    /\ \A y \in D : y # x => \E z \in D : Points(g, z, y)

\* The empty set for the null pointer.
PartSet(g, D, x) == (x = NULL /\ D = {}) \/ (x \in g.live /\ TreeSet(g, D, x))

\* What hangs below an item and what hangs behind it have nothing in common.
LEMMA PartsDisjoint ==
    ASSUME NEW g, NEW R, HeapTypeOK(g), Forest(g, R), NEW x \in g.live, NEW A, NEW B,
           PartSet(g, A, g.child[x]), PartSet(g, B, g.next[x])
    PROVE  A \cap B = {}
<1> SUFFICES ASSUME A \cap B # {} PROVE FALSE
  OBVIOUS
<1> DEFINE c == g.child[x]
           n == g.next[x]
<1>1. g.live \subseteq Node /\ Node \subseteq Nat /\ NULL \notin Node
  BY NodeAssumption, NullAssumption DEF HeapTypeOK
<1>2. c \in g.live /\ TreeSet(g, A, c) /\ n \in g.live /\ TreeSet(g, B, n)
  BY DEF PartSet
<1>3. A \cap B \subseteq Nat
  BY <1>1, <1>2 DEF TreeSet
<1>4. PICK y \in A \cap B : \A z \in A \cap B : y <= z
  BY <1>3, NatMinimum
<1>5. y \in g.live /\ y \in Node /\ y \in Nat /\ x \in Node /\ x \in Nat
  BY <1>1, <1>2, <1>4 DEF TreeSet
<1>6. Points(g, x, c) /\ Points(g, x, n) /\ x < c /\ x < n /\ c # n
  BY <1>1, <1>2 DEF Forest, Points
<1> HIDE DEF c, n
<1>7. ASSUME NEW z \in A \cup B PROVE z \in g.live /\ z # x
  <2>1. z \in g.live /\ (c <= z \/ n <= z)
    BY <1>2 DEF TreeSet
  <2>2. z \in Nat /\ c \in Nat /\ n \in Nat
    BY <1>1, <1>2, <2>1
  <2> QED BY <1>5, <1>6, <2>1, <2>2
<1>8. y # c
  <2> SUFFICES ASSUME y = c PROVE FALSE
    OBVIOUS
  <2>1. PICK z \in B : Points(g, z, y)
    BY <1>2, <1>4, <1>6 DEF TreeSet
  <2> QED BY <1>5, <1>6, <1>7, <2>1 DEF Forest
<1>9. y # n
  <2> SUFFICES ASSUME y = n PROVE FALSE
    OBVIOUS
  <2>1. PICK z \in A : Points(g, z, y)
    BY <1>2, <1>4, <1>6 DEF TreeSet
  <2> QED BY <1>5, <1>6, <1>7, <2>1 DEF Forest
<1>10. PICK z1 \in A : Points(g, z1, y)
  BY <1>2, <1>4, <1>8 DEF TreeSet
<1>11. PICK z2 \in B : Points(g, z2, y)
  BY <1>2, <1>4, <1>9 DEF TreeSet
<1>12. z1 = z2 /\ z1 < y /\ z1 \in g.live
  BY <1>5, <1>7, <1>10, <1>11 DEF Forest
<1>13. z1 \in Nat /\ y <= z1
  BY <1>1, <1>4, <1>12
<1> QED BY <1>5, <1>12, <1>13

\* An item, what hangs below and what hangs behind it are such a set again.
LEMMA PartsJoin ==
    ASSUME NEW g, NEW R, HeapTypeOK(g), Forest(g, R), NEW x \in g.live, NEW A, NEW B,
           PartSet(g, A, g.child[x]), PartSet(g, B, g.next[x])
    PROVE  /\ TreeSet(g, A \cup {x} \cup B, x)
           /\ x \notin A /\ x \notin B /\ A \subseteq g.live /\ B \subseteq g.live
<1> DEFINE D == A \cup {x} \cup B
<1>1. g.live \subseteq Node /\ Node \subseteq Nat /\ NULL \notin Node /\ x \in Nat
  BY NodeAssumption, NullAssumption DEF HeapTypeOK
<1>2. /\ A \subseteq g.live
      /\ \A y \in A : x < y
      /\ \A y \in A : \A n \in Node : Points(g, y, n) => n \in A
      /\ \A y \in A : y = g.child[x] \/ \E z \in A : Points(g, z, y)
      /\ g.child[x] \in Node => g.child[x] \in A
  <2>1. CASE g.child[x] = NULL
    BY <1>1, <2>1 DEF PartSet
  <2>2. CASE g.child[x] # NULL
    <3>1. TreeSet(g, A, g.child[x]) /\ g.child[x] \in g.live
      BY <2>2 DEF PartSet
    <3>2. x < g.child[x]
      BY <1>1, <3>1 DEF Forest, Points
    <3>3. ASSUME NEW y \in A PROVE x < y
      <4>1. y \in g.live /\ g.child[x] <= y
        BY <3>1 DEF TreeSet
      <4>2. y \in Nat /\ g.child[x] \in Nat
        BY <1>1, <3>1, <4>1
      <4> QED BY <1>1, <3>2, <4>1, <4>2
    <3> QED BY <3>1, <3>3 DEF TreeSet
  <2> QED BY <2>1, <2>2
<1>3. /\ B \subseteq g.live
      /\ \A y \in B : x < y
      /\ \A y \in B : \A n \in Node : Points(g, y, n) => n \in B
      /\ \A y \in B : y = g.next[x] \/ \E z \in B : Points(g, z, y)
      /\ g.next[x] \in Node => g.next[x] \in B
  <2>1. CASE g.next[x] = NULL
    BY <1>1, <2>1 DEF PartSet
  <2>2. CASE g.next[x] # NULL
    <3>1. TreeSet(g, B, g.next[x]) /\ g.next[x] \in g.live
      BY <2>2 DEF PartSet
    <3>2. x < g.next[x]
      BY <1>1, <3>1 DEF Forest, Points
    <3>3. ASSUME NEW y \in B PROVE x < y
      <4>1. y \in g.live /\ g.next[x] <= y
        BY <3>1 DEF TreeSet
      <4>2. y \in Nat /\ g.next[x] \in Nat
        BY <1>1, <3>1, <4>1
      <4> QED BY <1>1, <3>2, <4>1, <4>2
    <3> QED BY <3>1, <3>3 DEF TreeSet
  <2> QED BY <2>1, <2>2
<1>4. D \subseteq g.live /\ x \in D
  BY <1>2, <1>3
<1>5. ASSUME NEW y \in D PROVE x <= y
  <2>1. y \in Nat
    BY <1>1, <1>4
  <2>2. y = x \/ x < y
    BY <1>2, <1>3
  <2> QED BY <1>1, <2>1, <2>2
<1>6. ASSUME NEW y \in D, NEW n \in Node, Points(g, y, n) PROVE n \in D
  BY <1>2, <1>3, <1>6 DEF Points
<1>7. ASSUME NEW y \in D, y # x PROVE \E z \in D : Points(g, z, y)
  BY <1>2, <1>3, <1>7 DEF Points
<1>8. x \notin A /\ x \notin B
  BY <1>1, <1>2, <1>3
<1> HIDE DEF D
<1>9. TreeSet(g, D, x)
  BY <1>4, <1>5, <1>6, <1>7 DEF TreeSet
<1> QED BY <1>2, <1>3, <1>8, <1>9 DEF D

\* No item occurs twice in s.
Distinct(s) == \A i, j \in 1 .. Len(s) : s[i] = s[j] => i = j

\* Sequences of different items without a common one, one behind the other.
LEMMA ConcatDistinct ==
    ASSUME NEW S, NEW s \in Seq(S), NEW t \in Seq(S)
    PROVE  /\ s \o t \in Seq(S) /\ Items(s \o t) = Items(s) \cup Items(t)
           /\ Distinct(s) /\ Distinct(t) /\ Items(s) \cap Items(t) = {} => Distinct(s \o t)
<1>1. /\ Len(s) \in Nat /\ Len(t) \in Nat /\ s \o t \in Seq(S) /\ Len(s \o t) = Len(s) + Len(t)
      /\ \A i \in 1 .. Len(s) + Len(t) : (s \o t)[i] = IF i <= Len(s) THEN s[i] ELSE t[i - Len(s)]
  BY LenProperties, ConcatProperties
<1> DEFINE u == s \o t
<1>2. \A i \in 1 .. Len(u) : \/ i \in 1 .. Len(s) /\ u[i] = s[i]
                             \/ i - Len(s) \in 1 .. Len(t) /\ u[i] = t[i - Len(s)]
  BY <1>1
<1>3. \A i \in 1 .. Len(s) : i \in 1 .. Len(u) /\ u[i] = s[i]
  BY <1>1
<1>4. \A i \in 1 .. Len(t) : i + Len(s) \in 1 .. Len(u) /\ u[i + Len(s)] = t[i]
  BY <1>1
<1>5. Len(u) \in Nat
  BY <1>1
<1> HIDE DEF u
<1>6. Items(u) = Items(s) \cup Items(t)
  BY <1>2, <1>3, <1>4 DEF Items
<1>7. ASSUME Distinct(s), Distinct(t), Items(s) \cap Items(t) = {} PROVE Distinct(u)
  <2> SUFFICES ASSUME NEW i \in 1 .. Len(u), NEW j \in 1 .. Len(u), u[i] = u[j] PROVE i = j
    BY DEF Distinct
  <2>1. \A k \in 1 .. Len(s), l \in 1 .. Len(t) : s[k] # t[l]
    BY <1>7 DEF Items
  <2>2. CASE i \in 1 .. Len(s) /\ u[i] = s[i]
    BY <1>2, <1>7, <2>1, <2>2 DEF Distinct
  <2>3. CASE i - Len(s) \in 1 .. Len(t) /\ u[i] = t[i - Len(s)]
    <3>1. j - Len(s) \in 1 .. Len(t) /\ u[j] = t[j - Len(s)]
      BY <1>2, <2>1, <2>3
    <3>2. i - Len(s) = j - Len(s)
      BY <1>7, <2>3, <3>1 DEF Distinct
    <3> QED BY <1>1, <1>5, <3>2
  <2> QED BY <1>2, <2>2, <2>3
<1> QED BY <1>1, <1>6, <1>7 DEF u

\* A sequence of one, in the middle.
LEMMA AroundItem ==
    ASSUME NEW S, NEW s \in Seq(S), NEW x \in S, NEW t \in Seq(S),
           Distinct(s), Distinct(t), x \notin Items(s), x \notin Items(t), Items(s) \cap Items(t) = {}
    PROVE  LET u == s \o <<x>> \o t
           IN  u \in Seq(S) /\ Items(u) = Items(s) \cup {x} \cup Items(t) /\ Distinct(u)
<1> DEFINE m == <<x>>
<1>1. m \in Seq(S) /\ Len(m) = 1 /\ m[1] = x
  OBVIOUS
<1> HIDE DEF m
<1>2. Items(m) = {x} /\ Distinct(m)
  BY <1>1 DEF Items, Distinct
<1>3. s \o m \in Seq(S) /\ Items(s \o m) = Items(s) \cup {x} /\ Distinct(s \o m)
  BY <1>1, <1>2, ConcatDistinct
<1> DEFINE v == s \o m
<1> HIDE DEF v
<1>4. v \in Seq(S) /\ Items(v) = Items(s) \cup {x} /\ Distinct(v)
  BY <1>3 DEF v
<1>5. v \o t \in Seq(S) /\ Items(v \o t) = Items(v) \cup Items(t) /\ Distinct(v \o t)
  BY <1>4, ConcatDistinct
<1> QED BY <1>4, <1>5 DEF v, m

\* FreeOrder's recursion, as the table of its results.
OrderRow(g, f, k) ==
    [x \in Node \cup {NULL} |->
        IF x = NULL \/ k = 0 THEN <<>>
        ELSE (IF x \in g.ref THEN <<>> ELSE f[k - 1][g.child[x]]) \o <<x>> \o f[k - 1][g.next[x]]]

\* f holds the orders in which items are freed, for every depth up to n.
OrderTable(g, f, n) == f = [k \in 0 .. n |-> OrderRow(g, f, k)]

\* A row depends on the row before only.
LEMMA OrderRowLocal ==
    ASSUME NEW g, NEW f, NEW e, NEW k \in Nat, k # 0 => f[k - 1] = e[k - 1]
    PROVE  OrderRow(g, f, k) = OrderRow(g, e, k)
  BY DEF OrderRow

\* So there is such a table.
LEMMA OrderExists ==
    ASSUME NEW g, NEW depth0 \in Nat
    PROVE  \E f : OrderTable(g, f, depth0)
<1> DEFINE S == {n \in Nat : \E f : OrderTable(g, f, n)}
<1>1. 0 \in S
  <2> DEFINE f == [i \in 0 .. 0 |-> OrderRow(g, <<>>, i)]
  <2>1. \A i \in 0 .. 0 : OrderRow(g, <<>>, i) = OrderRow(g, f, i)
    BY OrderRowLocal
  <2>2. OrderTable(g, f, 0)
    BY <2>1 DEF OrderTable
  <2> QED BY <2>2
<1>2. ASSUME NEW n \in Nat, n \in S PROVE n + 1 \in S
  <2>1. PICK f : OrderTable(g, f, n)
    BY <1>2
  <2> DEFINE e == [i \in 0 .. n + 1 |-> OrderRow(g, f, i)]
  <2>2. ASSUME NEW i \in 0 .. n + 1 PROVE OrderRow(g, f, i) = OrderRow(g, e, i)
    <3>1. i # 0 => e[i - 1] = f[i - 1]
      BY <2>1 DEF OrderTable
    <3> HIDE DEF e
    <3> QED BY <3>1, OrderRowLocal
  <2>3. OrderTable(g, e, n + 1)
    BY <2>2 DEF OrderTable
  <2> QED BY <2>3
<1>3. Nat \subseteq S
  BY <1>1, <1>2, NatSteps
<1> QED BY <1>3

\* FreeOrder answers from the last row.
LEMMA FreeOrderTable ==
    ASSUME NEW g, Cardinality(Node) \in Nat
    PROVE  LET d == Cardinality(Node) + 1
           IN  \E f : OrderTable(g, f, d) /\ \A x : FreeOrder(g, x) = f[d][x]
<1> DEFINE d == Cardinality(Node) + 1
           F == CHOOSE f : OrderTable(g, f, d)
<1>1. OrderTable(g, F, d)
  BY OrderExists
<1>2. ASSUME NEW x PROVE FreeOrder(g, x) = F[d][x]
  BY DEF FreeOrder, OrderTable, OrderRow
<1> QED BY <1>1, <1>2

\* s lists x and what hangs below and behind it, each item once.
TreeSeq(g, s, x) == s \in Seq(g.live) /\ Distinct(s) /\ PartSet(g, Items(s), x)

\* FreeOrder lists the tree of an item, each item once.
LEMMA FreeOrderLists ==
    ASSUME NEW g, NEW R, HeapOK(g), Forest(g, R), NEW x \in g.live
    PROVE  /\ FreeOrder(g, x) \in Seq(g.live) /\ Distinct(FreeOrder(g, x))
           /\ TreeSet(g, Items(FreeOrder(g, x)), x)
<1>1. /\ HeapTypeOK(g) /\ g.ref = {} /\ g.live \subseteq Node /\ NULL \notin Node
      /\ g.child \in [Node -> Ptr] /\ g.next \in [Node -> Ptr]
  BY NullAssumption DEF HeapOK, HeapTypeOK
<1> DEFINE d == Cardinality(Node) + 1
<1>2. Rank(x) <= d /\ Cardinality(Node) \in Nat /\ d \in Nat
  BY <1>1, RankFalls
<1>3. PICK f : OrderTable(g, f, d) /\ \A y : FreeOrder(g, y) = f[d][y]
  BY <1>2, FreeOrderTable
<1> HIDE DEF d
<1>4. \A k \in 0 .. d : f[k] = OrderRow(g, f, k)
  BY <1>3 DEF OrderTable
<1> DEFINE Good(k) == /\ f[k][NULL] = <<>>
                      /\ \A y \in g.live : Rank(y) <= k => TreeSeq(g, f[k][y], y)
           S == {k \in Nat : k <= d => Good(k)}
<1>5. 0 \in S
  <2>1. 0 \in 0 .. d /\ f[0] = OrderRow(g, f, 0)
    BY <1>2, <1>4
  <2>2. f[0][NULL] = <<>>
    BY <2>1 DEF OrderRow
  <2>3. ASSUME NEW y \in g.live PROVE ~(Rank(y) <= 0)
    BY <1>1, RankFalls
  <2> QED BY <2>2, <2>3
<1>6. ASSUME NEW k \in Nat, k \in S PROVE k + 1 \in S
  <2> SUFFICES ASSUME k + 1 <= d PROVE Good(k + 1)
    OBVIOUS
  <2>1. k + 1 \in 0 .. d /\ k + 1 # 0 /\ (k + 1) - 1 = k /\ k <= d
    BY <1>2
  <2>2. f[k + 1] = OrderRow(g, f, k + 1)
    BY <1>4, <2>1
  <2>3. f[k + 1][NULL] = <<>>
    BY <2>2 DEF OrderRow
  <2>4. Good(k)
    BY <1>6, <2>1
  <2>5. ASSUME NEW y \in g.live, Rank(y) <= k + 1 PROVE TreeSeq(g, f[k + 1][y], y)
    <3> DEFINE s == f[k][g.child[y]]
               t == f[k][g.next[y]]
    <3>1. f[k + 1][y] = s \o <<y>> \o t
      BY <1>1, <2>1, <2>2 DEF OrderRow
    <3>2. y \in Node /\ g.child[y] \in Ptr /\ g.next[y] \in Ptr
      BY <1>1
    <3>3. ASSUME NEW c \in Ptr, c # NULL => Points(g, y, c) PROVE TreeSeq(g, f[k][c], c)
      <4>1. CASE c = NULL
        <5>1. f[k][c] = <<>>
          BY <2>4, <4>1
        <5>2. Items(<<>>) = {} /\ Distinct(<<>>) /\ <<>> \in Seq(g.live)
          BY DEF Items, Distinct
        <5> QED BY <4>1, <5>1, <5>2 DEF TreeSeq, PartSet
      <4>2. CASE c # NULL
        <5>1. c \in Node /\ c \in g.live /\ y < c
          BY <3>3, <4>2 DEF Ptr, Forest
        <5>2. Rank(c) < Rank(y) /\ Rank(c) \in Nat /\ Rank(y) \in Nat
          BY <3>2, <5>1, RankFalls
        <5>3. Rank(c) <= k
          BY <2>5, <5>2
        <5> QED BY <2>4, <5>1, <5>3
      <4> QED BY <4>1, <4>2
    <3>4. TreeSeq(g, s, g.child[y]) /\ TreeSeq(g, t, g.next[y])
      BY <3>2, <3>3 DEF Points
    <3> HIDE DEF s, t
    <3>5. PartSet(g, Items(s), g.child[y]) /\ PartSet(g, Items(t), g.next[y])
      BY <3>4 DEF TreeSeq
    <3>6. Items(s) \cap Items(t) = {}
      BY <1>1, <3>5, PartsDisjoint
    <3>7. /\ TreeSet(g, Items(s) \cup {y} \cup Items(t), y)
          /\ y \notin Items(s) /\ y \notin Items(t)
      BY <1>1, <3>5, PartsJoin
    <3>8. LET u == s \o <<y>> \o t
          IN  u \in Seq(g.live) /\ Items(u) = Items(s) \cup {y} \cup Items(t) /\ Distinct(u)
      BY <3>4, <3>6, <3>7, AroundItem DEF TreeSeq
    <3> QED BY <3>1, <3>7, <3>8 DEF TreeSeq, PartSet
  <2> QED BY <2>3, <2>5
<1>7. Nat \subseteq S
  <2> HIDE DEF S
  <2> QED BY <1>5, <1>6, NatSteps
<1>8. Good(d)
  <2>1. d \in S
    BY <1>2, <1>7
  <2> QED BY <1>2, <2>1
<1>9. TreeSeq(g, f[d][x], x)
  BY <1>2, <1>8
<1>10. x # NULL
  BY <1>1
<1> QED BY <1>3, <1>9, <1>10 DEF TreeSeq, PartSet

\* When a whole tree is freed, the others stay trees.
LEMMA ForestAfter ==
    ASSUME NEW g, NEW R, HeapOK(g), Forest(g, R), NEW x \in R, NEW D, TreeSet(g, D, x),
           NEW d, Freed(g, d, D)
    PROVE  Forest(d, R \ {x})
<1>1. /\ g.live \subseteq Node /\ R \subseteq g.live /\ d.live = g.live \ D /\ D \subseteq g.live /\ x \in D
      /\ \A m \in d.live : \A n \in Node : Points(d, m, n) <=> Points(g, m, n)
  BY DEF HeapOK, HeapTypeOK, Forest, TreeSet, Freed, Points
<1>2. D \cap R = {x}
  <2> SUFFICES ASSUME NEW y \in D, y \in R, y # x PROVE FALSE
    BY <1>1
  <2>1. PICK z \in D : Points(g, z, y)
    BY DEF TreeSet
  <2> QED BY <1>1, <2>1 DEF Forest
<1>3. R \ {x} \subseteq d.live
  BY <1>1, <1>2
<1>4. ASSUME NEW m \in d.live, NEW n \in Node, Points(d, m, n)
      PROVE  n \in d.live /\ m < n /\ n \notin R \ {x}
  <2>1. m \in g.live /\ m \notin D /\ Points(g, m, n)
    BY <1>1, <1>4
  <2>2. n \in g.live /\ m < n /\ n \notin R
    BY <2>1 DEF Forest
  <2>3. n \notin D
    <3> SUFFICES ASSUME n \in D PROVE FALSE
      OBVIOUS
    <3>1. PICK z \in D : Points(g, z, n)
      BY <2>2 DEF TreeSet
    <3> QED BY <1>1, <2>1, <3>1 DEF Forest
  <2> QED BY <1>1, <2>2, <2>3
<1>5. \A m \in d.live : \A n \in Node : ~(d.child[m] = n /\ d.next[m] = n)
  BY DEF Forest, Freed
<1>6. \A k, m \in d.live : \A n \in Node : Points(d, k, n) /\ Points(d, m, n) => k = m
  BY <1>1 DEF Forest
<1>7. ASSUME NEW n \in d.live \ (R \ {x}) PROVE \E m \in d.live : Points(d, m, n)
  <2>1. n \in g.live \ R /\ n \notin D /\ n \in Node
    BY <1>1, <1>2
  <2>2. PICK m \in g.live : Points(g, m, n)
    BY <2>1 DEF Forest
  <2>3. m \notin D
    BY <2>1, <2>2 DEF TreeSet
  <2> QED BY <1>1, <2>1, <2>2, <2>3
<1> QED BY <1>3, <1>4, <1>5, <1>6, <1>7 DEF Forest

\* Without a root there is no item.
LEMMA RootlessIsEmpty ==
    ASSUME NEW g, HeapOK(g), Forest(g, {})
    PROVE  g.live = {}
<1> SUFFICES ASSUME g.live # {} PROVE FALSE
  OBVIOUS
<1>1. g.live \subseteq Nat /\ g.live \subseteq Node
  BY NodeAssumption DEF HeapOK, HeapTypeOK
<1>2. PICK n \in g.live : \A m \in g.live : n <= m
  BY <1>1, NatMinimum
<1>3. PICK m \in g.live : Points(g, m, n)
  BY DEF Forest
<1>4. m < n
  BY <1>1, <1>3 DEF Forest
<1>5. n \in Nat /\ m \in Nat /\ n <= m
  BY <1>1, <1>2
<1> QED BY <1>4, <1>5

\* cJSON_Delete of a null pointer does nothing.
LEMMA DeleteNull ==
    ASSUME NEW g
    PROVE  cJSON_Delete(g, NULL) = g
<1> DEFINE d == Cardinality(Node) + 1
<1>1. Cardinality(Node) \in Nat /\ d \in 0 .. d
  BY NodeAssumption, FS_CardinalityType
<1>2. PICK f : OrderTable(g, f, d) /\ \A y : FreeOrder(g, y) = f[d][y]
  BY <1>1, FreeOrderTable
<1> HIDE DEF d
<1>3. f[d] = OrderRow(g, f, d)
  BY <1>1, <1>2 DEF OrderTable
<1>4. FreeOrder(g, NULL) = <<>>
  BY <1>2, <1>3 DEF OrderRow
<1> DEFINE s == <<>>
<1>5. Len(s) = 0
  OBVIOUS
<1> HIDE DEF s
<1>6. PICK e : FreedTable(g, s, e, Len(s)) /\ FreeAll(g, s) = e[Len(s)]
  BY <1>5, FreeAllTable
<1>7. e[0] = FreedRow(g, s, e, 0)
  BY <1>5, <1>6 DEF FreedTable
<1>8. FreedRow(g, s, e, 0) = g
  BY DEF FreedRow
<1> QED BY <1>4, <1>5, <1>6, <1>7, <1>8 DEF cJSON_Delete, s

\* cJSON_Delete of the root of a tree of items frees each item of the tree once, and
\* its strings, touches no item that is free already, and leaves the other trees as
\* they were; for trees of any size and shape whose items were made in the order in
\* which the tree is read, as the parser makes them, and without references.
THEOREM DeleteFreesTree ==
    ASSUME NEW g, NEW R, HeapOK(g), Forest(g, R), NEW x \in R
    PROVE  /\ \E D : TreeSet(g, D, x) /\ Freed(g, cJSON_Delete(g, x), D)
           /\ HeapOK(cJSON_Delete(g, x)) /\ Forest(cJSON_Delete(g, x), R \ {x})
<1> DEFINE s == FreeOrder(g, x)
           d == cJSON_Delete(g, x)
<1>1. x \in g.live
  BY DEF Forest
<1>2. s \in Seq(g.live) /\ Distinct(s) /\ TreeSet(g, Items(s), x)
  BY <1>1, FreeOrderLists
<1> HIDE DEF s
<1>3. Freed(g, FreeAll(g, s), Items(s))
  BY <1>2, FreeAllFrees DEF Distinct
<1>4. d = FreeAll(g, s)
  BY DEF cJSON_Delete, s
<1> HIDE DEF d
<1>5. Freed(g, d, Items(s))
  BY <1>3, <1>4
<1>6. Forest(d, R \ {x})
  BY <1>2, <1>5, ForestAfter
<1>7. HeapOK(d)
  BY <1>5 DEF Freed
<1> QED BY <1>2, <1>5, <1>6, <1>7 DEF d

-----------------------------------------------------------------------------
(* Allocation.                                                             *)

\* From g to e the members that link items are the same.
SameLinks(g, e) ==
    /\ e.child = g.child /\ e.next = g.next /\ e.prev = g.prev
    /\ e.ref = g.ref /\ e.const = g.const /\ e.cap = g.cap /\ e.fault = g.fault

\* cJSON_New_Item answers null, or a blank item above all others.
LEMMA NewItemIs ==
    ASSUME NEW g, HeapOK(g), Packed(g), NEW n, n = cJSON_New_Item(g).item, n # NULL,
           NEW e, e = cJSON_New_Item(g).h
    PROVE  /\ n \in Node /\ n \notin g.live /\ \A m \in g.live : m < n
           /\ e.live = g.live \cup {n} /\ SameLinks(g, e)
           /\ e.value = g.value /\ e.key = g.key /\ e.type = g.type
           /\ HeapOK(e) /\ Packed(e)
<1>1. /\ DOMAIN g = HeapFields /\ g.live \subseteq Node /\ Node \subseteq Nat /\ IsFiniteSet(Node)
      /\ g.mem \in Nat
  BY NodeAssumption DEF HeapOK, HeapTypeOK
<1> DEFINE free == Node \ g.live
           c == CHOOSE x \in free : \A y \in free : x <= y
<1>2. ~NoRoom(g) /\ ~Full(g) /\ n = c /\ e = [g EXCEPT !.mem = @ - 1, !.live = @ \cup {c}]
  BY DEF cJSON_New_Item, Result
<1>3. free # {} /\ free \subseteq Nat
  BY <1>1, <1>2 DEF Full, Packed
<1>4. \E x \in free : \A y \in free : x <= y
  BY <1>3, NatMinimum
<1>5. c \in free /\ \A y \in free : c <= y
  BY <1>4
<1> HIDE DEF c
<1>6. n \in Node /\ n \notin g.live /\ \A y \in Node : y \notin g.live => n <= y
  BY <1>2, <1>5
<1>7. ASSUME NEW m \in g.live PROVE m < n
  <2>1. m \in Nat /\ n \in Nat /\ m # n /\ m \in Node
    BY <1>1, <1>6
  <2>2. ~(n < m)
    BY <1>6, <2>1 DEF Packed
  <2> QED BY <2>1, <2>2
<1>8. DOMAIN e = HeapFields
  BY <1>1, <1>2
<1>9. e.live = g.live \cup {n} /\ e.mem = g.mem - 1
  BY <1>1, <1>2 DEF HeapFields
<1>10. /\ SameLinks(g, e) /\ e.value = g.value /\ e.key = g.key /\ e.type = g.type /\ e.strs = g.strs
  BY <1>1, <1>2 DEF HeapFields, SameLinks
<1>11. e.mem \in Nat
  BY <1>1, <1>2, <1>9 DEF NoRoom
<1>12. HeapTypeOK(e)
  BY <1>6, <1>8, <1>9, <1>10, <1>11 DEF HeapOK, HeapTypeOK, SameLinks
<1>13. Texts(e) = Texts(g) /\ Names(e) = Names(g)
  BY <1>6, <1>9, <1>10 DEF HeapOK, Blanks, Texts, Names
<1>14. HeapOK(e)
  BY <1>6, <1>9, <1>10, <1>12, <1>13 DEF HeapOK, SameLinks, Blanks, Accounts
<1>15. Packed(e)
  <2>1. ASSUME NEW k \in e.live, NEW m \in Node, m < k PROVE m \in e.live
    <3>1. CASE k \in g.live
      BY <1>9, <2>1, <3>1 DEF Packed
    <3>2. CASE k = n
      <4>1. m \in Nat /\ n \in Nat /\ m < n
        BY <1>1, <1>6, <2>1, <3>2
      <4>2. ~(n <= m)
        BY <4>1
      <4> QED BY <1>6, <1>9, <4>2
    <3> QED BY <1>9, <3>1, <3>2
  <2> QED BY <1>10, <2>1 DEF Packed, SameLinks
<1> QED BY <1>6, <1>7, <1>9, <1>10, <1>14, <1>15

\* A heap whose items are linked in the same way is the same forest.
LEMMA SameForest ==
    ASSUME NEW g, NEW e, NEW R, Forest(g, R), SameLinks(g, e), e.live = g.live
    PROVE  Forest(e, R)
  BY DEF Forest, SameLinks, Points

\* And so are its lists.
LEMMA SameLists ==
    ASSUME NEW g, NEW e, NEW fs, NEW rt, ListsOK(g, fs, rt), SameLinks(g, e), e.live = g.live
    PROVE  ListsOK(e, fs, rt)
  BY DEF ListsOK, Lists, SameLinks

\* A new blank item is a tree of its own.
LEMMA NewRoot ==
    ASSUME NEW g, NEW e, NEW R, HeapOK(g), HeapOK(e), Forest(g, R), NEW n \in Node, n \notin g.live,
           e.live = g.live \cup {n}, SameLinks(g, e)
    PROVE  Forest(e, R \cup {n})
<1>1. g.live \subseteq Node /\ NULL \notin Node
  BY NullAssumption DEF HeapOK, HeapTypeOK
<1>2. g.child[n] = NULL /\ g.next[n] = NULL
  BY DEF HeapOK, Blanks
<1>3. \A m \in Node : ~Points(e, n, m)
  BY <1>1, <1>2 DEF Points, SameLinks
<1>4. \A k, m \in Node : Points(e, k, m) <=> Points(g, k, m)
  BY DEF Points, SameLinks
<1>5. \A m \in g.live : ~Points(g, m, n)
  BY DEF Forest
<1>6. ASSUME NEW m \in e.live, NEW k \in Node, Points(e, m, k)
      PROVE  k \in e.live /\ m < k /\ k \notin R \cup {n}
  BY <1>1, <1>3, <1>4, <1>5, <1>6 DEF Forest
<1>7. \A m \in e.live : \A k \in Node : ~(e.child[m] = k /\ e.next[m] = k)
  BY <1>1, <1>2 DEF Forest, SameLinks
<1>8. ASSUME NEW k \in e.live, NEW m \in e.live, NEW x \in Node, Points(e, k, x), Points(e, m, x)
      PROVE  k = m
  BY <1>1, <1>3, <1>4, <1>8 DEF Forest
<1>9. ASSUME NEW x \in e.live \ (R \cup {n}) PROVE \E m \in e.live : Points(e, m, x)
  BY <1>1, <1>4 DEF Forest
<1>10. R \cup {n} \subseteq e.live
  BY DEF Forest
<1> QED BY <1>6, <1>7, <1>8, <1>9, <1>10 DEF Forest

-----------------------------------------------------------------------------
(* The calls and the heap, step by step.                                   *)

\* The item that the innermost call of fs is filling in, or the root rt.
CurrentOf(fs, rt) == IF fs = <<>> THEN rt ELSE fs[Len(fs)].current

\* The calls on the stack, and their items.
LEMMA CallFacts ==
    ASSUME NEW g, NEW fs \in Seq(Frame), NEW rt, HeapOK(g), CallsOK(g, fs, rt)
    PROVE  /\ Len(fs) \in Nat /\ (fs = <<>> <=> Len(fs) = 0)
           /\ \A i \in 1 .. Len(fs) : fs[i] \in Frame /\ fs[i].item \in g.live
           /\ g.live \subseteq Node /\ Node \subseteq Nat /\ NULL \notin Node
  BY LenProperties, EmptySeq, ElementOfSeq, NodeAssumption, NullAssumption
     DEF CallsOK, FreshItem, HeapOK, HeapTypeOK

\* The item in hand was allocated after the items that are being filled in.
LEMMA CurrentAbove ==
    ASSUME NEW g, NEW fs \in Seq(Frame), NEW rt, HeapOK(g), CallsOK(g, fs, rt),
           CurrentOf(fs, rt) # NULL
    PROVE  \A i \in 1 .. Len(fs) : fs[i].item < CurrentOf(fs, rt)
<1> SUFFICES ASSUME NEW i \in 1 .. Len(fs) PROVE fs[i].item < CurrentOf(fs, rt)
  OBVIOUS
<1>1. /\ Len(fs) \in Nat /\ (fs = <<>> <=> Len(fs) = 0)
      /\ \A j \in 1 .. Len(fs) : fs[j].item \in g.live
      /\ g.live \subseteq Node /\ Node \subseteq Nat /\ NULL \notin Node
  BY CallFacts
<1> DEFINE L == Len(fs)
<1>2. L \in 1 .. L /\ fs # <<>> /\ (i = L \/ i < L)
  BY <1>1
<1>3. CurrentOf(fs, rt) = fs[L].current
  BY <1>2 DEF CurrentOf
<1> DEFINE c == fs[L].current
           d == fs[L].head
           t == fs[L].item
<1>4. PartOK(g, fs[L]) /\ c # NULL
  BY <1>2, <1>3 DEF CallsOK
<1>5. d \in g.live /\ c \in g.live /\ t < d /\ d <= c
  BY <1>4 DEF PartOK
<1>6. fs[i].item = t \/ fs[i].item < t
  BY <1>2 DEF CallsOK
<1>7. fs[i].item \in Nat /\ t \in Nat /\ d \in Nat /\ c \in Nat
  BY <1>1, <1>2, <1>5
<1> HIDE DEF c, d, t
<1>8. fs[i].item < c
  BY <1>5, <1>6, <1>7
<1> QED BY <1>3, <1>8 DEF c

\* The root item.
LEMMA RootBuilt ==
    ASSUME NEW g, NEW e, NEW n \in Node, HeapOK(g), HeapOK(e), Packed(e), Trees(g, <<>>, NULL), g.live = {},
           e.live = g.live \cup {n}, SameLinks(g, e), e.value = g.value, e.key = g.key
    PROVE  Trees(e, <<>>, n) /\ Built(e, <<>>, n) /\ FreshItem(e, n)
<1> DEFINE fs == <<>>
<1>1. Len(fs) = 0 /\ 1 .. Len(fs) = {}
  OBVIOUS
<1> HIDE DEF fs
<1>2. n # NULL /\ n \in Nat /\ n \notin g.live
  BY NullAssumption, NodeAssumption
<1>3. Roots(fs, NULL) = {} /\ Roots(fs, n) = {n}
  BY <1>1, <1>2 DEF Roots
<1>4. Forest(g, {})
  BY <1>3 DEF Trees, fs
<1>5. Forest(e, {} \cup {n})
  BY <1>2, <1>4, NewRoot
<1>6. Trees(e, fs, n)
  BY <1>1, <1>3, <1>5 DEF Trees, HeadsDistinct
<1>7. g.child[n] = NULL /\ g.next[n] = NULL /\ g.value[n] = NULL
  BY <1>2 DEF HeapOK, Blanks
<1>8. FreshItem(e, n)
  BY <1>7 DEF FreshItem, SameLinks
<1>9. CallsOK(e, fs, n)
  BY <1>1 DEF CallsOK
<1>10. ListsOK(e, fs, n)
  <2> DEFINE first == [m \in Node |-> m]
  <2>1. first \in [Node -> Node] /\ first[n] = n
    OBVIOUS
  <2> HIDE DEF first
  <2>2. e.live = {n} /\ e.child[n] = NULL /\ e.next[n] = NULL
    BY <1>7 DEF SameLinks
  <2>3. Lists(e, first)
    BY <1>2, <2>1, <2>2, NullAssumption DEF Lists
  <2> QED BY <1>1, <2>1, <2>2, <2>3 DEF ListsOK
<1> QED BY <1>6, <1>8, <1>9, <1>10 DEF Built, fs

\* The item in hand gets a type, a value or a key.
LEMMA FillKeeps ==
    ASSUME NEW g, NEW e, NEW fs \in Seq(Frame), NEW rt, Trees(g, fs, rt), Built(g, fs, rt),
           NEW x, x = CurrentOf(fs, rt), FreshItem(g, x),
           HeapOK(e), e.live = g.live, SameLinks(g, e),
           \A m \in Node : m # x => e.value[m] = g.value[m]
    PROVE  Trees(e, fs, rt) /\ Built(e, fs, rt)
<1>1. HeapOK(g) /\ CallsOK(g, fs, rt) /\ x \in g.live /\ x # NULL
  BY NullAssumption DEF Trees, Built, FreshItem, HeapOK, HeapTypeOK
<1>2. /\ Len(fs) \in Nat
      /\ \A i \in 1 .. Len(fs) : fs[i].item \in g.live
      /\ g.live \subseteq Node /\ Node \subseteq Nat
  BY <1>1, CallFacts
<1>3. \A i \in 1 .. Len(fs) : fs[i].item < x
  BY <1>1, CurrentAbove
<1>4. ASSUME NEW i \in 1 .. Len(fs) PROVE fs[i].item # x /\ fs[i].item \in Node
  <2>1. fs[i].item < x /\ fs[i].item \in Nat /\ x \in Nat /\ fs[i].item \in Node
    BY <1>1, <1>2, <1>3
  <2> QED BY <2>1
<1>5. \A i \in 1 .. Len(fs) : FreshItem(e, fs[i].item) /\ PartOK(e, fs[i])
  BY <1>4 DEF Built, CallsOK, FreshItem, PartOK, SameLinks
<1>6. CallsOK(e, fs, rt)
  BY <1>1, <1>5 DEF CallsOK
<1>7. Packed(e)
  BY DEF Built, Packed, SameLinks
<1>8. ListsOK(e, fs, rt)
  BY SameLists DEF Built
<1>9. Forest(e, Roots(fs, rt))
  BY SameForest DEF Trees
<1> QED BY <1>6, <1>7, <1>8, <1>9 DEF Trees, Built

\* parse_array or parse_object is called for the item in hand.
LEMMA OpenKeeps ==
    ASSUME NEW g, NEW fs \in Seq(Frame), NEW rt, Trees(g, fs, rt), Built(g, fs, rt),
           NEW x, x = CurrentOf(fs, rt), FreshItem(g, x), NEW kind \in {"Array", "Object"}
    PROVE  LET f == [kind |-> kind, item |-> x, head |-> NULL, current |-> NULL]
               e == Append(fs, f)
           IN  e \in Seq(Frame) /\ Trees(g, e, rt) /\ Built(g, e, rt)
<1> DEFINE f == [kind |-> kind, item |-> x, head |-> NULL, current |-> NULL]
           e == Append(fs, f)
           L == Len(fs)
<1>1. HeapOK(g) /\ CallsOK(g, fs, rt) /\ x \in g.live /\ x # NULL /\ x \in Node
  BY NullAssumption DEF Trees, Built, FreshItem, HeapOK, HeapTypeOK
<1>2. L \in Nat /\ (fs = <<>> <=> L = 0)
  BY <1>1, CallFacts
<1>3. f \in Frame /\ f.head = NULL /\ f.current = NULL /\ f.item = x
  BY <1>1 DEF Frame, Ptr
<1> HIDE DEF f
<1>4. /\ e \in Seq(Frame) /\ Len(e) = L + 1 /\ e[L + 1] = f
      /\ \A i \in 1 .. L : e[i] = fs[i]
  BY <1>3, AppendProperties
<1> HIDE DEF e
<1>5. \A i \in 1 .. Len(e) : (i \in 1 .. L /\ i # L + 1) \/ i = L + 1
  BY <1>2, <1>4
<1>6. \A i \in 1 .. L : i \in 1 .. Len(e)
  BY <1>2, <1>4
<1>7. Roots(e, rt) = Roots(fs, rt)
  BY <1>3, <1>4, <1>5, <1>6 DEF Roots
<1>8. HeadsDistinct(e, rt)
  BY <1>3, <1>4, <1>5 DEF Trees, HeadsDistinct
<1>9. \A i \in 1 .. L : fs[i].item < x
  BY <1>1, CurrentAbove
<1>10. ASSUME NEW i \in 1 .. Len(e)
       PROVE  /\ FreshItem(g, e[i].item) /\ PartOK(g, e[i])
              /\ e[i].item = IF i = 1 THEN rt ELSE e[i - 1].current
  <2>1. CASE i \in 1 .. L
    <3>1. e[i] = fs[i] /\ (i # 1 => i - 1 \in 1 .. L)
      BY <1>2, <1>4, <2>1
    <3>2. i # 1 => e[i - 1] = fs[i - 1]
      BY <1>4, <3>1
    <3> QED BY <1>1, <2>1, <3>1, <3>2 DEF CallsOK
  <2>2. CASE i = L + 1
    <3>1. e[i] = f /\ FreshItem(g, e[i].item) /\ PartOK(g, e[i])
      BY <1>3, <1>4, <2>2 DEF PartOK
    <3>2. CASE L = 0
      BY <1>2, <1>3, <2>2, <3>1, <3>2 DEF CurrentOf
    <3>3. CASE L # 0
      <4>1. i - 1 = L /\ L \in 1 .. L /\ i # 1 /\ fs # <<>>
        BY <1>2, <2>2, <3>3
      <4>2. e[i - 1].current = x
        BY <1>4, <4>1 DEF CurrentOf
      <4> QED BY <1>3, <3>1, <4>1, <4>2
    <3> QED BY <3>2, <3>3
  <2> QED BY <1>5, <2>1, <2>2
<1>11. ASSUME NEW i \in 1 .. Len(e), NEW j \in 1 .. Len(e), i < j PROVE e[i].item < e[j].item
  <2>1. i \in 1 .. L
    BY <1>2, <1>4, <1>11
  <2>2. CASE j \in 1 .. L
    BY <1>1, <1>4, <1>11, <2>1, <2>2 DEF CallsOK
  <2>3. CASE j = L + 1
    BY <1>3, <1>4, <1>9, <2>1, <2>3
  <2> QED BY <1>5, <2>2, <2>3
<1>12. CallsOK(g, e, rt)
  BY <1>10, <1>11 DEF CallsOK
<1>13. ListsOK(g, e, rt)
  <2>1. PICK first \in [Node -> Node] :
           /\ Lists(g, first)
           /\ rt # NULL => first[rt] = rt /\ g.next[rt] = NULL
           /\ \A i \in 1 .. Len(fs) : fs[i].head # NULL =>
                 first[fs[i].head] = fs[i].head /\ first[fs[i].current] = fs[i].head
    BY DEF Built, ListsOK
  <2>2. \A i \in 1 .. Len(e) : e[i].head # NULL =>
           first[e[i].head] = e[i].head /\ first[e[i].current] = e[i].head
    BY <1>3, <1>4, <1>5, <2>1
  <2> QED BY <2>1, <2>2 DEF ListsOK
<1> QED BY <1>4, <1>7, <1>8, <1>12, <1>13 DEF Trees, Built, e, f

\* What Link makes of the calls: only the last one's list changes.
LinkedFrames(fs, es, n) ==
    LET L == Len(fs)
    IN  /\ es \in Seq(Frame) /\ Len(es) = L
        /\ \A i \in 1 .. L : i # L => es[i] = fs[i]
        /\ es[L].item = fs[L].item /\ es[L].current = n
        /\ es[L].head = IF fs[L].head = NULL THEN n ELSE fs[L].head

\* The places on the stack, for the steps that change the last call.
LEMMA LinkPlaces ==
    ASSUME NEW g, NEW fs \in Seq(Frame), fs # <<>>, NEW rt, Trees(g, fs, rt), CallsOK(g, fs, rt)
    PROVE  /\ Len(fs) \in Nat /\ Len(fs) \in 1 .. Len(fs)
           /\ \A i \in 1 .. Len(fs) : i # Len(fs) => i < Len(fs)
           /\ \A i \in 1 .. Len(fs) : i # 1 => i - 1 \in 1 .. Len(fs) /\ i - 1 # Len(fs)
           /\ \A i \in 1 .. Len(fs) : fs[i].item \in g.live /\ fs[i].head \in g.live \cup {NULL}
           /\ rt \in g.live \cup {NULL}
           /\ g.live \subseteq Node /\ Node \subseteq Nat /\ NULL \notin Node
<1>1. /\ Len(fs) \in Nat /\ (fs = <<>> <=> Len(fs) = 0)
      /\ \A i \in 1 .. Len(fs) : fs[i].item \in g.live
      /\ g.live \subseteq Node /\ Node \subseteq Nat /\ NULL \notin Node
  BY CallFacts DEF Trees
<1>2. Roots(fs, rt) \subseteq g.live
  BY DEF Trees, Forest
<1>3. rt \in g.live \cup {NULL} /\ \A i \in 1 .. Len(fs) : fs[i].head \in g.live \cup {NULL}
  BY <1>2 DEF Roots
<1>4. Len(fs) # 0
  BY <1>1
<1> QED BY <1>1, <1>3, <1>4

\* The first item of a list.
LEMMA FirstLinkKeeps ==
    ASSUME NEW g, NEW e, NEW fs \in Seq(Frame), fs # <<>>, NEW rt, Trees(g, fs, rt), Built(g, fs, rt),
           NEW n \in Node, n \notin g.live, \A m \in g.live : m < n,
           e.live = g.live \cup {n}, SameLinks(g, e), e.value = g.value, HeapOK(e), Packed(e),
           fs[Len(fs)].head = NULL, NEW es, LinkedFrames(fs, es, n)
    PROVE  Trees(e, es, rt) /\ Built(e, es, rt) /\ FreshItem(e, n)
<1> DEFINE L == Len(fs)
<1>1. HeapOK(g) /\ CallsOK(g, fs, rt) /\ Forest(g, Roots(fs, rt)) /\ HeadsDistinct(fs, rt)
  BY DEF Trees, Built
<1>2. /\ L \in Nat /\ L \in 1 .. L
      /\ \A i \in 1 .. L : i # L => i < L
      /\ \A i \in 1 .. L : i # 1 => i - 1 \in 1 .. L /\ i - 1 # L
      /\ \A i \in 1 .. L : fs[i].item \in g.live /\ fs[i].head \in g.live \cup {NULL}
      /\ rt \in g.live \cup {NULL}
      /\ g.live \subseteq Node /\ Node \subseteq Nat /\ NULL \notin Node
  BY <1>1, LinkPlaces
<1>3. /\ es \in Seq(Frame) /\ Len(es) = L /\ (\A i \in 1 .. L : i # L => es[i] = fs[i])
      /\ es[L].item = fs[L].item /\ es[L].current = n /\ es[L].head = n
  BY DEF LinkedFrames
<1>4. g.child[n] = NULL /\ g.next[n] = NULL /\ g.value[n] = NULL
  BY <1>1 DEF HeapOK, Blanks
<1> HIDE DEF L
<1>5. Roots(es, rt) = Roots(fs, rt) \cup {n}
  <2>1. fs[L].head = NULL /\ n # NULL
    BY <1>2 DEF L
  <2>2. \A x : x \in Roots(fs, rt) => x \in Roots(es, rt)
    BY <1>2, <1>3, <2>1 DEF Roots, L
  <2>3. \A x : x \in Roots(es, rt) => x \in Roots(fs, rt) \cup {n}
    BY <1>2, <1>3, <2>1 DEF Roots, L
  <2>4. n \in Roots(es, rt)
    BY <1>2, <1>3, <2>1 DEF Roots
  <2> QED BY <2>2, <2>3, <2>4
<1>6. Forest(e, Roots(es, rt))
  BY <1>1, <1>5, NewRoot
<1>7. HeadsDistinct(es, rt)
  <2>1. n # rt /\ \A i \in 1 .. L : n # fs[i].head
    BY <1>2
  <2> QED BY <1>1, <1>2, <1>3, <2>1 DEF HeadsDistinct, L
<1>8. FreshItem(e, n)
  BY <1>4 DEF FreshItem, SameLinks
<1>9. \A i \in 1 .. L : es[i].item = fs[i].item
  BY <1>3
<1>10. ASSUME NEW i \in 1 .. L PROVE FreshItem(e, es[i].item) /\ PartOK(e, es[i])
  <2>1. FreshItem(e, es[i].item)
    BY <1>1, <1>9 DEF CallsOK, FreshItem, SameLinks, L
  <2>2. CASE i # L
    BY <1>1, <1>3, <2>1, <2>2 DEF CallsOK, PartOK, SameLinks, L
  <2>3. CASE i = L
    <3>1. es[L].item < n /\ n \in Nat /\ n <= n
      BY <1>2, <1>9
    <3> QED BY <1>3, <1>4, <2>1, <2>3, <3>1 DEF PartOK, SameLinks
  <2> QED BY <2>2, <2>3
<1>11. ASSUME NEW i \in 1 .. L PROVE es[i].item = IF i = 1 THEN rt ELSE es[i - 1].current
  BY <1>1, <1>2, <1>3, <1>9 DEF CallsOK, L
<1>12. CallsOK(e, es, rt)
  BY <1>1, <1>3, <1>9, <1>10, <1>11 DEF CallsOK, L
<1>13. ListsOK(e, es, rt)
  <2>1. PICK f \in [Node -> Node] :
           /\ Lists(g, f)
           /\ rt # NULL => f[rt] = rt /\ g.next[rt] = NULL
           /\ \A i \in 1 .. L : fs[i].head # NULL =>
                 f[fs[i].head] = fs[i].head /\ f[fs[i].current] = fs[i].head
    BY DEF Built, ListsOK, L
  <2> DEFINE first == [f EXCEPT ![n] = n]
  <2>2. /\ first \in [Node -> Node] /\ first[n] = n
        /\ \A m \in g.live : first[m] = f[m] /\ m # n
    BY <1>2, <2>1
  <2> HIDE DEF first
  <2>3. Lists(e, first)
    <3> SUFFICES ASSUME NEW m \in e.live
                 PROVE  /\ first[m] \in e.live /\ first[m] <= m
                        /\ \A k \in Node : e.next[m] = k => first[k] = first[m] /\ e.prev[k] = m
                        /\ \A k \in Node : e.child[m] = k =>
                              /\ first[k] = k /\ e.prev[k] \in e.live
                              /\ first[e.prev[k]] = k /\ e.next[e.prev[k]] = NULL
      BY DEF Lists
    <3>1. CASE m = n
      BY <1>2, <1>4, <2>2, <3>1 DEF SameLinks
    <3>2. CASE m \in g.live
      <4>1. first[m] \in e.live /\ first[m] <= m
        BY <2>1, <2>2, <3>2 DEF Lists
      <4>2. ASSUME NEW k \in Node, e.next[m] = k PROVE first[k] = first[m] /\ e.prev[k] = m
        <5>1. k \in g.live
          BY <1>1, <3>2, <4>2 DEF Forest, Points, SameLinks
        <5> QED BY <2>1, <2>2, <3>2, <4>2, <5>1 DEF Lists, SameLinks
      <4>3. ASSUME NEW k \in Node, e.child[m] = k
            PROVE  /\ first[k] = k /\ e.prev[k] \in e.live
                   /\ first[e.prev[k]] = k /\ e.next[e.prev[k]] = NULL
        <5>1. k \in g.live
          BY <1>1, <3>2, <4>3 DEF Forest, Points, SameLinks
        <5> QED BY <2>1, <2>2, <3>2, <4>3, <5>1 DEF Lists, SameLinks
      <4> QED BY <4>1, <4>2, <4>3
    <3> QED BY <3>1, <3>2
  <2>4. rt # NULL => first[rt] = rt /\ e.next[rt] = NULL
    BY <1>2, <2>1, <2>2 DEF SameLinks
  <2>5. ASSUME NEW i \in 1 .. L, es[i].head # NULL
        PROVE  first[es[i].head] = es[i].head /\ first[es[i].current] = es[i].head
    <3>1. CASE i = L
      BY <1>3, <2>2, <3>1
    <3>2. CASE i # L
      <4>1. es[i] = fs[i] /\ fs[i].head \in g.live /\ fs[i].current \in g.live
        BY <1>1, <1>2, <1>3, <2>5, <3>2 DEF CallsOK, PartOK, L
      <4> QED BY <2>1, <2>2, <2>5, <4>1
    <3> QED BY <3>1, <3>2
  <2> QED BY <1>3, <2>2, <2>3, <2>4, <2>5 DEF ListsOK
<1> QED BY <1>6, <1>7, <1>8, <1>12, <1>13 DEF Trees, Built

\* The members of a heap after suffix_object.
LEMMA SuffixMembers ==
    ASSUME NEW e, HeapOK(e), NEW c \in e.live, NEW n \in e.live
    PROVE  LET d == suffix_object(e, c, n)
           IN  /\ HeapOK(d) /\ d.live = e.live /\ d.child = e.child
               /\ d.next = [e.next EXCEPT ![c] = n] /\ d.prev = [e.prev EXCEPT ![n] = c]
               /\ d.value = e.value /\ d.key = e.key /\ d.cap = e.cap
<1> DEFINE d == suffix_object(e, c, n)
<1>1. HeapTypeOK(e) /\ DOMAIN e = HeapFields /\ e.live \subseteq Node
  BY DEF HeapOK, HeapTypeOK
<1>2. DOMAIN d = HeapFields
  BY <1>1 DEF suffix_object
<1>3. d.live = e.live /\ d.child = e.child /\ d.value = e.value /\ d.key = e.key /\ d.type = e.type
  BY <1>1 DEF suffix_object, HeapFields
<1>4. /\ d.ref = e.ref /\ d.const = e.const /\ d.strs = e.strs /\ d.mem = e.mem /\ d.cap = e.cap
      /\ d.fault = e.fault
  BY <1>1 DEF suffix_object, HeapFields
<1>5. d.next = [e.next EXCEPT ![c] = n] /\ d.prev = [e.prev EXCEPT ![n] = c]
  BY <1>1 DEF suffix_object, HeapFields
<1> HIDE DEF d
<1>6. d.next \in [Node -> Ptr] /\ d.prev \in [Node -> Ptr]
  BY <1>1, <1>5 DEF HeapTypeOK, Ptr
<1>7. HeapTypeOK(d)
  BY <1>1, <1>2, <1>3, <1>4, <1>6 DEF HeapTypeOK
<1>8. Blanks(d)
  BY <1>1, <1>3, <1>5 DEF HeapOK, Blanks, HeapTypeOK
<1>9. Accounts(d)
  <2>1. Texts(d) = Texts(e) /\ Names(d) = Names(e)
    BY <1>3 DEF Texts, Names
  <2> QED BY <1>3, <1>4, <2>1 DEF HeapOK, Accounts
<1>10. HeapOK(d)
  BY <1>4, <1>7, <1>8, <1>9 DEF HeapOK
<1> QED BY <1>3, <1>4, <1>5, <1>10 DEF d

\* A further item of a list, behind the last one.
LEMMA NextLinkKeeps ==
    ASSUME NEW g, NEW e, NEW fs \in Seq(Frame), fs # <<>>, NEW rt, Trees(g, fs, rt), Built(g, fs, rt),
           NEW n \in Node, n \notin g.live, \A m \in g.live : m < n,
           e.live = g.live \cup {n}, SameLinks(g, e), e.value = g.value, HeapOK(e), Packed(e),
           fs[Len(fs)].head # NULL, NEW es, LinkedFrames(fs, es, n),
           NEW d, d = suffix_object(e, fs[Len(fs)].current, n)
    PROVE  Trees(d, es, rt) /\ Built(d, es, rt) /\ FreshItem(d, n)
<1> DEFINE L == Len(fs)
           c == fs[L].current
<1>1. HeapOK(g) /\ CallsOK(g, fs, rt) /\ Forest(g, Roots(fs, rt)) /\ HeadsDistinct(fs, rt)
  BY DEF Trees, Built
<1>2. /\ L \in Nat /\ L \in 1 .. L
      /\ \A i \in 1 .. L : i # L => i < L
      /\ \A i \in 1 .. L : i # 1 => i - 1 \in 1 .. L /\ i - 1 # L
      /\ \A i \in 1 .. L : fs[i].item \in g.live /\ fs[i].head \in g.live \cup {NULL}
      /\ rt \in g.live \cup {NULL}
      /\ g.live \subseteq Node /\ Node \subseteq Nat /\ NULL \notin Node
  BY <1>1, LinkPlaces
<1>3. /\ es \in Seq(Frame) /\ Len(es) = L /\ (\A i \in 1 .. L : i # L => es[i] = fs[i])
      /\ es[L].item = fs[L].item /\ es[L].current = n /\ es[L].head = fs[L].head
  BY DEF LinkedFrames
<1>4. g.child[n] = NULL /\ g.next[n] = NULL /\ g.value[n] = NULL
  BY <1>1 DEF HeapOK, Blanks
<1>5. /\ c \in g.live /\ g.next[c] = NULL /\ fs[L].head \in g.live
      /\ fs[L].item < fs[L].head /\ fs[L].head <= c
  BY <1>1, <1>2 DEF CallsOK, PartOK
<1>6. \A i \in 1 .. L : fs[i].item < c
  <2>1. CurrentOf(fs, rt) = c /\ c # NULL
    BY <1>2, <1>5 DEF CurrentOf
  <2> QED BY <1>1, <2>1, CurrentAbove
<1> HIDE DEF L, c
<1>7. /\ HeapOK(d) /\ d.live = g.live \cup {n} /\ d.child = g.child
      /\ d.next = [g.next EXCEPT ![c] = n] /\ d.prev = [g.prev EXCEPT ![n] = c]
      /\ d.value = g.value /\ d.cap = g.cap
  <2>1. c \in e.live /\ n \in e.live /\ d = suffix_object(e, c, n)
    BY <1>5 DEF c, L
  <2> DEFINE b == suffix_object(e, c, n)
  <2>2. /\ HeapOK(b) /\ b.live = e.live /\ b.child = e.child
        /\ b.next = [e.next EXCEPT ![c] = n] /\ b.prev = [e.prev EXCEPT ![n] = c]
        /\ b.value = e.value /\ b.key = e.key /\ b.cap = e.cap
    BY <2>1, SuffixMembers
  <2> HIDE DEF b
  <2>3. d = b
    BY <2>1 DEF b
  <2> QED BY <2>2, <2>3 DEF SameLinks
<1>8. /\ g.next \in [Node -> Ptr] /\ g.prev \in [Node -> Ptr]
      /\ c \in Node /\ c # n
  BY <1>1, <1>2, <1>5 DEF HeapOK, HeapTypeOK
<1>9. /\ d.next[c] = n /\ d.prev[n] = c
      /\ \A m \in Node : m # c => d.next[m] = g.next[m]
      /\ \A m \in Node : m # n => d.prev[m] = g.prev[m]
      /\ d.next[n] = NULL /\ d.child[n] = NULL
  BY <1>4, <1>7, <1>8
<1>10. \A m \in g.live : \A k \in Node : Points(d, m, k) <=> Points(g, m, k) \/ (m = c /\ k = n)
  BY <1>2, <1>5, <1>7, <1>8, <1>9 DEF Points
<1>11. \A k \in Node : ~Points(d, n, k)
  BY <1>2, <1>9 DEF Points
<1>12. \A m \in g.live : ~Points(g, m, n)
  BY <1>1 DEF Forest
<1>13. Roots(es, rt) = Roots(fs, rt)
  <2>1. \A i \in 1 .. L : es[i].head = fs[i].head
    BY <1>3
  <2> QED BY <1>3, <2>1 DEF Roots, L
<1>14. Forest(d, Roots(fs, rt))
  <2> DEFINE R == Roots(fs, rt)
  <2> HIDE DEF R
  <2>1. Forest(g, R) /\ R \subseteq g.live
    BY <1>1 DEF R, Forest
  <2>2. ASSUME NEW m \in d.live, NEW k \in Node, Points(d, m, k)
        PROVE  k \in d.live /\ m < k /\ k \notin R
    <3>1. m \in g.live
      BY <1>7, <1>11, <2>2
    <3>2. CASE m = c /\ k = n
      BY <1>5, <1>7, <2>1, <3>2
    <3>3. CASE Points(g, m, k)
      BY <1>7, <2>1, <3>1, <3>3 DEF Forest
    <3> QED BY <1>10, <2>2, <3>1, <3>2, <3>3
  <2>3. ASSUME NEW m \in d.live, NEW k \in Node, d.child[m] = k, d.next[m] = k PROVE FALSE
    <3>1. m \in g.live
      BY <1>7, <1>11, <2>3 DEF Points
    <3>2. CASE m = c
      BY <1>7, <1>9, <1>12, <2>3, <3>1, <3>2 DEF Points
    <3>3. CASE m # c
      BY <1>2, <1>7, <1>9, <2>1, <2>3, <3>1, <3>3 DEF Forest
    <3> QED BY <3>2, <3>3
  <2>4. ASSUME NEW j \in d.live, NEW m \in d.live, NEW k \in Node, Points(d, j, k), Points(d, m, k)
        PROVE  j = m
    <3>1. j \in g.live /\ m \in g.live
      BY <1>7, <1>11, <2>4
    <3>2. CASE k = n
      BY <1>10, <1>12, <2>4, <3>1, <3>2
    <3>3. CASE k # n
      BY <1>10, <2>1, <2>4, <3>1, <3>3 DEF Forest
    <3> QED BY <3>2, <3>3
  <2>5. ASSUME NEW k \in d.live \ R PROVE \E m \in d.live : Points(d, m, k)
    <3>1. CASE k = n
      BY <1>5, <1>7, <1>10, <3>1
    <3>2. CASE k # n
      <4>1. PICK m \in g.live : Points(g, m, k)
        BY <1>7, <2>1, <3>2 DEF Forest
      <4> QED BY <1>2, <1>7, <1>10, <3>2, <4>1
    <3> QED BY <3>1, <3>2
  <2> QED BY <1>7, <2>1, <2>2, <2>3, <2>4, <2>5 DEF Forest, R
<1>15. HeadsDistinct(es, rt)
  <2>1. \A i \in 1 .. L : es[i].head = fs[i].head
    BY <1>3
  <2> QED BY <1>1, <1>3, <2>1 DEF HeadsDistinct, L
<1>16. FreshItem(d, n)
  BY <1>4, <1>7, <1>9 DEF FreshItem
<1>17. \A i \in 1 .. L : es[i].item = fs[i].item
  BY <1>3
<1>18. ASSUME NEW i \in 1 .. L PROVE FreshItem(d, es[i].item) /\ PartOK(d, es[i])
  <2>1. FreshItem(d, es[i].item)
    BY <1>1, <1>7, <1>17 DEF CallsOK, FreshItem, L
  <2>2. CASE i # L
    <3>1. es[i] = fs[i] /\ PartOK(g, fs[i])
      BY <1>1, <1>3, <2>2 DEF CallsOK, L
    <3>2. fs[i].current # c
      <4>1. i + 1 \in 1 .. L /\ (i + 1) - 1 = i /\ i + 1 # 1
        BY <1>2, <2>2
      <4>2. fs[i + 1].item = fs[i].current
        BY <1>1, <4>1 DEF CallsOK, L
      <4>3. fs[i + 1].item < c /\ fs[i + 1].item \in Nat /\ c \in Nat
        BY <1>2, <1>6, <1>8, <4>1
      <4> QED BY <4>2, <4>3
    <3> QED BY <1>2, <1>7, <1>9, <2>1, <3>1, <3>2 DEF PartOK
  <2>3. CASE i = L
    <3>1. fs[L].head < n /\ fs[L].head \in Nat /\ n \in Nat
      BY <1>2, <1>5
    <3>2. fs[L].head <= n
      BY <3>1
    <3> QED BY <1>3, <1>5, <1>7, <1>9, <2>1, <2>3, <3>2 DEF PartOK
  <2> QED BY <2>2, <2>3
<1>19. ASSUME NEW i \in 1 .. L PROVE es[i].item = IF i = 1 THEN rt ELSE es[i - 1].current
  BY <1>1, <1>2, <1>3, <1>17 DEF CallsOK, L
<1>20. CallsOK(d, es, rt)
  BY <1>1, <1>3, <1>17, <1>18, <1>19 DEF CallsOK, L
<1>21. Packed(d)
  BY <1>7 DEF Packed, SameLinks
<1>22. ListsOK(d, es, rt)
  <2>1. PICK f \in [Node -> Node] :
           /\ Lists(g, f)
           /\ rt # NULL => f[rt] = rt /\ g.next[rt] = NULL
           /\ \A i \in 1 .. L : fs[i].head # NULL =>
                 f[fs[i].head] = fs[i].head /\ f[fs[i].current] = fs[i].head
    BY DEF Built, ListsOK, L
  <2> DEFINE a == fs[L].head
             first == [f EXCEPT ![n] = a]
  <2>2. a \in g.live /\ a \in Node /\ a \in Roots(fs, rt) /\ a # rt /\ f[c] = a /\ f[a] = a
    BY <1>1, <1>2, <1>5, <2>1 DEF Roots, HeadsDistinct, c, L
  <2>3. /\ first \in [Node -> Node] /\ first[n] = a
        /\ \A m \in g.live : first[m] = f[m] /\ m # n
    BY <1>2, <2>1, <2>2
  <2> HIDE DEF first, a
  <2>4. ASSUME NEW m \in d.live
        PROVE  /\ first[m] \in d.live /\ first[m] <= m
               /\ \A k \in Node : d.next[m] = k => first[k] = first[m] /\ d.prev[k] = m
               /\ \A k \in Node : d.child[m] = k =>
                     /\ first[k] = k /\ d.prev[k] \in d.live
                     /\ first[d.prev[k]] = k /\ d.next[d.prev[k]] = NULL
    <3>1. CASE m = n
      <4>1. a < n /\ a \in Nat /\ n \in Nat
        BY <1>2, <2>2
      <4>2. a <= n
        BY <4>1
      <4> QED BY <1>2, <1>7, <1>9, <2>2, <2>3, <3>1, <4>2
    <3>2. CASE m \in g.live
      <4>1. first[m] \in d.live /\ first[m] <= m
        BY <1>7, <2>1, <2>3, <3>2 DEF Lists
      <4>2. ASSUME NEW k \in Node, d.next[m] = k PROVE first[k] = first[m] /\ d.prev[k] = m
        <5>1. CASE m = c
          BY <1>9, <2>2, <2>3, <3>2, <4>2, <5>1
        <5>2. CASE m # c
          <6>1. g.next[m] = k /\ k \in g.live
            BY <1>1, <1>2, <1>9, <3>2, <4>2, <5>2 DEF Forest, Points
          <6> QED BY <1>9, <2>1, <2>3, <3>2, <6>1 DEF Lists
        <5> QED BY <5>1, <5>2
      <4>3. ASSUME NEW k \in Node, d.child[m] = k
            PROVE  /\ first[k] = k /\ d.prev[k] \in d.live
                   /\ first[d.prev[k]] = k /\ d.next[d.prev[k]] = NULL
        <5>1. g.child[m] = k /\ k \in g.live /\ k \notin Roots(fs, rt)
          BY <1>1, <1>7, <3>2, <4>3 DEF Forest, Points
        <5>2. f[k] = k /\ g.prev[k] \in g.live /\ f[g.prev[k]] = k /\ g.next[g.prev[k]] = NULL
          BY <2>1, <3>2, <5>1 DEF Lists
        <5>3. k # n /\ g.prev[k] # c /\ g.prev[k] \in Node
          BY <1>2, <2>2, <2>3, <5>1, <5>2
        <5> QED BY <1>7, <1>9, <2>3, <5>1, <5>2, <5>3
      <4> QED BY <4>1, <4>2, <4>3
    <3> QED BY <1>7, <3>1, <3>2
  <2>5. Lists(d, first)
    BY <2>4 DEF Lists
  <2>6. rt # NULL => first[rt] = rt /\ d.next[rt] = NULL
    <3> SUFFICES ASSUME rt # NULL PROVE first[rt] = rt /\ d.next[rt] = NULL
      OBVIOUS
    <3>1. rt \in g.live /\ f[rt] = rt /\ g.next[rt] = NULL /\ rt # c
      BY <1>2, <2>1, <2>2
    <3> QED BY <1>2, <1>9, <2>3, <3>1
  <2>7. ASSUME NEW i \in 1 .. L, es[i].head # NULL
        PROVE  first[es[i].head] = es[i].head /\ first[es[i].current] = es[i].head
    <3>1. CASE i = L
      BY <1>3, <2>2, <2>3, <3>1 DEF a
    <3>2. CASE i # L
      <4>1. es[i] = fs[i] /\ fs[i].head \in g.live /\ fs[i].current \in g.live
        BY <1>1, <1>2, <1>3, <2>7, <3>2 DEF CallsOK, PartOK, L
      <4> QED BY <2>1, <2>3, <2>7, <4>1
    <3> QED BY <3>1, <3>2
  <2> QED BY <1>3, <2>3, <2>5, <2>6, <2>7 DEF ListsOK
<1> QED BY <1>7, <1>13, <1>14, <1>15, <1>16, <1>20, <1>21, <1>22 DEF Trees, Built

\* A stack without its last call.
LEMMA Returned ==
    ASSUME NEW fs \in Seq(Frame), fs # <<>>, NEW L, L = Len(fs), NEW es, es = SubSeq(fs, 1, L - 1)
    PROVE  /\ L \in Nat /\ L \in 1 .. L /\ L - 1 \in Nat
           /\ es \in Seq(Frame) /\ Len(es) = L - 1 /\ \A i \in 1 .. L - 1 : es[i] = fs[i]
           /\ \A i \in 1 .. L - 1 : i \in 1 .. L /\ i # L /\ (i # 1 => i - 1 \in 1 .. L - 1)
           /\ \A i \in 1 .. L : i \in 1 .. L - 1 \/ i = L
<1>1. L \in Nat \ {0}
  BY EmptySeq
<1>2. L \in Nat /\ L \in 1 .. L /\ L - 1 \in Nat /\ L - 1 \in Int
  BY <1>1
<1>3. \A i \in 1 .. L - 1 : i \in 1 .. L /\ i # L /\ (i # 1 => i - 1 \in 1 .. L - 1)
  BY <1>2
<1>4. \A i \in 1 .. L : i \in 1 .. L - 1 \/ i = L
  BY <1>2
<1>5. \A i \in 1 .. L - 1 : fs[i] \in Frame
  BY <1>3, ElementOfSeq
<1> DEFINE m == L - 1
           s == SubSeq(fs, 1, m)
<1> HIDE DEF m
<1>6. m \in Nat /\ m \in Int /\ 1 \in Int /\ \A i \in 1 .. m : fs[i] \in Frame
  BY <1>2, <1>5 DEF m
<1>7. /\ s \in Seq(Frame) /\ Len(s) = IF 1 <= m THEN m - 1 + 1 ELSE 0
      /\ \A i \in 1 .. m - 1 + 1 : s[i] = fs[1 + i - 1]
  BY <1>6, SubSeqProperties
<1>8. es = s
  BY DEF m
<1> HIDE DEF s
<1>9. Len(s) = m /\ 1 .. m - 1 + 1 = 1 .. m /\ \A i \in 1 .. m : 1 + i - 1 = i
  BY <1>6, <1>7
<1>10. \A i \in 1 .. m : s[i] = fs[i]
  BY <1>7, <1>9
<1> QED BY <1>2, <1>3, <1>4, <1>7, <1>8, <1>9, <1>10 DEF m

\* The heap when a list is complete: its parent t gets the type and the list from a
\* to c, and a the pointer to the last item.
Closed(g, t, kind, a, c) ==
    [(IF a = NULL THEN g ELSE [g EXCEPT !.prev[a] = c]) EXCEPT !.type[t] = kind, !.child[t] = a]

\* The members of that heap.
LEMMA ClosedMembers ==
    ASSUME NEW g, HeapOK(g), NEW t, FreshItem(g, t), NEW kind \in ItemTypes, NEW a \in Ptr, NEW c \in Ptr
    PROVE  LET d == Closed(g, t, kind, a, c)
           IN  /\ HeapOK(d) /\ d.live = g.live /\ d.next = g.next /\ d.value = g.value
               /\ d.child = [g.child EXCEPT ![t] = a]
               /\ d.prev = IF a = NULL THEN g.prev ELSE [g.prev EXCEPT ![a] = c]
               /\ d.cap = g.cap
<1> DEFINE b == IF a = NULL THEN g ELSE [g EXCEPT !.prev[a] = c]
           d == [b EXCEPT !.type[t] = kind, !.child[t] = a]
<1>1. HeapTypeOK(g) /\ DOMAIN g = HeapFields /\ t \in g.live /\ t \in Node /\ g.value[t] = NULL
  BY DEF HeapOK, HeapTypeOK, FreshItem
<1>2. /\ DOMAIN b = HeapFields /\ b.live = g.live /\ b.type = g.type /\ b.value = g.value /\ b.key = g.key
      /\ b.const = g.const /\ b.ref = g.ref /\ b.child = g.child /\ b.next = g.next
      /\ b.strs = g.strs /\ b.mem = g.mem /\ b.cap = g.cap /\ b.fault = g.fault
  BY <1>1 DEF HeapFields
<1>3. b.prev = IF a = NULL THEN g.prev ELSE [g.prev EXCEPT ![a] = c]
  BY <1>1 DEF HeapFields
<1> HIDE DEF b
<1>4. /\ DOMAIN d = HeapFields /\ d.live = b.live /\ d.value = b.value /\ d.key = b.key
      /\ d.const = b.const /\ d.ref = b.ref /\ d.next = b.next /\ d.prev = b.prev
      /\ d.strs = b.strs /\ d.mem = b.mem /\ d.cap = b.cap /\ d.fault = b.fault
  BY <1>2 DEF HeapFields
<1>5. d.type = [b.type EXCEPT ![t] = kind] /\ d.child = [b.child EXCEPT ![t] = a]
  BY <1>2 DEF HeapFields
<1> HIDE DEF d
<1>6. d.prev \in [Node -> Ptr]
  <2>1. a # NULL => a \in Node
    BY DEF Ptr
  <2>2. g.prev \in [Node -> Ptr]
    BY <1>1 DEF HeapTypeOK
  <2> QED BY <1>3, <1>4, <2>1, <2>2
<1>7. d.type \in [Node -> ItemTypes \cup {NULL}] /\ d.child \in [Node -> Ptr]
  BY <1>1, <1>2, <1>5 DEF HeapTypeOK
<1>8. HeapTypeOK(d)
  BY <1>1, <1>2, <1>4, <1>6, <1>7 DEF HeapTypeOK
<1>9. Blanks(d)
  <2>1. g.child \in [Node -> Ptr] /\ Blanks(g)
    BY <1>1 DEF HeapTypeOK, HeapOK
  <2>2. \A m \in Node : m # t => d.child[m] = g.child[m]
    BY <1>1, <1>2, <1>5, <2>1
  <2>3. ASSUME NEW m \in Node \ d.live
        PROVE  d.child[m] = NULL /\ d.next[m] = NULL /\ d.value[m] = NULL /\ d.key[m] = NULL
    <3>1. m # t /\ m \in Node \ g.live /\ d.child[m] = g.child[m]
      BY <1>1, <1>2, <1>4, <2>2
    <3>2. g.child[m] = NULL /\ g.next[m] = NULL /\ g.value[m] = NULL /\ g.key[m] = NULL
      BY <2>1, <3>1 DEF Blanks
    <3> QED BY <1>2, <1>4, <3>1, <3>2
  <2> QED BY <2>3 DEF Blanks
<1>10. Accounts(d)
  <2>1. Texts(d) = Texts(g) /\ Names(d) = Names(g) /\ d.strs = g.strs
    BY <1>2, <1>4 DEF Texts, Names
  <2>2. ASSUME NEW m \in Node, d.value[m] # NULL PROVE d.type[m] = "String"
    <3>1. m # t /\ g.type[m] = "String"
      BY <1>1, <1>2, <1>4, <2>2 DEF HeapOK, Accounts
    <3> QED BY <1>1, <1>2, <1>5, <3>1 DEF HeapTypeOK
  <2> QED BY <2>1, <2>2 DEF HeapOK, Accounts
<1>11. HeapOK(d)
  BY <1>2, <1>4, <1>8, <1>9, <1>10 DEF HeapOK
<1> QED BY <1>2, <1>3, <1>4, <1>5, <1>11 DEF Closed, d, b

\* A call returns its list to its caller.
LEMMA CloseKeeps ==
    ASSUME NEW g, NEW fs \in Seq(Frame), fs # <<>>, NEW rt, Trees(g, fs, rt), Built(g, fs, rt),
           NEW d, NEW es, es = Return(fs), NEW f, f = fs[Len(fs)],
           d = Closed(g, f.item, f.kind, f.head, f.current)
    PROVE  es \in Seq(Frame) /\ Len(es) = Len(fs) - 1 /\ d.live = g.live /\ Trees(d, es, rt) /\ Built(d, es, rt)
<1> DEFINE L == Len(fs)
           t == fs[L].item
           a == fs[L].head
           c == fs[L].current
<1>1. HeapOK(g) /\ CallsOK(g, fs, rt) /\ Forest(g, Roots(fs, rt)) /\ HeadsDistinct(fs, rt)
  BY DEF Trees, Built
<1>2. /\ L \in Nat /\ L \in 1 .. L
      /\ \A i \in 1 .. L : i # L => i < L
      /\ \A i \in 1 .. L : i # 1 => i - 1 \in 1 .. L /\ i - 1 # L
      /\ \A i \in 1 .. L : fs[i].item \in g.live /\ fs[i].head \in g.live \cup {NULL}
      /\ rt \in g.live \cup {NULL}
      /\ g.live \subseteq Node /\ Node \subseteq Nat /\ NULL \notin Node
  BY <1>1, LinkPlaces
<1>3. FreshItem(g, t) /\ PartOK(g, fs[L]) /\ t \in g.live /\ t \in Node /\ t \in Nat /\ g.child[t] = NULL
  BY <1>1, <1>2 DEF CallsOK, FreshItem
<1>4. fs[L].kind \in ItemTypes /\ a \in Ptr /\ c \in Ptr
  <2>1. fs[L] \in Frame
    BY <1>2, ElementOfSeq
  <2>2. fs[L].kind \in {"Array", "Object"} /\ a \in Ptr /\ c \in Ptr
    BY <2>1 DEF Frame
  <2> QED BY <2>2 DEF ItemTypes
<1>5. /\ es \in Seq(Frame) /\ Len(es) = L - 1 /\ (\A i \in 1 .. L - 1 : es[i] = fs[i])
      /\ \A i \in 1 .. L - 1 : i \in 1 .. L /\ i # L /\ (i # 1 => i - 1 \in 1 .. L - 1)
      /\ \A i \in 1 .. L : i \in 1 .. L - 1 \/ i = L
  <2> HIDE DEF L
  <2>1. L = Len(fs) /\ es = SubSeq(fs, 1, L - 1)
    BY DEF L, Return
  <2> QED BY <2>1, Returned
<1> HIDE DEF L
<1>6. /\ HeapOK(d) /\ d.live = g.live /\ d.next = g.next /\ d.value = g.value
      /\ d.child = [g.child EXCEPT ![t] = a]
      /\ d.prev = IF a = NULL THEN g.prev ELSE [g.prev EXCEPT ![a] = c]
      /\ d.cap = g.cap
  <2> DEFINE k == fs[L].kind
             b == Closed(g, t, k, a, c)
  <2> HIDE DEF t, a, c, k
  <2>1. /\ HeapOK(b) /\ b.live = g.live /\ b.next = g.next /\ b.value = g.value
        /\ b.child = [g.child EXCEPT ![t] = a]
        /\ b.prev = IF a = NULL THEN g.prev ELSE [g.prev EXCEPT ![a] = c]
        /\ b.cap = g.cap
    <3>1. k \in ItemTypes /\ a \in Ptr /\ c \in Ptr /\ HeapOK(g) /\ FreshItem(g, t)
      BY <1>1, <1>3, <1>4 DEF k
    <3> QED BY <3>1, ClosedMembers
  <2>2. d = b
    BY DEF L, t, a, c, k
  <2> HIDE DEF b
  <2> QED BY <2>1, <2>2
<1>7. a # NULL => /\ a \in g.live /\ a \in Node /\ c \in g.live /\ c \in Node /\ t < a /\ g.next[c] = NULL
                  /\ a \in Roots(fs, rt)
  BY <1>2, <1>3 DEF PartOK, Roots, L
<1> HIDE DEF t, a, c
<1>8. /\ d.child[t] = a
      /\ \A m \in Node : m # t => d.child[m] = g.child[m]
      /\ \A m \in Node : m # a => d.prev[m] = g.prev[m]
      /\ a # NULL => d.prev[a] = c
  BY <1>1, <1>3, <1>6, <1>7 DEF HeapOK, HeapTypeOK
<1>9. Roots(es, rt) = Roots(fs, rt) \ {a}
  <2>1. a = fs[L].head
    BY DEF a
  <2>2. ASSUME NEW x \in Roots(es, rt) PROVE x \in Roots(fs, rt) \ {a}
    <3>1. x # NULL /\ (x = rt \/ \E i \in 1 .. L - 1 : x = fs[i].head)
      BY <1>5 DEF Roots
    <3>2. x # a
      BY <1>1, <1>2, <1>5, <2>1, <3>1 DEF HeadsDistinct, L
    <3> QED BY <1>5, <3>1, <3>2 DEF Roots, L
  <2>3. ASSUME NEW x \in Roots(fs, rt), x # a PROVE x \in Roots(es, rt)
    <3>1. x # NULL /\ (x = rt \/ \E i \in 1 .. L : x = fs[i].head)
      BY DEF Roots, L
    <3>2. x = rt \/ \E i \in 1 .. L - 1 : x = es[i].head
      BY <1>5, <2>1, <2>3, <3>1
    <3> QED BY <1>5, <3>1, <3>2 DEF Roots
  <2> QED BY <2>2, <2>3
<1>10. \A m \in g.live : \A k \in Node : Points(d, m, k) <=> Points(g, m, k) \/ (m = t /\ k = a)
  BY <1>2, <1>3, <1>6, <1>8 DEF Points
<1>11. \A m \in g.live : \A k \in Node : k = a => ~Points(g, m, k)
  BY <1>1, <1>2, <1>7 DEF Forest
<1>12. Forest(d, Roots(fs, rt) \ {a})
  <2> DEFINE R == Roots(fs, rt)
  <2> HIDE DEF R
  <2>1. Forest(g, R) /\ R \subseteq g.live
    BY <1>1 DEF R, Forest
  <2>2. ASSUME NEW m \in d.live, NEW k \in Node, Points(d, m, k)
        PROVE  k \in d.live /\ m < k /\ k \notin R \ {a}
    <3>1. CASE m = t /\ k = a
      BY <1>2, <1>6, <1>7, <3>1
    <3>2. CASE Points(g, m, k)
      BY <1>6, <2>1, <3>2 DEF Forest
    <3> QED BY <1>6, <1>10, <2>2, <3>1, <3>2
  <2>3. ASSUME NEW m \in d.live, NEW k \in Node, d.child[m] = k, d.next[m] = k PROVE FALSE
    <3>1. CASE m = t
      BY <1>3, <1>6, <1>8, <1>11, <2>3, <3>1 DEF Points
    <3>2. CASE m # t
      BY <1>2, <1>6, <1>8, <2>1, <2>3, <3>2 DEF Forest
    <3> QED BY <3>1, <3>2
  <2>4. ASSUME NEW j \in d.live, NEW m \in d.live, NEW k \in Node, Points(d, j, k), Points(d, m, k)
        PROVE  j = m
    <3>1. CASE k = a
      BY <1>6, <1>10, <1>11, <2>4, <3>1
    <3>2. CASE k # a
      BY <1>6, <1>10, <2>1, <2>4, <3>2 DEF Forest
    <3> QED BY <3>1, <3>2
  <2>5. ASSUME NEW k \in d.live \ (R \ {a}) PROVE \E m \in d.live : Points(d, m, k)
    <3>1. CASE k = a
      BY <1>2, <1>3, <1>6, <1>10, <3>1
    <3>2. CASE k # a
      <4>1. PICK m \in g.live : Points(g, m, k)
        BY <1>6, <2>1, <3>2 DEF Forest
      <4> QED BY <1>2, <1>6, <1>10, <3>2, <4>1
    <3> QED BY <3>1, <3>2
  <2> QED BY <1>6, <2>1, <2>2, <2>3, <2>4, <2>5 DEF Forest, R
<1>13. HeadsDistinct(es, rt)
  BY <1>1, <1>5 DEF HeadsDistinct, L
<1>14. ASSUME NEW i \in 1 .. L - 1 PROVE FreshItem(d, es[i].item) /\ PartOK(d, es[i])
  <2>1. es[i] = fs[i] /\ i \in 1 .. L /\ i < L
    BY <1>2, <1>5
  <2>2. fs[i].item # t
    <3>1. fs[i].item < t /\ fs[i].item \in Nat
      BY <1>1, <1>2, <2>1 DEF CallsOK, t, L
    <3> QED BY <1>3, <3>1
  <2>3. FreshItem(g, fs[i].item) /\ PartOK(g, fs[i])
    BY <1>1, <2>1 DEF CallsOK, L
  <2>4. fs[i].item \in Node /\ d.child[fs[i].item] = g.child[fs[i].item]
    BY <1>2, <1>8, <2>1, <2>2
  <2>5. FreshItem(d, fs[i].item)
    BY <1>6, <2>3, <2>4 DEF FreshItem
  <2>6. PartOK(d, fs[i])
    BY <1>6, <2>3 DEF PartOK
  <2> QED BY <2>1, <2>5, <2>6
<1>15. CallsOK(d, es, rt)
  <2>1. ASSUME NEW i \in 1 .. L - 1 PROVE es[i].item = IF i = 1 THEN rt ELSE es[i - 1].current
    BY <1>1, <1>5 DEF CallsOK, L
  <2>2. \A i, j \in 1 .. L - 1 : i < j => es[i].item < es[j].item
    BY <1>1, <1>5 DEF CallsOK, L
  <2> QED BY <1>5, <1>14, <2>1, <2>2 DEF CallsOK
<1>16. Packed(d)
  BY <1>6 DEF Built, Packed
<1>17. ListsOK(d, es, rt)
  <2>1. PICK first \in [Node -> Node] :
           /\ Lists(g, first)
           /\ rt # NULL => first[rt] = rt /\ g.next[rt] = NULL
           /\ \A i \in 1 .. L : fs[i].head # NULL =>
                 first[fs[i].head] = fs[i].head /\ first[fs[i].current] = fs[i].head
    BY DEF Built, ListsOK, L
  <2>2. a # NULL => first[a] = a /\ first[c] = a
    BY <1>2, <2>1 DEF a, c
  <2>3. ASSUME NEW m \in d.live
        PROVE  /\ first[m] \in d.live /\ first[m] <= m
               /\ \A k \in Node : d.next[m] = k => first[k] = first[m] /\ d.prev[k] = m
               /\ \A k \in Node : d.child[m] = k =>
                     /\ first[k] = k /\ d.prev[k] \in d.live
                     /\ first[d.prev[k]] = k /\ d.next[d.prev[k]] = NULL
    <3>1. m \in g.live /\ first[m] \in d.live /\ first[m] <= m
      BY <1>6, <2>1 DEF Lists
    <3>2. ASSUME NEW k \in Node, d.next[m] = k PROVE first[k] = first[m] /\ d.prev[k] = m
      <4>1. g.next[m] = k /\ k # a
        BY <1>6, <1>11, <3>1, <3>2 DEF Points
      <4> QED BY <1>8, <2>1, <3>1, <4>1 DEF Lists
    <3>3. ASSUME NEW k \in Node, d.child[m] = k
          PROVE  /\ first[k] = k /\ d.prev[k] \in d.live
                 /\ first[d.prev[k]] = k /\ d.next[d.prev[k]] = NULL
      <4>1. CASE m = t
        <5>1. k = a /\ a # NULL
          BY <1>2, <1>8, <3>3, <4>1
        <5> QED BY <1>6, <1>7, <1>8, <2>2, <5>1
      <4>2. CASE m # t
        <5>1. g.child[m] = k /\ k # a
          BY <1>2, <1>8, <1>11, <3>1, <3>3, <4>2 DEF Points
        <5>2. first[k] = k /\ g.prev[k] \in g.live /\ first[g.prev[k]] = k /\ g.next[g.prev[k]] = NULL
          BY <2>1, <3>1, <5>1 DEF Lists
        <5> QED BY <1>6, <1>8, <5>1, <5>2
      <4> QED BY <4>1, <4>2
    <3> QED BY <3>1, <3>2, <3>3
  <2>4. Lists(d, first)
    BY <2>3 DEF Lists
  <2>5. \A i \in 1 .. L - 1 : es[i].head # NULL =>
           first[es[i].head] = es[i].head /\ first[es[i].current] = es[i].head
    BY <1>5, <2>1
  <2> QED BY <1>5, <1>6, <2>1, <2>4, <2>5 DEF ListsOK
<1> QED BY <1>5, <1>6, <1>9, <1>12, <1>13, <1>15, <1>16, <1>17 DEF Trees, Built, L

\* A call that fails deletes its list.
LEMMA UnwindKeeps ==
    ASSUME NEW g, NEW fs \in Seq(Frame), fs # <<>>, NEW rt, Trees(g, fs, rt),
           NEW es, es = Return(fs), NEW f, f = fs[Len(fs)], NEW d, d = cJSON_Delete(g, f.head)
    PROVE  es \in Seq(Frame) /\ Trees(d, es, rt)
<1> DEFINE L == Len(fs)
           a == fs[L].head
<1>1. HeapOK(g) /\ Forest(g, Roots(fs, rt)) /\ HeadsDistinct(fs, rt)
  BY DEF Trees
<1>2. L \in Nat /\ L \in 1 .. L
  BY LenProperties, EmptySeq
<1>3. /\ es \in Seq(Frame) /\ Len(es) = L - 1 /\ (\A i \in 1 .. L - 1 : es[i] = fs[i])
      /\ \A i \in 1 .. L - 1 : i \in 1 .. L /\ i # L
      /\ \A i \in 1 .. L : i \in 1 .. L - 1 \/ i = L
  <2> HIDE DEF L
  <2>1. L = Len(fs) /\ es = SubSeq(fs, 1, L - 1)
    BY DEF L, Return
  <2> QED BY <2>1, Returned
<1> HIDE DEF L
<1>4. HeadsDistinct(es, rt)
  BY <1>1, <1>3 DEF HeadsDistinct, L
<1>5. Roots(es, rt) = Roots(fs, rt) \ {a}
  <2>2. ASSUME NEW x \in Roots(es, rt) PROVE x \in Roots(fs, rt) \ {a}
    <3>1. x # NULL /\ (x = rt \/ \E i \in 1 .. L - 1 : x = fs[i].head)
      BY <1>3 DEF Roots
    <3>2. x # a
      BY <1>1, <1>2, <1>3, <3>1 DEF HeadsDistinct, L
    <3> QED BY <1>3, <3>1, <3>2 DEF Roots, L
  <2>3. ASSUME NEW x \in Roots(fs, rt), x # a PROVE x \in Roots(es, rt)
    <3>1. x # NULL /\ (x = rt \/ \E i \in 1 .. L : x = fs[i].head)
      BY DEF Roots, L
    <3>2. x = rt \/ \E i \in 1 .. L - 1 : x = es[i].head
      BY <1>3, <2>3, <3>1
    <3> QED BY <1>3, <3>1, <3>2 DEF Roots
  <2> QED BY <2>2, <2>3
<1>6. d = cJSON_Delete(g, a)
  BY DEF L
<1>7. a # NULL => a \in Roots(fs, rt)
  BY <1>2 DEF Roots, L
<1> HIDE DEF a
<1>8. CASE a = NULL
  <2>1. d = g
    BY <1>6, <1>8, DeleteNull
  <2>2. Roots(es, rt) = Roots(fs, rt)
    BY <1>5, <1>8 DEF Roots
  <2> QED BY <1>1, <1>3, <1>4, <2>1, <2>2 DEF Trees
<1>9. CASE a # NULL
  <2>1. HeapOK(d) /\ Forest(d, Roots(fs, rt) \ {a})
    BY <1>1, <1>6, <1>7, <1>9, DeleteFreesTree
  <2> QED BY <1>3, <1>4, <1>5, <2>1 DEF Trees
<1> QED BY <1>8, <1>9

\* When no call is left the item itself is deleted, and nothing remains.
LEMMA DeleteRootEmpties ==
    ASSUME NEW g, NEW rt, Trees(g, <<>>, rt), NEW d, d = cJSON_Delete(g, rt)
    PROVE  Trees(d, <<>>, NULL) /\ d.live = {} /\ d.strs = 0 /\ ~d.fault
<1> DEFINE fs == <<>>
<1>1. 1 .. Len(fs) = {}
  OBVIOUS
<1> HIDE DEF fs
<1>2. Roots(fs, rt) = {rt} \ {NULL} /\ Roots(fs, NULL) = {} /\ HeadsDistinct(fs, NULL)
  BY <1>1 DEF Roots, HeadsDistinct
<1>3. HeapOK(g) /\ Forest(g, {rt} \ {NULL})
  BY <1>2 DEF Trees, fs
<1>4. HeapOK(d) /\ Forest(d, {})
  <2>1. CASE rt = NULL
    <3>1. d = g /\ {rt} \ {NULL} = {}
      BY <2>1, DeleteNull
    <3> QED BY <1>3, <3>1
  <2>2. CASE rt # NULL
    <3>1. rt \in {rt} \ {NULL} /\ ({rt} \ {NULL}) \ {rt} = {}
      BY <2>2
    <3> QED BY <1>3, <3>1, DeleteFreesTree
  <2> QED BY <2>1, <2>2
<1>5. d.live = {}
  BY <1>4, RootlessIsEmpty
<1>6. Texts(d) = {} /\ Names(d) = {}
  BY <1>5 DEF Texts, Names
<1>7. d.strs = 0 /\ ~d.fault
  BY <1>4, <1>6, FS_EmptySet DEF HeapOK, Accounts
<1> QED BY <1>2, <1>4, <1>5, <1>7 DEF Trees, fs

\* An item without a value gets a type.
LEMMA TypedItem ==
    ASSUME NEW g, HeapOK(g), NEW x, FreshItem(g, x), NEW t \in ItemTypes, NEW e, e = [g EXCEPT !.type[x] = t]
    PROVE  HeapOK(e) /\ e.live = g.live /\ SameLinks(g, e) /\ e.value = g.value /\ e.key = g.key
<1>1. HeapTypeOK(g) /\ DOMAIN g = HeapFields /\ x \in g.live /\ x \in Node /\ g.value[x] = NULL
  BY DEF HeapOK, HeapTypeOK, FreshItem
<1>2. DOMAIN e = HeapFields /\ e.live = g.live /\ e.value = g.value /\ e.key = g.key
  BY <1>1 DEF HeapFields
<1>3. SameLinks(g, e) /\ e.strs = g.strs /\ e.mem = g.mem
  BY <1>1 DEF HeapFields, SameLinks
<1>4. e.type = [g.type EXCEPT ![x] = t]
  BY <1>1 DEF HeapFields
<1>5. e.type \in [Node -> ItemTypes \cup {NULL}]
  BY <1>1, <1>4 DEF HeapTypeOK
<1>6. HeapTypeOK(e)
  BY <1>1, <1>2, <1>3, <1>5 DEF HeapTypeOK, SameLinks
<1>7. Blanks(e)
  BY <1>2, <1>3 DEF HeapOK, Blanks, SameLinks
<1>8. Accounts(e)
  <2>1. Texts(e) = Texts(g) /\ Names(e) = Names(g)
    BY <1>2 DEF Texts, Names
  <2>2. ASSUME NEW m \in Node, e.value[m] # NULL PROVE e.type[m] = "String"
    <3>1. m # x /\ g.type[m] = "String"
      BY <1>1, <1>2, <2>2 DEF HeapOK, Accounts
    <3> QED BY <1>1, <1>4, <3>1 DEF HeapTypeOK
  <2> QED BY <1>3, <2>1, <2>2 DEF HeapOK, Accounts
<1> QED BY <1>2, <1>3, <1>6, <1>7, <1>8 DEF HeapOK, SameLinks

\* The items that own strings are finitely many.
LEMMA OwnersFinite ==
    ASSUME NEW g, HeapOK(g)
    PROVE  /\ IsFiniteSet(Texts(g)) /\ Cardinality(Texts(g)) \in Nat
           /\ IsFiniteSet(Names(g)) /\ Cardinality(Names(g)) \in Nat
<1>1. IsFiniteSet(Node) /\ Texts(g) \subseteq Node /\ Names(g) \subseteq Node
  BY NodeAssumption DEF HeapOK, HeapTypeOK, Texts, Names
<1>2. IsFiniteSet(Texts(g)) /\ IsFiniteSet(Names(g))
  BY <1>1, FS_Subset
<1> QED BY <1>2, FS_CardinalityType

\* The heap after parse_string has filled in the value of item x.
StringFilled(g, x, w) == [Strdup(g) EXCEPT !.type[x] = "String", !.value[x] = w]

\* It remains a proper heap.
LEMMA StringItem ==
    ASSUME NEW g, HeapOK(g), ~NoRoom(g), NEW x, FreshItem(g, x), NEW w \in Words, NEW e
    PROVE  e = StringFilled(g, x, w) =>
               /\ HeapOK(e) /\ e.live = g.live /\ SameLinks(g, e)
               /\ \A m \in Node : m # x => e.value[m] = g.value[m]
<1>0. SUFFICES ASSUME e = StringFilled(g, x, w)
               PROVE  /\ HeapOK(e) /\ e.live = g.live /\ SameLinks(g, e)
                      /\ \A m \in Node : m # x => e.value[m] = g.value[m]
  OBVIOUS
<1> DEFINE b == Strdup(g)
<1>1. /\ HeapTypeOK(g) /\ DOMAIN g = HeapFields /\ x \in g.live /\ x \in Node /\ g.value[x] = NULL
      /\ g.strs \in Nat /\ g.mem \in Nat /\ g.mem # 0 /\ w # NULL
  BY WordsAssumption DEF HeapOK, HeapTypeOK, FreshItem, NoRoom
<1>2. DOMAIN b = HeapFields /\ b.live = g.live /\ b.value = g.value /\ b.key = g.key /\ b.type = g.type
  BY <1>1 DEF HeapFields, Strdup
<1>3. SameLinks(g, b) /\ b.strs = g.strs + 1 /\ b.mem = g.mem - 1
  BY <1>1 DEF HeapFields, SameLinks, Strdup
<1>4. e = [b EXCEPT !.type[x] = "String", !.value[x] = w]
  BY <1>0 DEF StringFilled
<1> HIDE DEF b
<1>5. DOMAIN e = HeapFields /\ e.live = g.live /\ e.key = g.key
  BY <1>2, <1>4 DEF HeapFields
<1>6. SameLinks(g, e) /\ e.strs = g.strs + 1 /\ e.mem = g.mem - 1
  BY <1>2, <1>3, <1>4 DEF HeapFields, SameLinks
<1>7. e.type = [g.type EXCEPT ![x] = "String"] /\ e.value = [g.value EXCEPT ![x] = w]
  BY <1>2, <1>4 DEF HeapFields
<1>8. g.type \in [Node -> ItemTypes \cup {NULL}] /\ g.value \in [Node -> Words \cup {NULL}]
  BY <1>1 DEF HeapTypeOK
<1>9. e.type \in [Node -> ItemTypes \cup {NULL}] /\ e.value \in [Node -> Words \cup {NULL}]
  <2>1. "String" \in ItemTypes
    BY DEF ItemTypes
  <2>2. e.type \in [Node -> ItemTypes \cup {NULL}]
    BY <1>7, <1>8, <2>1
  <2>3. e.value \in [Node -> Words \cup {NULL}]
    BY <1>7, <1>8
  <2> QED BY <2>2, <2>3
<1>10. e.strs \in Nat /\ e.mem \in Nat
  BY <1>1, <1>6
<1>11. HeapTypeOK(e)
  BY <1>1, <1>5, <1>6, <1>9, <1>10 DEF HeapTypeOK, SameLinks
<1>12. /\ e.type[x] = "String" /\ e.value[x] = w
       /\ \A m \in Node : m # x => e.value[m] = g.value[m] /\ e.type[m] = g.type[m]
  BY <1>1, <1>7, <1>8
<1>13. Blanks(e)
  <2> SUFFICES ASSUME NEW m \in Node \ e.live
               PROVE  e.child[m] = NULL /\ e.next[m] = NULL /\ e.value[m] = NULL /\ e.key[m] = NULL
    BY DEF Blanks
  <2>1. m # x /\ m \in Node \ g.live
    BY <1>1, <1>5
  <2> QED BY <1>5, <1>6, <1>12, <2>1 DEF HeapOK, Blanks, SameLinks
<1>14. Accounts(e)
  <2>1. Names(e) = Names(g)
    BY <1>5 DEF Names
  <2>2. Texts(e) = Texts(g) \cup {x} /\ x \notin Texts(g)
    <3>1. g.live \subseteq Node
      BY <1>1 DEF HeapTypeOK
    <3> QED BY <1>1, <1>5, <1>12, <3>1 DEF Texts
  <2>3. Cardinality(Texts(e)) = Cardinality(Texts(g)) + 1
    BY <2>2, OwnersFinite, FS_AddElement
  <2>4. g.strs = Cardinality(Texts(g)) + Cardinality(Names(g))
    BY DEF HeapOK, Accounts
  <2>5. e.strs = Cardinality(Texts(e)) + Cardinality(Names(e))
    BY <1>6, <2>1, <2>3, <2>4, OwnersFinite
  <2>6. \A m \in Node : e.value[m] # NULL => e.type[m] = "String"
    BY <1>12 DEF HeapOK, Accounts
  <2> QED BY <2>5, <2>6 DEF Accounts
<1> QED BY <1>5, <1>6, <1>11, <1>12, <1>13, <1>14 DEF HeapOK, SameLinks

\* The heap after parse_string has filled in the name of item x.
NameFilled(g, x, w) == [Strdup(g) EXCEPT !.type[x] = "String", !.key[x] = WordKeys[w]]

\* It remains a proper heap when the item had no name.
LEMMA NamedItem ==
    ASSUME NEW g, HeapOK(g), ~NoRoom(g), NEW x, FreshItem(g, x), g.key[x] = NULL, NEW w \in Words, NEW e
    PROVE  e = NameFilled(g, x, w) =>
               HeapOK(e) /\ e.live = g.live /\ SameLinks(g, e) /\ e.value = g.value
<1>0. SUFFICES ASSUME e = NameFilled(g, x, w)
               PROVE  HeapOK(e) /\ e.live = g.live /\ SameLinks(g, e) /\ e.value = g.value
  OBVIOUS
<1> DEFINE b == Strdup(g)
           k == WordKeys[w]
           Keys == {WordKeys[v] : v \in Words}
<1>1. /\ HeapTypeOK(g) /\ DOMAIN g = HeapFields /\ x \in g.live /\ x \in Node /\ g.value[x] = NULL
      /\ g.strs \in Nat /\ g.mem \in Nat /\ g.mem # 0
  BY DEF HeapOK, HeapTypeOK, FreshItem, NoRoom
<1>2. k # NULL /\ k \in Keys
  BY WordsAssumption
<1>3. DOMAIN b = HeapFields /\ b.live = g.live /\ b.value = g.value /\ b.key = g.key /\ b.type = g.type
  BY <1>1 DEF HeapFields, Strdup
<1>4. SameLinks(g, b) /\ b.strs = g.strs + 1 /\ b.mem = g.mem - 1
  BY <1>1 DEF HeapFields, SameLinks, Strdup
<1>5. e = [b EXCEPT !.type[x] = "String", !.key[x] = k]
  BY <1>0 DEF NameFilled
<1>6. g.type \in [Node -> ItemTypes \cup {NULL}] /\ g.key \in [Node -> Keys \cup {NULL}]
  BY <1>1 DEF HeapTypeOK
<1> HIDE DEF b, k, Keys
<1>7. DOMAIN e = HeapFields /\ e.live = g.live /\ e.value = g.value
  BY <1>3, <1>5 DEF HeapFields
<1>8. SameLinks(g, e) /\ e.strs = g.strs + 1 /\ e.mem = g.mem - 1
  BY <1>3, <1>4, <1>5 DEF HeapFields, SameLinks
<1>9. e.type = [g.type EXCEPT ![x] = "String"] /\ e.key = [g.key EXCEPT ![x] = k]
  BY <1>3, <1>5 DEF HeapFields
<1>10. e.type \in [Node -> ItemTypes \cup {NULL}] /\ e.key \in [Node -> Keys \cup {NULL}]
  <2>1. "String" \in ItemTypes
    BY DEF ItemTypes
  <2>2. e.type \in [Node -> ItemTypes \cup {NULL}]
    BY <1>6, <1>9, <2>1
  <2>3. e.key \in [Node -> Keys \cup {NULL}]
    BY <1>2, <1>6, <1>9
  <2> QED BY <2>2, <2>3
<1>11. e.strs \in Nat /\ e.mem \in Nat
  BY <1>1, <1>8
<1>12. HeapTypeOK(e)
  BY <1>1, <1>7, <1>8, <1>10, <1>11 DEF HeapTypeOK, SameLinks, Keys
<1>13. /\ e.key[x] = k /\ \A m \in Node : m # x => e.key[m] = g.key[m] /\ e.type[m] = g.type[m]
  BY <1>1, <1>6, <1>9
<1>14. Blanks(e)
  <2> SUFFICES ASSUME NEW m \in Node \ e.live
               PROVE  e.child[m] = NULL /\ e.next[m] = NULL /\ e.value[m] = NULL /\ e.key[m] = NULL
    BY DEF Blanks
  <2>1. m # x /\ m \in Node \ g.live
    BY <1>1, <1>7
  <2> QED BY <1>7, <1>8, <1>13, <2>1 DEF HeapOK, Blanks, SameLinks
<1>15. Accounts(e)
  <2>1. Texts(e) = Texts(g)
    BY <1>7 DEF Texts
  <2>2. Names(e) = Names(g) \cup {x} /\ x \notin Names(g)
    <3>1. g.live \subseteq Node
      BY <1>1 DEF HeapTypeOK
    <3> QED BY <1>1, <1>2, <1>7, <1>13, <3>1 DEF Names
  <2>3. Cardinality(Names(e)) = Cardinality(Names(g)) + 1
    BY <2>2, OwnersFinite, FS_AddElement
  <2>4. g.strs = Cardinality(Texts(g)) + Cardinality(Names(g))
    BY DEF HeapOK, Accounts
  <2>5. e.strs = Cardinality(Texts(e)) + Cardinality(Names(e))
    BY <1>8, <2>1, <2>3, <2>4, OwnersFinite
  <2>6. \A m \in Node : e.value[m] # NULL => e.type[m] = "String"
    BY <1>1, <1>7, <1>13 DEF HeapOK, Accounts
  <2> QED BY <2>5, <2>6 DEF Accounts
<1> QED BY <1>7, <1>8, <1>12, <1>14, <1>15 DEF HeapOK, SameLinks

-----------------------------------------------------------------------------
(* The invariant, action by action.                                        *)

\* The part of BoundsInv about the offset.
InText == off <= Len(text) /\ (Ended => off < Len(text))

\* The offset may move over any character but the NUL.
LEMMA Advance ==
    ASSUME ParseTypeOK, InText, Accessible, Char # "NUL", text' = text, off' = off + 1
    PROVE  InText' /\ off' \in Nat
<1>1. off \in Nat /\ Len(text) \in Nat /\ off < Len(text) /\ text[off + 1] # "NUL"
  BY LenProperties DEF ParseTypeOK, Accessible, Char
<1>2. off + 1 <= Len(text) /\ off + 1 \in Nat
  BY <1>1
<1>3. Ended => off + 1 < Len(text)
  <2>1. ASSUME Ended PROVE off + 1 # Len(text)
    BY <1>1, <2>1 DEF Ended
  <2> QED BY <1>1, <1>2, <2>1
<1> QED BY <1>2, <1>3 DEF InText, Ended

\* A step that leaves the items, the calls and the root alone.
LEMMA QuietKeeps ==
    ASSUME ParseInv, UNCHANGED <<input, h, frames, root>>, Building' => Building,
           text' \in Seq(TextChars), off' \in Nat, depth' \in Nat, pc' \in Steps, BoundsInv', PlaceInv'
    PROVE  ParseInv'
<1>1. ParseTypeOK'
  BY DEF ParseInv, ParseTypeOK
<1>2. Trees(h, frames, root)' /\ (Building => Built(h, frames, root))'
  BY DEF ParseInv
<1> QED BY <1>1, <1>2 DEF ParseInv

\* Every function gives up with everything in place.
LEMMA FailKeeps ==
    ASSUME ParseInv, Fail
    PROVE  ParseInv'
<1>1. UNCHANGED <<input, h, text, off, depth, frames, root>> /\ pc' = "fail"
  BY DEF Fail, GoTo
<1>2. text' \in Seq(TextChars) /\ off' \in Nat /\ depth' \in Nat /\ pc' \in Steps
  BY <1>1 DEF ParseInv, ParseTypeOK, Steps
<1>3. BoundsInv'
  BY <1>1 DEF ParseInv, BoundsInv, Ended, InList
<1>4. PlaceInv'
  BY <1>1 DEF PlaceInv, Building
<1>5. Building' => Building
  BY <1>1 DEF Building
<1> QED BY <1>1, <1>2, <1>3, <1>4, <1>5, QuietKeeps

\* What the invariant says of the texts and the places.
LEMMA InvFacts ==
    ASSUME ParseInv
    PROVE  /\ ParseTypeOK /\ InText /\ text \in Seq(TextChars) /\ off \in Nat /\ depth \in Nat
           /\ depth <= NestingLimit /\ frames \in Seq(Frame) /\ Len(text) \in Nat
           /\ (pc \notin {"fail", "failed"} => Len(frames) = depth)
           /\ (InList => frames # <<>>)
           /\ (pc \in {"begin", "end", "parsed", "failed", "read"} => frames = <<>>)
           /\ Trees(h, frames, root) /\ HeapOK(h)
  BY LenProperties DEF ParseInv, ParseTypeOK, BoundsInv, InText, Trees

\* The offset is at the end of what was read, and one character more is known.
LEMMA ReadCharKeeps ==
    ASSUME ParseInv, ReadChar
    PROVE  ParseInv'
<1> USE DEF ReadChar
<1>1. PICK c \in (IF Len(text) < input.len THEN input.chars ELSE {}) \cup {"NUL"} : text' = Append(text, c)
  OBVIOUS
<1>2. /\ ParseTypeOK /\ InText /\ text \in Seq(TextChars) /\ off \in Nat /\ depth \in Nat
      /\ Len(text) \in Nat
  BY InvFacts
<1>3. c \in TextChars
  <2>1. input \in Inputs /\ (c \in input.chars \/ c = "NUL")
    BY <1>1 DEF ParseInv, ParseTypeOK
  <2>2. input.chars \in {i.chars : i \in Inputs}
    BY <2>1
  <2>3. CASE c \in input.chars
    <3>1. c \in UNION {i.chars : i \in Inputs}
      BY <2>2, <2>3, Zenon
    <3> QED BY <3>1 DEF TextChars
  <2>4. CASE c = "NUL"
    BY <2>4 DEF TextChars
  <2> QED BY <2>1, <2>3, <2>4
<1>4. text' \in Seq(TextChars) /\ Len(text') = Len(text) + 1
  BY <1>1, <1>2, <1>3, AppendProperties
<1>5. off < Len(text') /\ off <= Len(text')
  BY <1>2, <1>4 DEF InText, Accessible
<1>6. BoundsInv'
  BY <1>5 DEF ParseInv, BoundsInv, Reading, InList
<1>7. PlaceInv'
  BY DEF ParseInv, PlaceInv, Building, Current, Top
<1> QED BY <1>2, <1>4, <1>6, <1>7, QuietKeeps DEF Building, ParseInv, ParseTypeOK

\* Blanks are skipped up to the NUL.
LEMMA SkipKeeps ==
    ASSUME ParseInv, buffer_skip_whitespace
    PROVE  ParseInv'
<1> USE DEF buffer_skip_whitespace
<1>1. Char # "NUL" /\ off' = off + 1 /\ Accessible /\ text' = text
  BY DEF SkipTo, Char
<1>2. /\ ParseTypeOK /\ InText /\ text \in Seq(TextChars) /\ off \in Nat /\ depth \in Nat
  BY InvFacts
<1>3. InText' /\ off' \in Nat
  BY <1>1, <1>2, Advance
<1>4. BoundsInv'
  BY <1>3 DEF ParseInv, BoundsInv, InText, InList
<1>5. PlaceInv'
  BY DEF ParseInv, PlaceInv, Building, Current, Top
<1> QED BY <1>2, <1>3, <1>4, <1>5, QuietKeeps DEF Building, ParseInv, ParseTypeOK

\* The root is the first item.
LEMMA BeginKeeps ==
    ASSUME ParseInv, Begin
    PROVE  ParseInv'
<1>1. CASE Fail
  BY <1>1, FailKeeps
<1>2. CASE ~Fail
  <2> DEFINE n == cJSON_New_Item(h).item
             e == cJSON_New_Item(h).h
  <2>1. /\ n # NULL /\ h' = e /\ root' = n /\ off' = (IF Char = "bom" THEN 1 ELSE 0) /\ pc = "begin"
        /\ pc' = "value" /\ UNCHANGED <<input, text, strict, address, depth, frames>> /\ Accessible
    BY <1>2 DEF Begin, GoTo
  <2> HIDE DEF n, e
  <2>2. /\ ParseTypeOK /\ InText /\ text \in Seq(TextChars) /\ off \in Nat /\ depth \in Nat
        /\ frames = <<>> /\ HeapOK(h) /\ Trees(h, frames, root)
    BY <2>1, InvFacts
  <2>3. h.live = {} /\ root = NULL /\ Packed(h) /\ off = 0
    BY <2>1 DEF ParseInv, PlaceInv, BoundsInv, Building, Built
  <2>4. /\ n \in Node /\ e.live = h.live \cup {n} /\ SameLinks(h, e)
        /\ e.value = h.value /\ e.key = h.key /\ HeapOK(e) /\ Packed(e)
    BY <2>1, <2>2, <2>3, NewItemIs DEF n, e
  <2>5. Trees(e, <<>>, n) /\ Built(e, <<>>, n) /\ FreshItem(e, n)
    BY <2>2, <2>3, <2>4, RootBuilt
  <2>6. InText' /\ off' \in Nat
    <3>1. CASE Char = "bom"
      <4>1. off' = off + 1 /\ Char # "NUL"
        BY <2>1, <2>3, <3>1
      <4> QED BY <2>1, <2>2, <4>1, Advance
    <3>2. CASE Char # "bom"
      BY <2>1, <2>2, <2>3, <3>2 DEF InText, Ended
    <3> QED BY <3>1, <3>2
  <2>7. BoundsInv'
    BY <2>1, <2>2, <2>6 DEF ParseInv, BoundsInv, InText, InList
  <2>8. Current' = n
    BY <2>1, <2>2 DEF Current
  <2>9. PlaceInv'
    BY <2>1, <2>5, <2>8 DEF PlaceInv, FreshItem
  <2>10. Trees(h, frames, root)' /\ Built(h, frames, root)'
    BY <2>1, <2>2, <2>5
  <2>11. ParseTypeOK'
    BY <2>1, <2>2, <2>4, <2>6 DEF ParseTypeOK, HeapOK, Steps, Ptr
  <2> QED BY <2>7, <2>9, <2>10, <2>11 DEF ParseInv
<1> QED BY <1>1, <1>2

\* The item in hand, while the parser fills it in.
LEMMA InHand ==
    ASSUME ParseInv, pc \in {"value", "name", "colon"}
    PROVE  /\ Building /\ root \in h.live /\ Trees(h, frames, root) /\ Built(h, frames, root) /\ HeapOK(h)
           /\ Current = CurrentOf(frames, root) /\ FreshItem(h, Current)
           /\ (pc = "name" => h.key[Current] = NULL) /\ Current \in Node
<1>1. Building /\ pc # "begin"
  BY DEF Building
<1>2. FreshItem(h, Current) /\ HeapOK(h)
  BY InvFacts DEF ParseInv, PlaceInv
<1>3. Current \in Node
  BY <1>2 DEF HeapOK, HeapTypeOK, FreshItem
<1> QED BY <1>1, <1>2, <1>3, InvFacts DEF ParseInv, PlaceInv, Current, CurrentOf, Top

\* The item in hand is filled in, and the offset moves behind the text of it.
LEMMA FilledKeeps ==
    ASSUME ParseInv, pc \in {"value", "name"}, Accessible, Char # "NUL", off' = off + 1,
           pc' \in {"done", "colon"}, UNCHANGED <<input, text, depth, frames, root>>, HeapOK(h'), h'.live = h.live,
           SameLinks(h, h'), \A m \in Node : m # Current => h'.value[m] = h.value[m],
           pc' = "colon" => h'.value = h.value /\ pc = "name"
    PROVE  ParseInv'
<1>1. /\ root \in h.live /\ Trees(h, frames, root) /\ Built(h, frames, root) /\ HeapOK(h)
      /\ Current = CurrentOf(frames, root) /\ FreshItem(h, Current)
  BY InHand
<1>2. /\ ParseTypeOK /\ InText /\ frames \in Seq(Frame)
  BY InvFacts
<1>3. Trees(h', frames, root) /\ Built(h', frames, root)
  BY <1>1, <1>2, FillKeeps
<1>4. InText' /\ off' \in Nat
  BY <1>2, Advance
<1>5. BoundsInv'
  <2>1. pc' = "colon" => InList
    BY DEF InList
  <2> QED BY <1>4, <2>1 DEF ParseInv, BoundsInv, InText, InList
<1>6. Current' = Current
  BY DEF Current, Top
<1>7. PlaceInv'
  <2>1. pc' = "colon" => FreshItem(h', Current)
    BY <1>1 DEF FreshItem, SameLinks
  <2> QED BY <1>1, <1>6, <2>1 DEF PlaceInv
<1>8. ParseTypeOK'
  BY <1>2, <1>4 DEF ParseTypeOK, HeapOK, Steps
<1> QED BY <1>3, <1>5, <1>7, <1>8 DEF ParseInv

\* A literal or a number is the value of the item in hand.
LEMMA LiteralKeeps ==
    ASSUME ParseInv, parse_literal
    PROVE  ParseInv'
<1>1. PICK t \in ItemTypes : h' = [h EXCEPT !.type[Current] = t]
  BY DEF parse_literal, ItemTypes
<1>2. /\ Accessible /\ Char # "NUL" /\ off' = off + 1 /\ pc' = "done" /\ pc = "value"
      /\ UNCHANGED <<input, text, depth, frames, root>>
  BY DEF parse_literal, Sees, GoTo
<1>3. HeapOK(h) /\ FreshItem(h, Current)
  BY <1>2, InHand
<1>4. HeapOK(h') /\ h'.live = h.live /\ SameLinks(h, h') /\ h'.value = h.value
  BY <1>1, <1>3, TypedItem
<1> QED BY <1>2, <1>4, FilledKeeps

\* A string is its value, and one block more is allocated.
LEMMA StringKeeps ==
    ASSUME ParseInv, parse_string
    PROVE  ParseInv'
<1>1. CASE Fail
  BY <1>1, FailKeeps
<1>2. CASE ~Fail
  <2>1. PICK w \in Words :
           /\ Sees(w) /\ ~NoRoom(h)
           /\ h' = [Strdup(h) EXCEPT !.type[Current] = "String", !.value[Current] = w]
    BY <1>2 DEF parse_string
  <2>2. /\ Accessible /\ Char # "NUL" /\ off' = off + 1 /\ pc' = "done" /\ pc = "value"
        /\ UNCHANGED <<input, text, depth, frames, root>>
    BY <1>2, <2>1 DEF parse_string, Sees, GoTo, Words
  <2>3. HeapOK(h) /\ FreshItem(h, Current)
    BY <2>2, InHand
  <2>4. /\ HeapOK(h') /\ h'.live = h.live /\ SameLinks(h, h')
        /\ \A m \in Node : m # Current => h'.value[m] = h.value[m]
    <3>1. h' = StringFilled(h, Current, w)
      BY <2>1 DEF StringFilled
    <3>2. ~NoRoom(h) /\ w \in Words
      BY <2>1
    <3> QED BY <2>3, <3>1, <3>2, StringItem
  <2> QED BY <2>2, <2>4, FilledKeeps
<1> QED BY <1>1, <1>2

\* A string is its name.
LEMMA NameKeeps ==
    ASSUME ParseInv, ParseName
    PROVE  ParseInv'
<1>1. CASE Fail
  BY <1>1, FailKeeps
<1>2. CASE ~Fail
  <2>1. /\ Char \in Words /\ ~NoRoom(h)
        /\ h' = [Strdup(h) EXCEPT !.type[Current] = "String", !.key[Current] = WordKeys[Char]]
    BY <1>2 DEF ParseName
  <2>2. /\ Accessible /\ Char # "NUL" /\ off' = off + 1 /\ pc' = "colon" /\ pc = "name"
        /\ UNCHANGED <<input, text, depth, frames, root>>
    BY <1>2, <2>1 DEF ParseName, GoTo, Words
  <2>3. HeapOK(h) /\ FreshItem(h, Current) /\ h.key[Current] = NULL
    BY <2>2, InHand
  <2>4. HeapOK(h') /\ h'.live = h.live /\ SameLinks(h, h') /\ h'.value = h.value
    <3>1. h' = NameFilled(h, Current, Char)
      BY <2>1 DEF NameFilled
    <3>2. ~NoRoom(h) /\ Char \in Words
      BY <2>1
    <3> QED BY <2>3, <3>1, <3>2, NamedItem
  <2> QED BY <2>2, <2>4, FilledKeeps
<1> QED BY <1>1, <1>2

\* A list is begun, unless it is too deep.
LEMMA OpenListKeeps ==
    ASSUME ParseInv, OpenList
    PROVE  ParseInv'
<1>1. CASE Fail
  BY <1>1, FailKeeps
<1>2. CASE ~Fail
  <2>1. PICK kind \in {"Array", "Object"} :
           /\ Accessible /\ Char # "NUL"
           /\ frames' = Append(frames, [kind |-> kind, item |-> Current, head |-> NULL, current |-> NULL])
    <3>1. PICK k \in {<<"[", "Array">>, <<"{", "Object">>} :
             /\ Sees(k[1])
             /\ frames' = Append(frames, [kind |-> k[2], item |-> Current, head |-> NULL, current |-> NULL])
      BY <1>2 DEF OpenList
    <3>2. k[2] \in {"Array", "Object"} /\ k[1] # "NUL"
      <4>1. CASE k = <<"[", "Array">>
        BY <4>1
      <4>2. CASE k = <<"{", "Object">>
        BY <4>2
      <4> QED BY <4>1, <4>2
    <3>3. Accessible /\ Char # "NUL"
      BY <3>1, <3>2 DEF Sees
    <3> QED BY <3>1, <3>2, <3>3
  <2>3. /\ pc = "value" /\ pc' = "open" /\ UNCHANGED <<input, text, h, root>>
        /\ ~TooDeep /\ depth' = depth + 1 /\ off' = off + 1
    BY <1>2 DEF OpenList, GoTo
  <2>5. /\ root \in h.live /\ Trees(h, frames, root) /\ Built(h, frames, root) /\ HeapOK(h)
        /\ Current = CurrentOf(frames, root) /\ FreshItem(h, Current)
    BY <2>3, InHand
  <2>6. /\ ParseTypeOK /\ InText /\ frames \in Seq(Frame) /\ depth \in Nat /\ Len(frames) = depth
        /\ depth <= NestingLimit
    BY <2>3, InvFacts
  <2>7. frames' \in Seq(Frame) /\ Trees(h, frames', root) /\ Built(h, frames', root)
    BY <2>1, <2>5, <2>6, OpenKeeps
  <2>8. InText' /\ off' \in Nat
    BY <2>1, <2>3, <2>6, Advance
  <2>9. Len(frames') = depth' /\ depth' \in Nat /\ depth' <= NestingLimit /\ frames' # <<>>
    <3> DEFINE f == [kind |-> kind, item |-> Current, head |-> NULL, current |-> NULL]
    <3>0. Current \in Ptr
      BY <2>5 DEF FreshItem, HeapOK, HeapTypeOK, Ptr
    <3>1. frames' = Append(frames, f) /\ f \in Frame
      BY <2>1, <3>0 DEF Frame, Ptr
    <3> HIDE DEF f
    <3>2. Len(frames') = Len(frames) + 1
      BY <2>6, <3>1, AppendProperties
    <3>3. Len(frames') = depth' /\ depth' \in Nat /\ depth' # 0
      BY <2>3, <2>6, <3>2
    <3>4. depth' <= NestingLimit
      BY <2>3, <2>6, LimitAssumption DEF TooDeep
    <3>5. Len(<<>>) = 0
      OBVIOUS
    <3> QED BY <3>3, <3>4, <3>5
  <2>10. BoundsInv'
    BY <2>3, <2>8, <2>9 DEF BoundsInv, InText
  <2>11. PlaceInv'
    BY <2>3, <2>5 DEF PlaceInv
  <2>12. ParseTypeOK'
    BY <2>3, <2>6, <2>7, <2>8, <2>9 DEF ParseTypeOK, Steps
  <2> QED BY <2>3, <2>7, <2>10, <2>11, <2>12 DEF ParseInv
<1> QED BY <1>1, <1>2

\* The text has no value here.
LEMMA NoValueKeeps ==
    ASSUME ParseInv, NoValue
    PROVE  ParseInv'
  BY FailKeeps DEF NoValue

\* The list is empty, or has an item.
LEMMA FirstItemKeeps ==
    ASSUME ParseInv, FirstItem
    PROVE  ParseInv'
<1>1. /\ pc = "open" /\ Accessible /\ pc' = (IF Char = Closer THEN "close" ELSE "item")
      /\ UNCHANGED <<input, text, h, off, depth, frames, root>>
  BY DEF FirstItem, GoTo
<1>2. /\ ParseTypeOK /\ text \in Seq(TextChars) /\ off \in Nat /\ depth \in Nat /\ InList
  BY <1>1, InvFacts DEF InList
<1>3. pc' = "close" => Char # "NUL"
  BY <1>1 DEF Closer
<1>4. BoundsInv'
  BY <1>1, <1>2, <1>3 DEF ParseInv, BoundsInv, InList, Ended, Accessible, Char
<1>5. PlaceInv'
  BY <1>1 DEF ParseInv, PlaceInv, Building
<1> QED BY <1>1, <1>2, <1>4, <1>5, QuietKeeps DEF Building, Steps

\* A colon stands behind the name.
LEMMA ColonKeeps ==
    ASSUME ParseInv, ParseColon
    PROVE  ParseInv'
<1>1. CASE Fail
  BY <1>1, FailKeeps
<1>2. CASE ~Fail
  <2>1. /\ pc = "colon" /\ Accessible /\ Char # "NUL" /\ pc' = "value" /\ off' = off + 1
        /\ UNCHANGED <<input, text, h, depth, frames, root>>
    BY <1>2 DEF ParseColon, GoTo
  <2>2. /\ ParseTypeOK /\ InText /\ text \in Seq(TextChars) /\ off \in Nat /\ depth \in Nat
    BY InvFacts
  <2>3. InText' /\ off' \in Nat
    BY <2>1, <2>2, Advance
  <2>4. BoundsInv'
    BY <2>1, <2>3 DEF ParseInv, BoundsInv, InList, InText
  <2>5. PlaceInv'
    BY <2>1 DEF ParseInv, PlaceInv, Building, Current, Top
  <2> QED BY <2>1, <2>2, <2>3, <2>4, <2>5, QuietKeeps DEF Building, Steps
<1> QED BY <1>1, <1>2

\* A comma, or the end of the list, stands behind an item.
LEMMA AfterItemKeeps ==
    ASSUME ParseInv, AfterItem
    PROVE  ParseInv'
<1> USE DEF AfterItem, GoTo
<1>1. CASE Fail
  BY <1>1, FailKeeps
<1>2. CASE Char = "," /\ off' = off + 1 /\ pc' = "item" /\ UNCHANGED <<input, text, h, depth, frames, root>>
  <2>1. /\ ParseTypeOK /\ InText /\ text \in Seq(TextChars) /\ off \in Nat /\ depth \in Nat
    BY InvFacts
  <2>2. InText' /\ off' \in Nat
    BY <1>2, <2>1, Advance
  <2>3. BoundsInv'
    BY <1>2, <2>2 DEF ParseInv, BoundsInv, InList, InText
  <2>4. PlaceInv'
    BY <1>2 DEF ParseInv, PlaceInv, Building
  <2> QED BY <1>2, <2>1, <2>2, <2>3, <2>4, QuietKeeps DEF Building, Steps
<1>3. CASE Char = Closer /\ pc' = "close" /\ UNCHANGED <<input, text, h, off, depth, frames, root>>
  <2>1. /\ ParseTypeOK /\ InText /\ text \in Seq(TextChars) /\ off \in Nat /\ depth \in Nat
    BY InvFacts
  <2>2. Char # "NUL" /\ Accessible /\ frames # <<>>
    BY <1>3 DEF Closer
  <2>3. BoundsInv'
    BY <1>3, <2>2 DEF ParseInv, BoundsInv, Ended, Accessible, Char
  <2>4. PlaceInv'
    BY <1>3 DEF ParseInv, PlaceInv, Building
  <2> QED BY <1>3, <2>1, <2>3, <2>4, QuietKeeps DEF Building, Steps
<1> QED BY <1>1, <1>2, <1>3

\* Link, for the calls.
LEMMA LinkFrames ==
    ASSUME NEW fs \in Seq(Frame), fs # <<>>, NEW n \in Node, NEW es
    PROVE  es = [fs EXCEPT ![Len(fs)].current = n, ![Len(fs)].head = IF @ = NULL THEN n ELSE @] =>
               LinkedFrames(fs, es, n)
<1> DEFINE L == Len(fs)
<1>0. SUFFICES ASSUME es = [fs EXCEPT ![L].current = n, ![L].head = IF @ = NULL THEN n ELSE @]
               PROVE  LinkedFrames(fs, es, n)
  OBVIOUS
<1>1. L \in Nat /\ L \in 1 .. L /\ L # 0
  BY EmptySeq
<1>2. fs \in [1 .. L -> Frame]
  BY LenProperties
<1> HIDE DEF L
<1> DEFINE f == fs[L]
           b == [fs EXCEPT ![L] = [f EXCEPT !.current = n]]
           e == [f EXCEPT !.current = n, !.head = IF f.head = NULL THEN n ELSE f.head]
<1>3. es = [fs EXCEPT ![L] = e]
  BY <1>0, <1>1, <1>2 DEF Frame
<1>4. f \in Frame
  BY <1>1, <1>2
<1> HIDE DEF f
<1>5. /\ e \in Frame /\ e.item = f.item /\ e.current = n
      /\ e.head = IF f.head = NULL THEN n ELSE f.head
  BY <1>4 DEF Frame, Ptr
<1> HIDE DEF e
<1>6. es \in [1 .. L -> Frame] /\ es[L] = e /\ \A i \in 1 .. L : i # L => es[i] = fs[i]
  BY <1>1, <1>2, <1>3, <1>5
<1>7. es \in Seq(Frame) /\ Len(es) = L
  BY <1>1, <1>6
<1> QED BY <1>5, <1>6, <1>7 DEF LinkedFrames, L, f

\* An item is allocated and linked.
LEMMA NextItemKeeps ==
    ASSUME ParseInv, NextItem
    PROVE  ParseInv'
<1>1. CASE Fail
  BY <1>1, FailKeeps
<1>2. CASE ~Fail
  <2> DEFINE n == cJSON_New_Item(h).item
             e == cJSON_New_Item(h).h
             L == Len(frames)
  <2>1. /\ n # NULL /\ pc = "item" /\ pc' \in {"value", "name"}
        /\ UNCHANGED <<input, text, off, depth, root>>
        /\ frames' = [frames EXCEPT ![L].current = n, ![L].head = IF @ = NULL THEN n ELSE @]
        /\ h' = IF frames[L].head = NULL THEN e ELSE suffix_object(e, frames[L].current, n)
    BY <1>2 DEF NextItem, GoTo, Link, Top
  <2>2. /\ ParseTypeOK /\ InText /\ text \in Seq(TextChars) /\ off \in Nat /\ depth \in Nat
        /\ frames \in Seq(Frame) /\ frames # <<>> /\ HeapOK(h) /\ Trees(h, frames, root) /\ Len(frames) = depth
    BY <2>1, InvFacts DEF InList
  <2>3. Built(h, frames, root) /\ root \in h.live /\ Packed(h)
    BY <2>1 DEF ParseInv, PlaceInv, Building, Built
  <2>4. /\ n \in Node /\ n \notin h.live /\ (\A m \in h.live : m < n)
        /\ e.live = h.live \cup {n} /\ SameLinks(h, e)
        /\ e.value = h.value /\ e.key = h.key /\ HeapOK(e) /\ Packed(e)
    <3> HIDE DEF n, e
    <3>1. n = cJSON_New_Item(h).item /\ e = cJSON_New_Item(h).h /\ n # NULL
      BY <2>1 DEF n, e
    <3> QED BY <2>2, <2>3, <3>1, NewItemIs
  <2>5. LinkedFrames(frames, frames', n)
    <3> HIDE DEF n, e
    <3> QED BY <2>1, <2>2, <2>4, LinkFrames
  <2>6. h' = IF frames[L].head = NULL THEN e ELSE suffix_object(e, frames[L].current, n)
    BY <2>1
  <2>7. n # NULL /\ pc' \in {"value", "name"} /\ UNCHANGED <<input, text, off, depth, root>>
    BY <2>1
  <2> HIDE DEF n, e
  <2>8. /\ Trees(h', frames', root) /\ Built(h', frames', root) /\ FreshItem(h', n)
        /\ h'.live = h.live \cup {n} /\ h'.key = h.key
    <3>1. CASE frames[L].head = NULL
      <4>1. h' = e
        BY <2>6, <3>1
      <4>2. Trees(e, frames', root) /\ Built(e, frames', root) /\ FreshItem(e, n)
        BY <2>2, <2>3, <2>4, <2>5, <3>1, FirstLinkKeeps
      <4> QED BY <2>4, <4>1, <4>2
    <3>2. CASE frames[L].head # NULL
      <4> DEFINE c == frames[L].current
                 d == suffix_object(e, c, n)
      <4>1. h' = d
        BY <2>6, <3>2
      <4>2. Trees(d, frames', root) /\ Built(d, frames', root) /\ FreshItem(d, n)
        BY <2>2, <2>3, <2>4, <2>5, <3>2, NextLinkKeeps
      <4>3. c \in e.live /\ n \in e.live
        <5>1. L \in 1 .. L /\ CallsOK(h, frames, root)
          BY <2>2, <2>3, LinkPlaces DEF Built
        <5>2. PartOK(h, frames[L])
          BY <5>1 DEF CallsOK
        <5> QED BY <2>4, <3>2, <5>2 DEF PartOK
      <4> HIDE DEF c
      <4>4. d.live = e.live /\ d.key = e.key
        BY <2>4, <4>3, SuffixMembers
      <4> HIDE DEF d
      <4> QED BY <2>4, <4>1, <4>2, <4>4
    <3> QED BY <3>1, <3>2
  <2>9. Len(frames') = Len(frames) /\ frames' \in Seq(Frame) /\ frames' # <<>> /\ frames'[L].current = n
    <3>1. Len(frames') = Len(frames) /\ frames' \in Seq(Frame) /\ frames'[L].current = n
      BY <2>5 DEF LinkedFrames
    <3>2. Len(frames) # 0 /\ Len(<<>>) = 0
      BY <2>2, EmptySeq
    <3> QED BY <3>1, <3>2
  <2>10. BoundsInv'
    BY <2>2, <2>7, <2>9 DEF ParseInv, BoundsInv, InText, Ended
  <2>11. Current' = n
    BY <2>9 DEF Current, Top
  <2>12. PlaceInv'
    <3>1. h.key[n] = NULL
      BY <2>2, <2>4 DEF HeapOK, Blanks
    <3> QED BY <2>3, <2>7, <2>8, <2>11, <3>1 DEF PlaceInv
  <2>13. ParseTypeOK'
    BY <2>2, <2>7, <2>8, <2>9 DEF ParseTypeOK, Trees, HeapOK, Steps
  <2> QED BY <2>7, <2>8, <2>10, <2>12, <2>13 DEF ParseInv
<1> QED BY <1>1, <1>2

\* A list is complete; the offset is at its bracket, which is no NUL.
LEMMA CloseListKeeps ==
    ASSUME ParseInv, CloseList
    PROVE  ParseInv'
<1> DEFINE L == Len(frames)
<1>1. /\ pc = "close" /\ pc' = "done" /\ depth' = depth - 1 /\ off' = off + 1
      /\ frames' = Return(frames) /\ UNCHANGED <<input, text, root>>
      /\ h' = Closed(h, Top.item, Top.kind, Top.head, Top.current)
  BY DEF CloseList, GoTo, CloseRing, Closed
<1>2. /\ ParseTypeOK /\ InText /\ text \in Seq(TextChars) /\ off \in Nat /\ depth \in Nat
      /\ frames \in Seq(Frame) /\ frames # <<>> /\ HeapOK(h) /\ Trees(h, frames, root) /\ L = depth
      /\ depth <= NestingLimit
  BY <1>1, InvFacts DEF InList
<1>3. Built(h, frames, root) /\ root \in h.live
  BY <1>1 DEF ParseInv, PlaceInv, Building
<1>4. /\ frames' \in Seq(Frame) /\ Len(frames') = L - 1 /\ h'.live = h.live
      /\ Trees(h', frames', root) /\ Built(h', frames', root)
  <2>1. Top = frames[Len(frames)]
    BY DEF Top
  <2> QED BY <1>1, <1>2, <1>3, <2>1, CloseKeeps
<1>5. InText' /\ off' \in Nat
  <2>1. Accessible /\ Char # "NUL"
    BY <1>1 DEF ParseInv, BoundsInv
  <2> QED BY <1>1, <1>2, <2>1, Advance
<1>6. L # 0
  BY <1>2, EmptySeq
<1> HIDE DEF L
<1>7. depth' \in Nat /\ depth' <= NestingLimit /\ Len(frames') = depth'
  BY <1>1, <1>2, <1>4, <1>6, LimitAssumption
<1>8. BoundsInv'
  BY <1>1, <1>5, <1>7 DEF BoundsInv, InText, InList
<1>9. PlaceInv'
  BY <1>1, <1>3, <1>4 DEF PlaceInv
<1>10. ParseTypeOK'
  BY <1>1, <1>2, <1>4, <1>5, <1>7 DEF ParseTypeOK, Trees, HeapOK, Steps
<1> QED BY <1>1, <1>4, <1>8, <1>9, <1>10 DEF ParseInv

\* A failed call deletes its list, and the last one everything.
LEMMA UnwindStepKeeps ==
    ASSUME ParseInv, Unwind
    PROVE  ParseInv'
<1>1. /\ ParseTypeOK /\ InText /\ text \in Seq(TextChars) /\ off \in Nat /\ depth \in Nat
      /\ frames \in Seq(Frame) /\ HeapOK(h) /\ Trees(h, frames, root) /\ depth <= NestingLimit
  BY InvFacts
<1>2. pc = "fail" /\ UNCHANGED <<input, text, off, depth>>
  BY DEF Unwind, GoTo
<1>3. CASE frames # <<>>
  <2>1. h' = cJSON_Delete(h, Top.head) /\ root' = root /\ pc' = "fail" /\ frames' = Return(frames)
    BY <1>3 DEF Unwind, GoTo
  <2>2. frames' \in Seq(Frame) /\ Trees(h', frames', root)
    <3>1. Top = frames[Len(frames)]
      BY DEF Top
    <3> QED BY <1>1, <1>3, <2>1, <3>1, UnwindKeeps
  <2>3. BoundsInv'
    BY <1>1, <1>2, <2>1 DEF BoundsInv, InText, InList, Ended
  <2>4. PlaceInv' /\ ~Building'
    BY <2>1 DEF PlaceInv, Building
  <2>5. ParseTypeOK'
    BY <1>1, <1>2, <2>1, <2>2 DEF ParseTypeOK, Trees, HeapOK, Steps
  <2> QED BY <2>1, <2>2, <2>3, <2>4, <2>5 DEF ParseInv
<1>4. CASE frames = <<>>
  <2>1. h' = cJSON_Delete(h, root) /\ root' = NULL /\ pc' = "failed" /\ frames' = frames
    BY <1>4 DEF Unwind, GoTo
  <2>2. Trees(h', <<>>, NULL) /\ h'.live = {} /\ h'.strs = 0
    BY <1>1, <1>4, <2>1, DeleteRootEmpties
  <2>3. BoundsInv'
    BY <1>1, <1>2, <1>4, <2>1 DEF BoundsInv, InText, InList, Ended
  <2>4. PlaceInv' /\ ~Building'
    BY <2>1 DEF PlaceInv, Building
  <2>5. ParseTypeOK'
    BY <1>1, <1>2, <2>1, <2>2 DEF ParseTypeOK, Trees, HeapOK, Steps, Ptr
  <2> QED BY <1>4, <2>1, <2>2, <2>3, <2>4, <2>5 DEF ParseInv
<1> QED BY <1>3, <1>4

\* The value is complete.
LEMMA CompleteKeeps ==
    ASSUME ParseInv, Complete
    PROVE  ParseInv'
<1>1. /\ pc = "done" /\ frames = <<>> /\ pc' \in {"end", "parsed"}
      /\ UNCHANGED <<input, text, h, off, depth, frames, root>>
  BY DEF Complete, GoTo
<1>2. text \in Seq(TextChars) /\ off \in Nat /\ depth \in Nat
  BY InvFacts
<1>3. BoundsInv'
  BY <1>1 DEF ParseInv, BoundsInv, InList, Ended
<1>4. PlaceInv'
  BY <1>1 DEF ParseInv, PlaceInv, Building
<1> QED BY <1>1, <1>2, <1>3, <1>4, QuietKeeps DEF Building, Steps

\* A strict parser wants the NUL behind it.
LEMMA CheckEndKeeps ==
    ASSUME ParseInv, CheckEnd
    PROVE  ParseInv'
<1>1. CASE Fail
  BY <1>1, FailKeeps
<1>2. CASE ~Fail
  <2>1. pc = "end" /\ pc' = "parsed" /\ UNCHANGED <<input, text, h, off, depth, frames, root>>
    BY <1>2 DEF CheckEnd, GoTo
  <2>2. text \in Seq(TextChars) /\ off \in Nat /\ depth \in Nat
    BY InvFacts
  <2>3. BoundsInv'
    BY <2>1 DEF ParseInv, BoundsInv, InList, Ended
  <2>4. PlaceInv'
    BY <2>1 DEF ParseInv, PlaceInv, Building
  <2> QED BY <2>1, <2>2, <2>3, <2>4, QuietKeeps DEF Building, Steps
<1> QED BY <1>1, <1>2

\* BodyParse deletes what it was given.
LEMMA BodyParseKeeps ==
    ASSUME ParseInv, BodyParse
    PROVE  ParseInv'
<1>1. /\ pc = "parsed" /\ pc' = "read" /\ h' = cJSON_Delete(h, root) /\ root' = NULL
      /\ UNCHANGED <<input, text, off, depth, frames>>
  BY DEF BodyParse
<1>2. /\ ParseTypeOK /\ InText /\ text \in Seq(TextChars) /\ off \in Nat /\ depth \in Nat
      /\ frames = <<>> /\ Trees(h, frames, root)
  BY <1>1, InvFacts
<1>3. Trees(h', <<>>, NULL) /\ h'.live = {} /\ h'.strs = 0
  BY <1>1, <1>2, DeleteRootEmpties
<1>4. BoundsInv'
  BY <1>1, <1>2 DEF ParseInv, BoundsInv, InList, Ended
<1>5. PlaceInv' /\ ~Building'
  BY <1>1 DEF PlaceInv, Building
<1>6. ParseTypeOK'
  BY <1>1, <1>2, <1>3 DEF ParseTypeOK, Trees, HeapOK, Steps, Ptr
<1> QED BY <1>1, <1>2, <1>3, <1>4, <1>5, <1>6 DEF ParseInv

\* The parser starts with an empty heap.
LEMMA ParseInitInv ==
    ASSUME ParseInit
    PROVE  ParseInv
<1>1. PICK mem \in input.mems : h = [EmptyHeap EXCEPT !.mem = mem]
  BY DEF ParseInit
<1>2. input \in Inputs /\ mem \in Nat /\ Cardinality(Node) \in Nat
  BY <1>1, InputsAssumption, NodeAssumption, FS_CardinalityType DEF ParseInit
<1>3. /\ DOMAIN h = HeapFields
      /\ h.live = {} /\ h.type = Nothing /\ h.value = Nothing /\ h.key = Nothing /\ h.const = {} /\ h.ref = {}
      /\ h.child = Nothing /\ h.next = Nothing /\ h.prev = Nothing
      /\ h.strs = 0 /\ h.mem = mem /\ h.cap = Cardinality(Node) /\ h.fault = FALSE
  BY <1>1 DEF EmptyHeap, HeapFields
<1>4. Nothing \in [Node -> {NULL}] /\ \A n \in Node : Nothing[n] = NULL
  BY DEF Nothing
<1>5. HeapTypeOK(h)
  <2> DEFINE Keys == {WordKeys[w] : w \in Words}
  <2> HIDE DEF Keys
  <2>1. /\ Nothing \in [Node -> ItemTypes \cup {NULL}] /\ Nothing \in [Node -> Words \cup {NULL}]
        /\ Nothing \in [Node -> Keys \cup {NULL}] /\ Nothing \in [Node -> Ptr]
    BY DEF Nothing, Ptr
  <2>2. /\ h.type \in [Node -> ItemTypes \cup {NULL}] /\ h.value \in [Node -> Words \cup {NULL}]
        /\ h.key \in [Node -> Keys \cup {NULL}]
        /\ h.child \in [Node -> Ptr] /\ h.next \in [Node -> Ptr] /\ h.prev \in [Node -> Ptr]
    BY <1>3, <2>1
  <2>3. h.live \in SUBSET Node /\ h.const \in SUBSET Node /\ h.ref \in SUBSET Node /\ h.fault \in BOOLEAN
    BY <1>3
  <2>4. h.strs \in Nat /\ h.mem \in Nat /\ h.cap \in Nat
    BY <1>2, <1>3
  <2> QED BY <1>3, <2>2, <2>3, <2>4 DEF HeapTypeOK, Keys
<1>6. Texts(h) = {} /\ Names(h) = {}
  BY <1>3 DEF Texts, Names
<1>7. HeapOK(h)
  BY <1>3, <1>4, <1>5, <1>6, FS_EmptySet DEF HeapOK, Blanks, Accounts
<1>8. /\ text = <<>> /\ off = 0 /\ depth = 0 /\ frames = <<>> /\ pc = "begin" /\ root = NULL
      /\ Len(text) = 0 /\ Len(frames) = 0 /\ 1 .. Len(frames) = {}
  BY DEF ParseInit
<1>9. Roots(frames, root) = {} /\ HeadsDistinct(frames, root) /\ CallsOK(h, frames, root)
  BY <1>8 DEF Roots, HeadsDistinct, CallsOK
<1>10. Forest(h, {})
  BY <1>3 DEF Forest
<1>11. Packed(h)
  BY <1>3 DEF Packed
<1>12. ListsOK(h, frames, root)
  <2> DEFINE first == [n \in Node |-> n]
  <2>1. first \in [Node -> Node] /\ Lists(h, first)
    BY <1>3 DEF Lists
  <2> HIDE DEF first
  <2> QED BY <1>8, <2>1 DEF ListsOK
<1>13. Trees(h, frames, root) /\ Built(h, frames, root)
  BY <1>7, <1>9, <1>10, <1>11, <1>12 DEF Trees, Built
<1>14. ParseTypeOK
  BY <1>2, <1>5, <1>8 DEF ParseTypeOK, Steps, Ptr
<1>15. BoundsInv
  BY <1>8, LimitAssumption DEF BoundsInv, Ended, InList
<1>16. PlaceInv
  BY <1>3, <1>8 DEF PlaceInv
<1> QED BY <1>13, <1>14, <1>15, <1>16 DEF ParseInv

\* Every step keeps the invariant.
LEMMA ParseNextInv ==
    ASSUME ParseInv, [ParseNext]_vars
    PROVE  ParseInv'
<1>1. CASE UNCHANGED vars
  BY <1>1 DEF vars, ParseInv, ParseTypeOK, BoundsInv, PlaceInv, Building, InList, Ended, Accessible, Char,
              Current, Top
<1>2. CASE ReadChar
  BY <1>2, ReadCharKeeps
<1>3. CASE buffer_skip_whitespace
  BY <1>3, SkipKeeps
<1>4. CASE Begin
  BY <1>4, BeginKeeps
<1>5. CASE parse_literal
  BY <1>5, LiteralKeeps
<1>6. CASE parse_string
  BY <1>6, StringKeeps
<1>7. CASE OpenList
  BY <1>7, OpenListKeeps
<1>8. CASE NoValue
  BY <1>8, NoValueKeeps
<1>9. CASE FirstItem
  BY <1>9, FirstItemKeeps
<1>10. CASE NextItem
  BY <1>10, NextItemKeeps
<1>11. CASE ParseName
  BY <1>11, NameKeeps
<1>12. CASE ParseColon
  BY <1>12, ColonKeeps
<1>13. CASE AfterItem
  BY <1>13, AfterItemKeeps
<1>14. CASE CloseList
  BY <1>14, CloseListKeeps
<1>15. CASE Unwind
  BY <1>15, UnwindStepKeeps
<1>16. CASE Complete
  BY <1>16, CompleteKeeps
<1>17. CASE CheckEnd
  BY <1>17, CheckEndKeeps
<1>18. CASE BodyParse
  BY <1>18, BodyParseKeeps
<1>19. CASE Over
  BY <1>1, <1>19 DEF Over
<1> QED
  BY <1>1, <1>2, <1>3, <1>4, <1>5, <1>6, <1>7, <1>8, <1>9, <1>10, <1>11, <1>12, <1>13, <1>14, <1>15,
     <1>16, <1>17, <1>18, <1>19 DEF ParseNext

\* The invariant holds in every state of the parser.
THEOREM ParseInvariant == ParseSpec => []ParseInv
<1>1. ParseInit => ParseInv
  BY ParseInitInv
<1>2. ParseInv /\ [ParseNext]_vars => ParseInv'
  BY ParseNextInv
<1> QED BY <1>1, <1>2, PTL DEF ParseSpec

\* InBounds: whatever the text, its length and the nesting limit, the parser
\* (buffer_skip_whitespace, parse_value and the functions it calls) looks at no
\* byte behind the NUL and nests no deeper than CJSON_NESTING_LIMIT.
THEOREM ParseStaysInBounds == ParseSpec => []InBounds
<1>1. ParseInv => InBounds
  BY DEF ParseInv, BoundsInv, InBounds
<1> QED BY <1>1, ParseInvariant, PTL

\* Without calls and without a root there are no items and no strings.
LEMMA NothingLeft ==
    ASSUME ParseInv
    PROVE  ParseFreesAll
<1>1. ~h.fault /\ HeapOK(h)
  BY DEF ParseInv, Trees, HeapOK
<1>2. ASSUME pc \in {"failed", "read"} PROVE h.live = {} /\ h.strs = 0
  <2>1. frames = <<>> /\ root = NULL
    BY <1>2 DEF ParseInv, BoundsInv, PlaceInv
  <2>2. Len(frames) = 0 /\ 1 .. Len(frames) = {}
    BY <2>1
  <2>3. Roots(frames, root) = {}
    BY <2>1, <2>2 DEF Roots
  <2>4. h.live = {}
    BY <1>1, <2>3, RootlessIsEmpty DEF ParseInv, Trees
  <2>5. Texts(h) = {} /\ Names(h) = {}
    BY <2>4 DEF Texts, Names
  <2> QED BY <1>1, <2>4, <2>5, FS_EmptySet DEF HeapOK, Accounts
<1> QED BY <1>1, <1>2 DEF ParseFreesAll

\* ParseFreesAll: at whichever allocation or character the parser gives up, the
\* deletions of parse_array, parse_object and cJSON_ParseWithLengthOpts free every
\* item and every string exactly once, and so does cJSON_Delete in BodyParse.
THEOREM ParseFreesEverything == ParseSpec => []ParseFreesAll
<1>1. ParseInv => ParseFreesAll
  BY NothingLeft
<1> QED BY <1>1, ParseInvariant, PTL

-----------------------------------------------------------------------------
(* The lists of the tree that is returned.                                 *)

\* s is the list from x on, to its end.
Chain(g, s, x) ==
    /\ s \in Seq(Node) /\ Len(s) # 0 /\ s[1] = x /\ Distinct(s)
    /\ \A i \in 1 .. Len(s) :
          /\ s[i] \in g.live /\ x <= s[i]
          /\ g.next[s[i]] = IF i = Len(s) THEN NULL ELSE s[i + 1]

\* An item before a list.
LEMMA ConsChain ==
    ASSUME NEW g, HeapOK(g), NEW y \in g.live, NEW z \in g.live, g.next[y] = z, y < z, NEW t, Chain(g, t, z)
    PROVE  Chain(g, <<y>> \o t, y)
<1>1. g.live \subseteq Node /\ Node \subseteq Nat /\ y \in Node /\ y \in Nat /\ z \in Nat
  BY NodeAssumption DEF HeapOK, HeapTypeOK
<1>2. t \in Seq(Node) /\ Len(t) \in Nat /\ Len(t) # 0 /\ t[1] = z /\ Distinct(t)
  BY LenProperties DEF Chain
<1> DEFINE s == <<y>> \o t
<1>4. /\ s \in Seq(Node) /\ Len(s) = 1 + Len(t)
      /\ \A i \in 1 .. 1 + Len(t) : s[i] = IF i <= 1 THEN y ELSE t[i - 1]
  BY <1>1, <1>2, InFront
<1> HIDE DEF s
<1>5. s[1] = y /\ Len(s) # 0
  BY <1>2, <1>4
<1>6. ASSUME NEW i \in 1 .. Len(s), i # 1
      PROVE  s[i] = t[i - 1] /\ i - 1 \in 1 .. Len(t) /\ (i = Len(s) <=> i - 1 = Len(t)) /\ (i - 1) + 1 = i
  BY <1>2, <1>4, <1>6
<1>7. ASSUME NEW i \in 1 .. Len(t) PROVE t[i] \in g.live /\ y < t[i] /\ t[i] # y
  <2>1. t[i] \in g.live /\ z <= t[i]
    BY DEF Chain
  <2>2. t[i] \in Nat
    BY <1>1, <2>1
  <2> QED BY <1>1, <2>1, <2>2
<1>8. ASSUME NEW i \in 1 .. Len(s)
      PROVE  s[i] \in g.live /\ y <= s[i] /\ g.next[s[i]] = IF i = Len(s) THEN NULL ELSE s[i + 1]
  <2>1. CASE i = 1
    <3>1. i # Len(s) /\ i + 1 \in 1 .. Len(s) /\ i + 1 # 1 /\ (i + 1) - 1 = 1
      BY <1>2, <1>4, <2>1
    <3>2. s[i + 1] = t[1]
      BY <1>6, <3>1
    <3> QED BY <1>1, <1>2, <1>5, <2>1, <3>1, <3>2
  <2>2. CASE i # 1
    <3> DEFINE j == i - 1
    <3>1. s[i] = t[j] /\ j \in 1 .. Len(t) /\ (i = Len(s) <=> j = Len(t)) /\ j + 1 = i
      BY <1>6, <2>2
    <3>2. g.next[t[j]] = IF j = Len(t) THEN NULL ELSE t[j + 1]
      BY <3>1 DEF Chain
    <3>3. i # Len(s) => i + 1 \in 1 .. Len(s) /\ i + 1 # 1 /\ (i + 1) - 1 = j + 1
      BY <1>2, <1>4
    <3>4. i # Len(s) => s[i + 1] = t[j + 1]
      BY <1>6, <3>3
    <3>5. t[j] \in g.live /\ y < t[j]
      BY <1>7, <3>1
    <3>6. y <= t[j]
      <4>1. t[j] \in Nat
        BY <1>1, <3>5
      <4> QED BY <1>1, <3>5, <4>1
    <3> HIDE DEF j
    <3> QED BY <3>1, <3>2, <3>4, <3>5, <3>6
  <2> QED BY <2>1, <2>2
<1>9. Distinct(s)
  <2> SUFFICES ASSUME NEW i \in 1 .. Len(s), NEW j \in 1 .. Len(s), s[i] = s[j] PROVE i = j
    BY DEF Distinct
  <2>1. CASE i = 1 /\ j # 1
    BY <1>5, <1>6, <1>7, <2>1
  <2>2. CASE i # 1 /\ j = 1
    BY <1>5, <1>6, <1>7, <2>2
  <2>3. CASE i # 1 /\ j # 1
    <3>1. i - 1 = j - 1
      BY <1>2, <1>6, <2>3 DEF Distinct
    <3>2. i \in Int /\ j \in Int
      OBVIOUS
    <3> QED BY <3>1, <3>2
  <2> QED BY <2>1, <2>2, <2>3
<1> QED BY <1>4, <1>5, <1>8, <1>9 DEF Chain, s

\* Walk follows a list to its end.
LEMMA WalkIsChain ==
    ASSUME NEW g, NEW R, HeapOK(g), Forest(g, R)
    PROVE  LET K == Cardinality(Node) + 1
           IN  Walk(g, NULL, K) = <<>> /\ \A x \in g.live : Chain(g, Walk(g, x, K), x)
<1>1. /\ g.live \subseteq Node /\ NULL \notin Node /\ Node \subseteq Nat /\ g.next \in [Node -> Ptr]
      /\ Cardinality(Node) \in Nat
  BY NodeAssumption, NullAssumption, FS_CardinalityType DEF HeapOK, HeapTypeOK
<1> DEFINE d == Cardinality(Node) + 1
<1>2. d \in Nat
  BY <1>1
<1>3. PICK f : WalkTable(g, f, d) /\ \A y : Walk(g, y, d) = f[d][y]
  BY <1>2, WalkIs
<1>4. ASSUME NEW x \in g.live PROVE x \in Node /\ x \in Nat /\ Rank(x) \in Nat /\ Rank(x) > 0 /\ Rank(x) <= d
  <2>1. x \in Node /\ x \in Nat
    BY <1>1
  <2>2. Rank(x) \in Nat /\ Rank(x) > 0 /\ Rank(x) <= Cardinality(Node) /\ Cardinality(Node) \in Nat
    BY <2>1, RankFalls
  <2> QED BY <2>1, <2>2
<1> HIDE DEF d
<1>5. \A k \in 0 .. d : f[k] = WalkRow(g, f, k)
  BY <1>3 DEF WalkTable
<1> DEFINE Good(k) == /\ f[k][NULL] = <<>>
                      /\ \A y \in g.live : Rank(y) <= k => Chain(g, f[k][y], y)
           S == {k \in Nat : k <= d => Good(k)}
<1>6. 0 \in S
  <2>1. 0 \in 0 .. d /\ f[0] = WalkRow(g, f, 0)
    BY <1>2, <1>5
  <2>2. f[0][NULL] = <<>>
    BY <2>1 DEF WalkRow
  <2>3. ASSUME NEW y \in g.live PROVE ~(Rank(y) <= 0)
    BY <1>4
  <2> QED BY <2>2, <2>3
<1>7. ASSUME NEW k \in Nat, k \in S PROVE k + 1 \in S
  <2> SUFFICES ASSUME k + 1 <= d PROVE Good(k + 1)
    OBVIOUS
  <2>1. k + 1 \in 0 .. d /\ k + 1 # 0 /\ (k + 1) - 1 = k /\ k <= d
    BY <1>2
  <2>2. f[k + 1] = WalkRow(g, f, k + 1)
    BY <1>5, <2>1
  <2>3. f[k + 1][NULL] = <<>>
    BY <2>2 DEF WalkRow
  <2>4. Good(k)
    BY <1>7, <2>1
  <2>5. ASSUME NEW y \in g.live, Rank(y) <= k + 1 PROVE Chain(g, f[k + 1][y], y)
    <3> DEFINE z == g.next[y]
               t == f[k][z]
    <3>1. f[k + 1][y] = <<y>> \o t
      BY <1>1, <2>1, <2>2 DEF WalkRow
    <3>2. CASE z = NULL
      <4>1. t = <<>>
        BY <2>4, <3>2
      <4>2. f[k + 1][y] = <<y>>
        BY <3>1, <4>1
      <4> DEFINE s == <<y>>
      <4>3. s \in Seq(Node) /\ Len(s) = 1 /\ s[1] = y /\ y \in Nat
        BY <1>4
      <4> HIDE DEF s
      <4>4. Chain(g, s, y)
        BY <3>2, <4>3 DEF Chain, Distinct
      <4> QED BY <4>2, <4>4 DEF s
    <3>3. CASE z # NULL
      <4>1. z \in Node /\ z \in g.live /\ y < z
        BY <1>1, <3>3 DEF Ptr, Forest, Points
      <4>2. Rank(z) < Rank(y) /\ Rank(z) \in Nat /\ Rank(y) \in Nat
        BY <1>1, <4>1, RankFalls
      <4>3. Rank(z) <= k
        BY <2>5, <4>2
      <4>4. Chain(g, t, z)
        BY <2>4, <4>1, <4>3
      <4> HIDE DEF t
      <4> QED BY <3>1, <4>1, <4>4, ConsChain
    <3> QED BY <3>2, <3>3
  <2> QED BY <2>3, <2>5
<1>8. Nat \subseteq S
  <2> HIDE DEF S
  <2> QED BY <1>6, <1>7, NatSteps
<1>9. Good(d)
  <2>1. d \in S
    BY <1>2, <1>8
  <2> QED BY <1>2, <2>1
<1> QED BY <1>3, <1>4, <1>9 DEF d

\* The tree of g hangs below rt, and first names the head of each item's list.
Tree(g, rt, first) ==
    /\ HeapOK(g) /\ Forest(g, {rt}) /\ first \in [Node -> Node] /\ Lists(g, first)
    /\ rt \in g.live /\ first[rt] = rt /\ g.next[rt] = NULL

\* What the provers need of it.
LEMMA TreeFacts ==
    ASSUME NEW g, NEW rt, NEW first, Tree(g, rt, first)
    PROVE  /\ g.live \subseteq Node /\ Node \subseteq Nat /\ NULL \notin Node /\ rt \in Node
           /\ \A p \in g.live : g.child[p] \in Ptr /\ g.next[p] \in Ptr
           /\ \A p \in g.live : \A c \in Node : g.child[p] = c =>
                 /\ c \in g.live /\ p < c /\ c # rt /\ first[c] = c
                 /\ g.prev[c] \in g.live /\ first[g.prev[c]] = c /\ g.next[g.prev[c]] = NULL
           /\ \A m \in g.live : \A n \in Node : g.next[m] = n =>
                 /\ n \in g.live /\ m < n /\ n # rt
                 /\ first[n] = first[m] /\ g.prev[n] = m
           /\ \A n \in g.live : n # rt => \E m \in g.live : g.child[m] = n \/ g.next[m] = n
           /\ \A p, q \in g.live : \A c \in Node : g.child[p] = c /\ g.child[q] = c => p = q
<1>1. g.live \subseteq Node /\ Node \subseteq Nat /\ NULL \notin Node /\ rt \in Node
  BY NodeAssumption, NullAssumption DEF Tree, HeapOK, HeapTypeOK
<1>2. \A p \in g.live : g.child[p] \in Ptr /\ g.next[p] \in Ptr
  BY <1>1 DEF Tree, HeapOK, HeapTypeOK
<1>3. \A m \in g.live : \A n \in Node : Points(g, m, n) => n \in g.live /\ m < n /\ n # rt
  BY DEF Tree, Forest
<1>4. \A n \in g.live : n # rt => \E m \in g.live : Points(g, m, n)
  BY DEF Tree, Forest
<1>5. \A p, q \in g.live : \A n \in Node : Points(g, p, n) /\ Points(g, q, n) => p = q
  BY DEF Tree, Forest
<1>6. Lists(g, first)
  BY DEF Tree
<1>7. \A p \in g.live : \A c \in Node : g.child[p] = c =>
         /\ c \in g.live /\ p < c /\ c # rt /\ first[c] = c
         /\ g.prev[c] \in g.live /\ first[g.prev[c]] = c /\ g.next[g.prev[c]] = NULL
  BY <1>3, <1>6 DEF Points, Lists
<1>8. \A m \in g.live : \A n \in Node : g.next[m] = n =>
         n \in g.live /\ m < n /\ n # rt /\ first[n] = first[m] /\ g.prev[n] = m
  BY <1>3, <1>6 DEF Points, Lists
<1>9. \A n \in g.live : n # rt => \E m \in g.live : g.child[m] = n \/ g.next[m] = n
  BY <1>4 DEF Points
<1>10. \A p, q \in g.live : \A c \in Node : g.child[p] = c /\ g.child[q] = c => p = q
  BY <1>5 DEF Points
<1> QED BY <1>1, <1>2, <1>7, <1>8, <1>9, <1>10

\* Every list but the root's hangs below an item.
LEMMA ListHasParent ==
    ASSUME NEW g, NEW rt, NEW first, Tree(g, rt, first), NEW n \in g.live, n # rt
    PROVE  \E p \in g.live : g.child[p] = first[n]
<1> DEFINE Bad == {m \in g.live : m # rt /\ ~\E p \in g.live : g.child[p] = first[m]}
<1> SUFFICES ASSUME n \in Bad PROVE FALSE
  OBVIOUS
<1>1. g.live \subseteq Nat /\ g.live \subseteq Node
  BY TreeFacts
<1>2. PICK z \in Bad : \A m \in Bad : z <= m
  <2>1. Bad \subseteq Nat /\ Bad # {}
    BY <1>1
  <2> HIDE DEF Bad
  <2> QED BY <2>1, NatMinimum
<1>3. z \in g.live /\ z \in Node /\ z # rt /\ ~\E p \in g.live : g.child[p] = first[z]
  BY <1>1, <1>2
<1>4. PICK m \in g.live : g.child[m] = z \/ g.next[m] = z
  BY <1>3, TreeFacts
<1>5. g.child[m] # z
  BY <1>3, <1>4, TreeFacts
<1>6. g.next[m] = z /\ first[z] = first[m] /\ m < z
  BY <1>3, <1>4, <1>5, TreeFacts
<1>7. m # rt
  BY <1>3, <1>6, TreeFacts DEF Tree
<1>8. m \in Bad
  BY <1>3, <1>6, <1>7
<1>9. z <= m /\ z \in Nat /\ m \in Nat
  BY <1>1, <1>2, <1>3, <1>8
<1> QED BY <1>6, <1>9

\* A list holds the items whose head is its first item: these,
LEMMA ChainHas ==
    ASSUME NEW g, NEW rt, NEW first, Tree(g, rt, first), NEW c \in g.live, c # rt, first[c] = c,
           NEW s, Chain(g, s, c), NEW n \in g.live, first[n] = c
    PROVE  \E i \in 1 .. Len(s) : s[i] = n
<1> DEFINE Bad == {m \in g.live : first[m] = c /\ ~\E i \in 1 .. Len(s) : s[i] = m}
<1> SUFFICES ASSUME n \in Bad PROVE FALSE
  OBVIOUS
<1>1. g.live \subseteq Nat /\ g.live \subseteq Node
  BY TreeFacts
<1>2. PICK z \in Bad : \A m \in Bad : z <= m
  <2>1. Bad \subseteq Nat /\ Bad # {}
    BY <1>1
  <2> HIDE DEF Bad
  <2> QED BY <2>1, NatMinimum
<1>3. z \in g.live /\ z \in Node /\ first[z] = c /\ ~\E i \in 1 .. Len(s) : s[i] = z
  BY <1>1, <1>2
<1>4. Len(s) \in Nat /\ 1 \in 1 .. Len(s) /\ s[1] = c
  BY LenProperties DEF Chain
<1>5. z # c /\ z # rt
  BY <1>3, <1>4 DEF Tree
<1>6. PICK m \in g.live : g.child[m] = z \/ g.next[m] = z
  BY <1>3, <1>5, TreeFacts
<1>7. g.child[m] # z
  BY <1>3, <1>5, <1>6, TreeFacts
<1>8. g.next[m] = z /\ first[m] = c /\ m < z
  BY <1>3, <1>6, <1>7, TreeFacts
<1>9. m \notin Bad
  <2>1. z \in Nat /\ m \in Nat
    BY <1>1, <1>3
  <2>2. ~(z <= m)
    BY <1>8, <2>1
  <2> QED BY <1>2, <2>2
<1>10. PICK i \in 1 .. Len(s) : s[i] = m
  BY <1>8, <1>9
<1>11. g.next[s[i]] = IF i = Len(s) THEN NULL ELSE s[i + 1]
  BY DEF Chain
<1>12. z # NULL
  BY <1>3, TreeFacts
<1>13. i # Len(s) /\ s[i + 1] = z
  BY <1>8, <1>10, <1>11, <1>12
<1>14. i + 1 \in 1 .. Len(s)
  BY <1>4, <1>13
<1> QED BY <1>3, <1>13, <1>14

\* and no others.
LEMMA ChainOnly ==
    ASSUME NEW g, NEW rt, NEW first, Tree(g, rt, first), NEW c \in g.live, first[c] = c,
           NEW s, Chain(g, s, c), NEW k \in 1 .. Len(s)
    PROVE  first[s[k]] = c
<1> DEFINE Bad == {i \in 1 .. Len(s) : first[s[i]] # c}
<1> SUFFICES ASSUME k \in Bad PROVE FALSE
  OBVIOUS
<1>1. Len(s) \in Nat /\ s[1] = c
  BY LenProperties DEF Chain
<1>2. PICK i \in Bad : \A j \in Bad : i <= j
  <2>1. Bad \subseteq Nat /\ Bad # {}
    BY <1>1
  <2> HIDE DEF Bad
  <2> QED BY <2>1, NatMinimum
<1>3. i \in 1 .. Len(s) /\ first[s[i]] # c /\ i # 1
  BY <1>1, <1>2
<1> DEFINE j == i - 1
<1>4. j \in 1 .. Len(s) /\ j # Len(s) /\ j + 1 = i /\ ~(i <= j)
  BY <1>1, <1>3
<1> HIDE DEF j
<1>5. j \notin Bad
  BY <1>2, <1>4
<1>6. first[s[j]] = c
  BY <1>4, <1>5
<1>7. g.next[s[j]] = s[i] /\ s[j] \in g.live /\ s[i] \in g.live
  BY <1>3, <1>4 DEF Chain
<1>8. s[i] \in Node
  BY <1>7, TreeFacts
<1>9. first[s[i]] = first[s[j]]
  BY <1>7, <1>8, TreeFacts
<1> QED BY <1>3, <1>6, <1>9

\* So the pointers of a list are those of a proper cJSON list.
LEMMA ChainRepresents ==
    ASSUME NEW g, NEW rt, NEW first, Tree(g, rt, first), NEW p \in g.live, NEW c \in Node, g.child[p] = c,
           NEW s, Chain(g, s, c)
    PROVE  Represents(g, p, s)
<1>1. /\ c \in g.live /\ c # rt /\ first[c] = c
      /\ g.prev[c] \in g.live /\ first[g.prev[c]] = c /\ g.next[g.prev[c]] = NULL
  BY TreeFacts
<1>2. Len(s) \in Nat /\ Len(s) # 0 /\ 1 \in 1 .. Len(s) /\ Len(s) \in 1 .. Len(s) /\ s[1] = c
  BY LenProperties DEF Chain
<1>3. s # <<>>
  <2>1. Len(<<>>) = 0
    OBVIOUS
  <2> QED BY <1>2, <2>1
<1>4. \A i, j \in 1 .. Len(s) : s[i] = s[j] => i = j
  BY DEF Chain, Distinct
<1>5. \A i \in 1 .. Len(s) : s[i] \in g.live /\ g.next[s[i]] = IF i = Len(s) THEN NULL ELSE s[i + 1]
  BY DEF Chain
<1>6. \A i \in 1 .. Len(s) : s[i] \in Node /\ s[i] # NULL
  BY <1>5, TreeFacts
<1>7. g.prev[c] = s[Len(s)]
  <2>1. PICK i \in 1 .. Len(s) : s[i] = g.prev[c]
    BY <1>1, ChainHas
  <2>2. g.next[s[i]] = NULL
    BY <1>1, <2>1
  <2>3. i # Len(s) => i + 1 \in 1 .. Len(s)
    BY <1>2
  <2> QED BY <1>5, <1>6, <2>1, <2>2, <2>3
<1>8. ASSUME NEW i \in 1 .. Len(s), i # 1 PROVE g.prev[s[i]] = s[i - 1]
  <2> DEFINE j == i - 1
  <2>1. j \in 1 .. Len(s) /\ j # Len(s) /\ j + 1 = i
    BY <1>2, <1>8
  <2> HIDE DEF j
  <2>2. s[j] \in g.live /\ g.next[s[j]] = s[i]
    BY <1>5, <2>1
  <2>3. g.prev[s[i]] = s[j]
    BY <1>6, <2>2, TreeFacts
  <2> QED BY <2>3 DEF j
<1>9. ASSUME NEW i \in 1 .. Len(s) PROVE g.prev[s[i]] = IF i = 1 THEN s[Len(s)] ELSE s[i - 1]
  BY <1>2, <1>7, <1>8
<1> QED BY <1>2, <1>3, <1>4, <1>5, <1>9 DEF Represents

\* Each item but the root is in the list of exactly one item.
LEMMA OneParent ==
    ASSUME NEW g, NEW rt, NEW first, Tree(g, rt, first), NEW kids,
           \A p \in g.live : g.child[p] = NULL => kids[p] = <<>>,
           \A p \in g.live : \A c \in Node : g.child[p] = c => Chain(g, kids[p], c),
           NEW n \in g.live, n # rt
    PROVE  Cardinality({p \in g.live : \E i \in 1 .. Len(kids[p]) : kids[p][i] = n}) = 1
<1>1. PICK p \in g.live : g.child[p] = first[n]
  BY ListHasParent
<1> DEFINE c == first[n]
<1>2. c \in Node /\ g.child[p] = c
  <2>1. n \in Node
    BY TreeFacts
  <2> QED BY <1>1, <2>1 DEF Tree
<1>3. c \in g.live /\ c # rt /\ first[c] = c
  BY <1>1, <1>2, TreeFacts
<1>4. \E i \in 1 .. Len(kids[p]) : kids[p][i] = n
  <2> HIDE DEF c
  <2>1. first[n] = c
    BY DEF c
  <2>2. Chain(g, kids[p], c)
    BY <1>2
  <2> QED BY <1>3, <2>1, <2>2, ChainHas
<1>5. ASSUME NEW q \in g.live, NEW i \in 1 .. Len(kids[q]), kids[q][i] = n PROVE q = p
  <2> DEFINE b == g.child[q]
  <2>1. b # NULL
    <3> SUFFICES ASSUME b = NULL PROVE FALSE
      OBVIOUS
    <3>1. kids[q] = <<>>
      OBVIOUS
    <3>2. Len(<<>>) = 0 /\ 1 .. 0 = {}
      OBVIOUS
    <3> QED BY <3>1, <3>2
  <2>2. b \in Node
    <3>1. b \in Ptr
      BY TreeFacts
    <3> QED BY <2>1, <3>1 DEF Ptr
  <2>3. Chain(g, kids[q], b) /\ b \in g.live /\ first[b] = b
    BY <2>2, TreeFacts
  <2>4. first[n] = b
    <3> HIDE DEF b
    <3>1. first[kids[q][i]] = b
      BY <2>3, ChainOnly
    <3> QED BY <1>5, <3>1
  <2> QED BY <1>2, <2>2, <2>4, TreeFacts
<1>6. {q \in g.live : \E i \in 1 .. Len(kids[q]) : kids[q][i] = n} = {p}
  BY <1>4, <1>5
<1> QED BY <1>6, FS_Singleton

\* What is returned is a tree of proper lists.
LEMMA ParsedTree ==
    ASSUME ParseInv
    PROVE  ParsedWellFormed
<1> SUFFICES ASSUME pc = "parsed" PROVE ParsedWellFormed
  BY DEF ParsedWellFormed
<1>1. frames = <<>> /\ root \in h.live /\ Trees(h, frames, root) /\ Built(h, frames, root)
  BY DEF ParseInv, BoundsInv, PlaceInv, Building
<1>2. Len(frames) = 0 /\ 1 .. Len(frames) = {} /\ root # NULL
  <2>1. h.live \subseteq Node
    BY <1>1 DEF Trees, HeapOK, HeapTypeOK
  <2> QED BY <1>1, <2>1, NullAssumption
<1>3. Roots(frames, root) = {root}
  BY <1>2 DEF Roots
<1>4. PICK first \in [Node -> Node] : Tree(h, root, first)
  <2>1. PICK first \in [Node -> Node] : Lists(h, first) /\ first[root] = root /\ h.next[root] = NULL
    BY <1>1, <1>2 DEF Built, ListsOK
  <2>2. HeapOK(h) /\ Forest(h, {root})
    BY <1>1, <1>3 DEF Trees
  <2> QED BY <1>1, <2>1, <2>2 DEF Tree
<1> DEFINE K == Cardinality(Node) + 1
           kids == [p \in h.live |-> Walk(h, h.child[p], K)]
<1>5. Walk(h, NULL, K) = <<>> /\ \A x \in h.live : Chain(h, Walk(h, x, K), x)
  BY <1>4, WalkIsChain DEF Tree
<1>6. \A p \in h.live : kids[p] = Kids(p) /\ kids[p] = Walk(h, h.child[p], K)
  BY DEF Kids
<1> HIDE DEF K, kids
<1>7. \A p \in h.live : h.child[p] = NULL => kids[p] = <<>>
  BY <1>5, <1>6
<1>8. ASSUME NEW p \in h.live, NEW c \in Node, h.child[p] = c PROVE Chain(h, kids[p], c)
  <2>1. c \in h.live
    BY <1>4, <1>8, TreeFacts
  <2> QED BY <1>5, <1>6, <1>8, <2>1
<1>9. ASSUME NEW p \in h.live PROVE Represents(h, p, Kids(p))
  <2>1. CASE h.child[p] = NULL
    <3>1. Kids(p) = <<>>
      BY <1>6, <1>7, <2>1
    <3>2. Len(<<>>) = 0 /\ 1 .. 0 = {}
      OBVIOUS
    <3>3. Represents(h, p, <<>>)
      BY <2>1, <3>2 DEF Represents
    <3> QED BY <3>1, <3>3
  <2>2. CASE h.child[p] # NULL
    <3> DEFINE c == h.child[p]
    <3>1. c \in Node
      <4>1. c \in Ptr
        BY <1>4, TreeFacts
      <4> QED BY <2>2, <4>1 DEF Ptr
    <3>2. Chain(h, kids[p], c)
      BY <1>8, <3>1
    <3>3. Represents(h, p, kids[p])
      BY <1>4, <3>1, <3>2, ChainRepresents
    <3> QED BY <1>6, <3>3
  <2> QED BY <2>1, <2>2
<1>10. ASSUME NEW n \in h.live \ {root}
       PROVE  Cardinality({p \in h.live : \E i \in 1 .. Len(Kids(p)) : Kids(p)[i] = n}) = 1
  <2>1. Cardinality({p \in h.live : \E i \in 1 .. Len(kids[p]) : kids[p][i] = n}) = 1
    BY <1>4, <1>7, <1>8, OneParent
  <2>2. {p \in h.live : \E i \in 1 .. Len(kids[p]) : kids[p][i] = n}
        = {p \in h.live : \E i \in 1 .. Len(Kids(p)) : Kids(p)[i] = n}
    BY <1>6
  <2> QED BY <2>1, <2>2
<1> QED BY <1>9, <1>10 DEF ParsedWellFormed

\* ParsedWellFormed: what cJSON_ParseWithOpts returns is a tree that holds every
\* allocated item, made of lists whose first prev is the last item, as the list
\* functions of cJSON expect them.
THEOREM ParsedIsWellFormed == ParseSpec => []ParsedWellFormed
<1>1. ParseInv => ParsedWellFormed
  BY ParsedTree
<1> QED BY <1>1, ParseInvariant, PTL
=============================================================================
