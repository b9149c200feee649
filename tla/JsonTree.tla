------------------------------ MODULE JsonTree ------------------------------
(***************************************************************************)
(* What the editing functions of cJSON promise: items form a forest, each  *)
(* with a sequence of children, and a call appends, inserts, removes or    *)
(* replaces one child, makes new items, or destroys whole subtrees.        *)
(*                                                                         *)
(* Each kind of call is a relation between the forest before it, f, and    *)
(* the forest after it, g; a forest is a function from the items that      *)
(* exist to their sequences of children.                                   *)
(***************************************************************************)
EXTENDS Naturals, Sequences, FiniteSets, SequencesExt

CONSTANTS Node

VARIABLE kids   \* the forest

Descendants(f, n) ==
    LET below[k \in 0 .. Cardinality(DOMAIN f)] ==
            IF k = 0 THEN {n}
            ELSE below[k - 1] \cup UNION {Range(f[m]) : m \in below[k - 1]}
    IN  below[Cardinality(DOMAIN f)]

\* The items that are nobody's children.
Free(f) == DOMAIN f \ UNION {Range(f[p]) : p \in DOMAIN f}

Without(f, gone) == [n \in DOMAIN f \ gone |-> f[n]]

-----------------------------------------------------------------------------
\* New items come to exist, with children among themselves; the others keep
\* their children.
CreateItems(f, g) ==
    LET new == DOMAIN g \ DOMAIN f
    IN  /\ DOMAIN f \subseteq DOMAIN g
        /\ \A n \in DOMAIN f : g[n] = f[n]
        /\ \A n \in new : g[n] \in Seq(new) /\ IsInjective(g[n])
        /\ \A m, n \in new : m # n => Range(g[m]) \cap Range(g[n]) = {}

\* A free item, or a new one without children, becomes a child of p, in front
\* of its i-th child or behind the last.
AttachChild(f, g, p) ==
    \E n \in (Node \ DOMAIN f) \cup Free(f), i \in 1 .. Len(f[p]) + 1 :
        g = [m \in DOMAIN f \cup {n} |-> IF m = p THEN InsertAt(f[p], i, n)
                                         ELSE IF m \in DOMAIN f THEN f[m] ELSE <<>>]

\* The i-th child is taken out and is free from now on.
DetachChild(f, g, p) ==
    \E i \in 1 .. Len(f[p]) : g = [f EXCEPT ![p] = RemoveAt(f[p], i)]

\* The i-th child is taken out and destroyed, with its descendants.
RemoveChild(f, g, p) ==
    \E i \in 1 .. Len(f[p]) :
        g = Without([f EXCEPT ![p] = RemoveAt(f[p], i)], Descendants(f, f[p][i]))

\* A free item takes the place of the i-th child, which is destroyed.
ReplaceChild(f, g, p) ==
    \E i \in 1 .. Len(f[p]), n \in Free(f) :
        g = Without([f EXCEPT ![p] = [f[p] EXCEPT ![i] = n]], Descendants(f, f[p][i]))

Destroy(f, g) == \E n \in Free(f) : g = Without(f, Descendants(f, n))

TreeInit == kids = [n \in {} |-> <<>>]

TreeNext ==
    \E f \in {kids}, g \in {kids'} :
        \/ CreateItems(f, g)
        \/ Destroy(f, g)
        \/ \E p \in DOMAIN f :
              AttachChild(f, g, p) \/ DetachChild(f, g, p) \/ RemoveChild(f, g, p)
                  \/ ReplaceChild(f, g, p)

TreeSpec == TreeInit /\ [][TreeNext]_kids
=============================================================================
