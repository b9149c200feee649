----------------------------- MODULE MCCJsonList ----------------------------
(* The programs for model checking CJsonList.                              *)
EXTENDS CJsonList

\* Calls that can create an array: at least one item, and the first
\* allocation succeeds.
GoodCalls == {<<1, 2>>, <<2, 1>>, <<2, 2>>, <<2, 9>>}

OneKey == {<<"a", "lower">>}

\* Two spellings of one word.
TwoKeys == {<<"a", "lower">>, <<"a", "upper">>}

\* All that can be done to arrays.
ArrayProgram ==
    [items |-> 4, kinds |-> {"Array", "Number"}, keys |-> {}, mems |-> {9},
     calls |-> GoodCalls, held |-> 6, uses |-> {"array", "remove", "copy"}]

\* Objects with owned and constant keys, and memory that runs out.
ObjectProgram ==
    [items |-> 3, kinds |-> {"Object", "String"}, keys |-> OneKey, mems |-> {1, 2, 9},
     calls |-> GoodCalls, held |-> 6, uses |-> {"object", "new", "remove", "copy"}]

\* Larger objects, to copy.
CopyProgram ==
    [items |-> 6, kinds |-> {"Object", "Number"}, keys |-> TwoKeys, mems |-> {9},
     calls |-> {}, held |-> 2, uses |-> {"new", "copy"}]

\* References to items and lists, and memory that runs out.
ReferenceProgram ==
    [items |-> 3, kinds |-> {"Array", "String"}, keys |-> OneKey, mems |-> {1, 2, 9},
     calls |-> {}, held |-> 6, uses |-> {"array", "remove", "reference", "copy"}]

AllPrograms == {ArrayProgram, ObjectProgram, CopyProgram, ReferenceProgram}
=============================================================================
