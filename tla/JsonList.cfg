SPECIFICATION ListSpec
CONSTANTS
    Node = {1, 2, 3, 4, 5, 6}
    NULL = NULL
    Values = {1}
    Programs <- AllPrograms
INVARIANTS ListsWellFormed HeapSound CopiesEqual
PROPERTY ImplementsTree
CHECK_DEADLOCK FALSE
