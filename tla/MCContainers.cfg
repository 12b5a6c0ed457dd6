CONSTANTS
    Node = {1, 2, 3, 4, 5, 6, 7, 8, 9, 10}
    AvlNode = {1, 2, 3, 4, 5, 6, 7, 8}
    PrioNode = {n1, n2, n3, n4, n5, n6}
    Alike = {n3, n4, n5, n6}
    Prio = {1, 2, 3}
    ListHead = {h1, h2}
    Entry = {e1, e2, e3}
SPECIFICATION Spec
SYMMETRY Symmetry
INVARIANTS RedBlackRules BalanceRules TreesAreSearched HeapRules ListsAreSequences
PROPERTY ImplementsNodeSet
