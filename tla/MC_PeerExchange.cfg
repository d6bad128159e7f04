CONSTANTS
    n1 = n1
    n2 = n2
    n3 = n3
    NoNode = NoNode
    Node <- MCNode
    Searchers <- MCSearchers
    Limit = 2
SPECIFICATION Spec
INVARIANT NoSelfRecord
INVARIANT FindableNodesAnswer
PROPERTY SearchEndsWhileRead
