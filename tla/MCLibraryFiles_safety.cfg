SPECIFICATION Spec
CONSTANTS
    a = a b = b root = root rock = rock pop = pop punk = punk n1 = n1 n2 = n2 none = none c1 = c1 c2 = c2
    Songs = {a, b}
    Folders = {root, rock, pop}
    Root = root
    Names = {n1, n2}
    None = none
    Clients = {c1, c2}
    Alike <- Exactly
    MaxRequests = 2
    MaxLives = 2
SYMMETRY Symmetry
CHECK_DEADLOCK FALSE
INVARIANTS
    TypeOK
    RowsBacked
    
    
