\* Up to seven keys in leaves of four on two levels, or up to six in leaves of
\* one on three: splits and merges of leaves and of internal nodes.
SPECIFICATION Spec
CONSTANTS
    v1 = v1
    v2 = v2
    big1 = big1
    big2 = big2
    Keys = {1, 2, 3, 4, 5, 6, 7}
    Vals <- Values
    KLen <- KeyBytes
    VLen <- ValBytes
    Loads <- WideOrTall
    MaxPages = 16
VIEW TreeView
INVARIANTS
    IteratesTwoLevels
    
    NoLeak
    SearchOrder

    
