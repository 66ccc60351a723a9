SPECIFICATION Spec
CONSTANTS
    MaxWindows = 3
    Titles = {a, b, c}
    Rects <- MCRects
    Xs = {1, 3}
    Ys = {1, 6}
    TitleBar = 2
    Word = 8
SYMMETRY MCSymmetry
INVARIANTS
    IndicesSound
    DragsByOwnGrip
PROPERTIES
    ImplementsStack
