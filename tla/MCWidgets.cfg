SPECIFICATION WidgetSpec
CONSTANTS
    Addresses = {r, a, b, c}
    Root = r
    Null = null
    Screen <- MCScreen
    Kinds <- MCKinds
    Points <- MCPoints
    Uint32 = 3
SYMMETRY MCSymmetry
INVARIANTS
    LinksSound
    BoundsAbsolute
    EventsInside
PROPERTIES
    ImplementsTree
