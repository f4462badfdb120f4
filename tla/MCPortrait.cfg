CONSTANTS
    p = p
    a = a
    Offsets = {0, 1}
    Cells <- MCCells
    LayerRect <- MCLayerRect
    Published <- Portrait
SPECIFICATION ListSpec
INVARIANTS LayerCoherent MirrorHonest PostedPicture
