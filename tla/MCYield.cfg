CONSTANTS
    p = p
    a = a
    Offsets = {0}
    Cells <- MCCells
    LayerRect <- MCLayerRect
    Published <- Landscape
SPECIFICATION HomeYieldSpec
INVARIANT PostedPicture
