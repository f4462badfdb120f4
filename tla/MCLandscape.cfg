CONSTANTS
    p = p
    a = a
    Offsets = {0}
    Cells <- MCCells
    LayerRect <- MCLayerRect
    Published <- Landscape
SPECIFICATION Spec
INVARIANTS TypeOK BaseCoherent PostedPicture
PROPERTY WholeFrames
