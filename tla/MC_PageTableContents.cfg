CONSTANTS
    layers <- MC_layers
    VAddrs = {0, 1, 2, 3, 4, 5}
    Frames <- MC_Frames

SPECIFICATION Spec

INVARIANT TypeOK
INVARIANT InvHolds
