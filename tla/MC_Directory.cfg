CONSTANTS
    layers <- MC_layers
    Frames <- MC_Frames
    Bases = {0, 2}

SPECIFICATION Spec

INVARIANT TypeOK
INVARIANT InterpAuxInv
INVARIANT WalkMatchesResolve
