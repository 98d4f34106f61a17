SPECIFICATION Spec
CONSTANTS
    NumThreads = 2
    BK = 4
    CS = 2
    GS = 2
    BlockSize = 2
    F = 7
    F2 = 23
    G = 6
    Kernel = {"fp8_cofda", "fp8_cofda_decoupled", "fp8_gdfs", "mxfp4_gdfs", "mxfp4_cofda", "nvfp4_gdfs", "nvfp4_cofda"}
    Rows <- MCRows
INVARIANTS
    MMATypeOK
    TilesCurrent
    NaNReachesOutput
    OutputIsDocumented
