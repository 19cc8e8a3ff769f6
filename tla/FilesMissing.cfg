SPECIFICATION Spec
CONSTANTS
    None = None
    OutOfBounds = OutOfBounds
    Precompressed <- MCPrecompressed
    Files <- MCFiles
    Sizes = {3}
    AtStart <- MCAtStart
    StartSize = 3
    MaxVersions = 4
    BufferSize = 2
    Word = 16
    Accepts <- MCAccepts
    Ranges <- MCRanges
INVARIANT MissingPageShown
