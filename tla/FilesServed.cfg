SPECIFICATION Spec
CONSTANTS
    None = None
    OutOfBounds = OutOfBounds
    Precompressed <- MCPrecompressed
    Files <- MCFiles
    Sizes = {0, 3}
    AtStart <- MCAtStart
    StartSize = 3
    MaxVersions = 4
    BufferSize = 2
    Word = 16
    Accepts <- MCAccepts
    Ranges <- MCRanges
INVARIANTS LengthKept ExactBytes NotModifiedIsFresh CopyConsistent
PROPERTIES PreferredEncoding
