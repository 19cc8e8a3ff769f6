CONSTANTS
    Schema <- Conf
    Paths = {1, 2, 3}
    Documents <- SomeDocuments
    Broken = Broken
    Invalid = Invalid
    None = None
    MaxEdits = 1
    Contents <- SomeContents
    Starts <- SomeStarts
    Options <- SomeOptions
    Directories = {"directory"}
    ServerNames = {"x", "y", "z"}
    PlainRequests <- SomeRequests
SPECIFICATION Spec
INVARIANTS
    ConfiguredAsDocumented
    ListensAsConfigured
    CertificateShown
    RedirectedByName
