SPECIFICATION FairSpec
CONSTANTS
    Uri = {"a", "b"}
    Text = {"good", "broken"}
    Broken = {"broken"}
    Settings = {"off", "default"}
    Default = "default"
    Off = "off"
    None = None
    MaxMessages = 4
    MaxFailures = 1
INVARIANTS
    TypeOK
    QuickFixFits
    ShownIsBuffer
    FixesAreShown
    HealthyMeansLinted
PROPERTIES
    QuietEventually
CHECK_DEADLOCK FALSE
