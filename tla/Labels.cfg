SPECIFICATION LabelsFairSpec
CONSTANTS
    Word <- Words
    Song <- Songs
    Program <- Programs
    Nothing = Nothing
    NoArt = "none"
    Fallback = "logo"
    MaxChanges = 2
    MaxFailures = 1
    Base = 3
    LengthMod = 64
    Header = 2
    Description = 2
    TextLengths = {0, 2, 26}
    AacLengths = {1, 55, 56, 57}
    Stamps <- LabelsStamps
    Requests = {"logo", "artwork"}
    Creator = "creator"
    Listing <- LabelsListing
    MaxAge = 2
    Patience = 1
    MaxVersion = 3
    MaxTime = 5
INVARIANTS
    LabelsTypeOK
    UpdatesInOrder
    FramesFound
    FieldsTrue
    LineupTrue
PROPERTIES
    Settles
