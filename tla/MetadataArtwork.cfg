SPECIFICATION FairSpec
CONSTANTS
    Word <- Words
    Song <- Songs
    Program <- PlainPrograms
    Nothing = Nothing
    NoArt = "none"
    Fallback = "logo"
    MaxChanges = 2
    MaxFailures = 1
PROPERTY ArtworkCurrent
