SPECIFICATION Spec
CONSTANTS
    Word <- Words
    Song <- Songs
    Program <- Programs
    Nothing = Nothing
    NoArt = "none"
    Fallback = "logo"
    MaxChanges = 2
    MaxFailures = 1
INVARIANT TagOfOneSong
