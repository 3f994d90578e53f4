SPECIFICATION FairSpec
CONSTANTS
    SkipHistory = TRUE
    Torn = TRUE
    MaxLines = 3
    MaxFiles = 3
    MaxTruncates = 1
INVARIANTS
    InOrderOnce
    NoLineUnaccounted
PROPERTY
    ReadInTheEnd
