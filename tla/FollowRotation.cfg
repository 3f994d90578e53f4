SPECIFICATION FairSpec
CONSTANTS
    SkipHistory = TRUE
    Torn = FALSE
    MaxLines = 3
    MaxFiles = 2
    MaxTruncates = 0
PROPERTY SurvivesRotation
