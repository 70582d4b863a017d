CONSTANTS
    home = home
    other = other
    Pages = {home, other}
    NoPage = NoPage
    MaxToolRounds = 2
    ContextTokens = 20
    Margin = 1
    MinCompletion = 3
    ImageTokens = 2
    OldText = 1
    Tools <- MCTools
    MaxSteps = 5
    Histories <- MCHistories
    Density = 1
    Scripts <- MCScripts
    MaxTurns = 1
SPECIFICATION FairSpec
CHECK_DEADLOCK FALSE
INVARIANTS PromptsAreWhole PageIsKept SentFits OneHand
PROPERTIES StopEndsTheTurn
