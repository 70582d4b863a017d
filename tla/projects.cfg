CONSTANTS
    p1 = p1
    t1 = t1
    Ids = {p1}
    Tasks = {t1}
    NoProject = NoProject
    NoTask = NoTask
    NoJob = NoJob
    Offered <- MCOffered
    DefaultSelector <- MCWeekdayMorning
    Instants <- MCInstants
    Combined <- MCCombined
    RunsCap = 1
    MaxEdits = 2
    MaxManual = 1
    MaxMishaps = 1
SPECIFICATION FairSpec
CHECK_DEADLOCK FALSE
INVARIANTS EditsSurvive OncePerOccurrence
PROPERTIES RecordsStand NeverStaysDue QueueDrains
