CONSTANTS
    c1 = c1
    c2 = c2
    w1 = w1
    w2 = w2
    t1 = t1
    Questions = {w1, t1}
    Conns = {c1}
    Asker <- MCAsker
    NoJob = NoJob
    Cap = 3
    Window = 2
    Retries = 1
    MaxTroubles = 2
SPECIFICATION Spec
CHECK_DEADLOCK FALSE
INVARIANTS QuestionsStand CopiesAgree EndedIsAnswered
