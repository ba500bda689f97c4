SPECIFICATION MCSpec
CONSTANTS
    p1 = p1  p2 = p2  p3 = p3
    Pipelines = {p1, p2, p3}
    NoPipeline = NoPipeline
    Last = 2
    MaxStarts <- MCStarts
    Executors = {e1}  Threads = {t1}  Works = {w1}
    Timers = {m1, m2}  Endpoints = {d1, d2}  Sockets = {s1}
    None = None
    UsedTogether <- MCUsedTogether
    LateStarts = FALSE  MayFail = FALSE
    MaxTasks = 2  MaxAcquires = 2  MaxWorks = 2
    MaxStartsOfTimers = 2  MaxOpens = 1  MaxSends = 2
\* the pipelines have run as often as they may
CHECK_DEADLOCK FALSE
INVARIANTS
    CompletesOnce IdleIsClean
    CalledBackWhenQuiet RunsInOrder HandlesMatchTimers
PROPERTIES
    InOrder Completes
    ShutdownEnds TasksRun
