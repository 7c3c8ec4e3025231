SPECIFICATION BenchSafe
CONSTANTS
    Subjects = {"dispatch", "lane"}
    Runs = {1, 2, 3}
    Executable = {1, 2, 3}
    CommandCapacity = 1
    MaxConcurrent = 1
    PageSize = 2
    Calls = {c1, c2, c3}
    MaxParallel = 2
SYMMETRY CallSymmetry
INVARIANTS
    ActiveMatchesWork
    QueuesBounded
    LaneIsSound
CHECK_DEADLOCK FALSE
