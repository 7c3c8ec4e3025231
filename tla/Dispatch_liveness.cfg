SPECIFICATION BenchSpec
CONSTANTS
    Subjects = {"dispatch", "sparse", "lane"}
    Runs = {1, 2}
    Executable = {1, 2}
    CommandCapacity = 1
    MaxConcurrent = 1
    PageSize = 1
    Calls = {c1, c2}
    MaxParallel = 1
PROPERTIES
    WaiterIsServed
    RunsAreDispatched
CHECK_DEADLOCK FALSE
