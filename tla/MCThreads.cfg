CONSTANTS
    NumOfProducers = 3
    FileSizes = {8, 10}
    PageSize = 4
    Word = {1, 2, 3}
    MaxLines = 4
    MaxThreads = 3
    MaxFailures = 1
    Numbers = {2, 4, 12}
    Rounds = 3
    Threads = 2
    MaxItems = 2
    Capacity = 3
SPECIFICATION Spec
INVARIANTS CountedOnce TotalIsComplete
           NoOverlap NothingLost WritesSorted
           PrintsSum EachPrintedOnce OnlyCreateFailureEnds OnlyOwnSideRaces
PROPERTIES HistogramEnds SortEnds TenEnds
