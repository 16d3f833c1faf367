SPECIFICATION Spec
CONSTANTS
    x1 = x1  x2 = x2  x3 = x3
    Results = {x1, x2}
    FileOf <- RestartedFiles
    NoResult = NoResult
    MaxEnds = 0
INVARIANTS
    LatestResultKept
