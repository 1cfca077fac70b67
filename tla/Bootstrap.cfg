CONSTANTS
    foo = foo  p1 = p1  p2 = p2
    Proc = {p1, p2}
    Name = {foo, "ca"}
    Jobs <- MCJobs
    MaxRun = 3  MaxLoose = 1
    MaxTrouble = 2
CHECK_DEADLOCK FALSE
SPECIFICATION FairDirSpec
INVARIANT Exclusive
PROPERTIES ExistingFilesLeftAlone SuccessMeansUsable WaitersEnd
