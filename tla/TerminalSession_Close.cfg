SPECIFICATION FairSpec
CONSTANTS
    Job = {j1, j2}
    MaxOutput = 1
    MaxWrites = 2
    Chunks = 1
CHECK_DEADLOCK FALSE
INVARIANTS EndIsComplete NothingSurvivesClose InputInOrder ReaderSignalsItsOwn
PROPERTIES EndIsNoticed 
