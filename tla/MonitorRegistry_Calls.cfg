SPECIFICATION FairSpec
CONSTANTS
    Target = {t1, t2}
    MaxTargets = 1
    MaxCalls = 3
    MaxStarts = 1
INVARIANTS WatchesArePersisted EveryTargetHasItsLoop
PROPERTIES NoLateSample SupersededLoopsEnd
CHECK_DEADLOCK FALSE
