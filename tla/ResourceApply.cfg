SPECIFICATION FairSpec
CONSTANTS
    Rows <- MCRows
    Focus <- MCFocus
    Value = {1, 2}
    MaxFailures = 2
    Gap <- MCGap
    Orphans <- MCOrphans
    Stuck <- MCStuck
INVARIANTS TypeOK NoDiffMeansApplied 
PROPERTIES SuccessApplies RetriesConverge
