SPECIFICATION FairSpec
CONSTANT Graphs <- SmallGraphs
INVARIANTS
    NoUseAfterDelete
    ExecutedOnce
    CountersAreExact
    FinishesComplete
    DeadnessIsDataflow
PROPERTY
    StepEnds
