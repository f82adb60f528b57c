SPECIFICATION FairSpec
CONSTANTS
    Rooms = {q1}
    Runs = {r1, r2}
    Nil = Nil
CONSTRAINT PromptUpsert
INVARIANTS
    PipelineInv ResolvingHasRun
PROPERTIES
    OwnRoomIsTold
CHECK_DEADLOCK FALSE
