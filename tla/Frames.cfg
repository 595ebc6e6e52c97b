SPECIFICATION FramesSpec
CONSTANTS
    Parts = 4
    TextEnd = 3
    ColonAt = 2
    MaxFrames = 4
    MaxTyped = 4
INVARIANTS QuietIsShown
PROPERTIES AnswerComes
CHECK_DEADLOCK FALSE
