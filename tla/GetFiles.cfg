SPECIFICATION Spec
CONSTANTS
    Choice = {good, bad, Zero, Request, Exit}
    Valid = {good}
    Request = Request
    Stop = Stop
    Exit = Exit
    Zero = Zero
    Padding = 2
    MaxTyped = 4
    MaxChat = 2
INVARIANTS TypeOK VerdictIsComing DialIsGranted
PROPERTIES DepartedEnds ChoiceIsJudged
CHECK_DEADLOCK FALSE
