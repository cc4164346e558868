SPECIFICATION RegisterSpec
CONSTANTS
    Applications = {"P", "R"}
    Submissions <- Commands
    MaxTime = 1
    None = None
INVARIANTS
    AnswersAreFinal
    OneWinnerPerKey
    CheckpointCovered
PROPERTY ImplementsLog
