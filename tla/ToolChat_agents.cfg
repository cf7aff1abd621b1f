SPECIFICATION ChatSpec
CONSTANTS
    GeminiCalls <- GeminiDef
    OtherCalls <- OtherDef
    UserForms = {"string", "image"}
    MaxAnswers = 2
INVARIANTS
    CallsReturned
    ResponsesNamed
    AnswersAccepted
CHECK_DEADLOCK FALSE
