SPECIFICATION FairSpec
CONSTANT MaxEvents = 3
INVARIANTS
    SettledOnce
    Answered
    OneVerdict
    DoneKeepsConversation
PROPERTY ReturnsOnCtxDone
CHECK_DEADLOCK FALSE
