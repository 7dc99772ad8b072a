SPECIFICATION Spec
CONSTANTS
    t1 = t1
    t2 = t2
    Targets = {t1, t2}
    Browser = Browser
    NoCommand = NoCommand
    OtherMethod = "__other__"
    MethodLimit = 2
    MaxWire = 1
    Speaking = {t2}
    Commands <- MCCommands
INVARIANT
    BlockedBeforeExposed
    AnswersReachTheirSender
    SummaryExact
PROPERTIES
    ConnectionSettles
