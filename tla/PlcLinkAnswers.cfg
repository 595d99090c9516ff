CONSTANTS
    a = a
    b = b
    i = i
    j = j
    s1 = s1
    s2 = s2
    None = None
    Sender <- OneSequence
    Command <- FourCommands
    Ignored <- TwoIgnored
    HoldsBusy = TRUE
    MayFail = FALSE
SPECIFICATION LiveDeviceSpec
PROPERTIES
    CommandHeldUntilBusy
    AnswersArrive
CHECK_DEADLOCK FALSE
