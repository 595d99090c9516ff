CONSTANTS
    a = a
    b = b
    i = i
    j = j
    s1 = s1
    s2 = s2
    None = None
    Sender <- TwoSequences
    Command <- ThreeCommands
    Ignored <- OneIgnored
    HoldsBusy = FALSE
    MayFail = TRUE
SPECIFICATION Spec
PROPERTIES
    CommandHeldUntilBusy
CHECK_DEADLOCK FALSE
