CONSTANTS
    a = a
    b = b
    i = i
    j = j
    s1 = s1
    s2 = s2
    None = None
    Sender <- TwoSequences
    Command <- TwoCommands
    Ignored <- OneIgnored
    HoldsBusy = FALSE
    MayFail = TRUE
SPECIFICATION Spec
INVARIANTS
    AnswerIsOwn
    TakenBeforeTriggerOff
    TriggerIsAwaited
PROPERTIES
    SendReturns
    ImplementsExchange
CHECK_DEADLOCK FALSE
