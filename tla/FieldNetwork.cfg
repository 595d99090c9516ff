CONSTANTS
    a = a
    b = b
    i = i
    Command = {a, i}
    Ignored = {i}
    None = None
    MayAnswer <- MCMayAnswer
    Callers = 2
    MaxFlight = 2
SPECIFICATION Spec
INVARIANTS
    AnswerIsOwn
    TriggerIsAwaited
PROPERTIES
    SendReturns
    ImplementsExchange
CHECK_DEADLOCK FALSE
