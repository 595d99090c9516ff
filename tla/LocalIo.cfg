CONSTANTS
    Candidate <- MCCandidate
    Sizes <- MCSizes
    SignalId = {"busy", "auto", "result_valid", "error", "x", "y", "z", "w"}
    LastAddress = 5
    NotifyWords = 2
    MaxCommand = 512
SPECIFICATION Spec
INVARIANTS
    AreasApart
    TriggerIsSent
    SuggestionFits
PROPERTIES
    PliKeepsOutputs
    RefusedChangesNothing
CHECK_DEADLOCK FALSE
