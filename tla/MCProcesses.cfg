CONSTANTS
    MaxStarts = 3
    Runs = 2
    MaxKills = 1
    SIZE_ARR_CLIENTS = 2
    MaxClients = 2
    MaxRequests = 1
    MaxLines = 2
    MaxTyped = 3
    MaxFailures = 2
SPECIFICATION Spec
INVARIANTS InTurn HangsOnlyByDrop AtMostOneSwallowed LostOnlyByRemoval PrintsWholeText
           ClientsCannotEndIt FrameOutlivesThreads RunsWhatWasTyped
PROPERTIES EndsTogether AnsweredUnlessBlocked
