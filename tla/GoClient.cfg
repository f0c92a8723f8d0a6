\* Two attempts, of which any may fail or be answered late, and two requests.
CONSTANTS
    MaxRetries = 2
    MaxRequests = 2
SPECIFICATION FairSpec
INVARIANTS SomebodyReads CallbacksHaveOwners
PROPERTIES LoopsEnd
CHECK_DEADLOCK FALSE
