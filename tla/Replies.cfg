\* Replies of four or five events with two calls, one of which needs rewriting
\* of its arguments; a round of searches and the round behind it, each with two
\* calls, and one search more than the request allows; translated messages of
\* two blocks; two rounds of the execution bridge with one search; three tool
\* outputs to be cut.
SPECIFICATION Spec
CONSTANTS
    Flavours = {"tags", "plain", "native", "tools", "ends"}
    MaxEvents <- EventBounds
    ToolIds = {1, 2}
    Rewritten = {2}
    MaxPassed = 4
    MaxRounds = 1
    MaxRetries = 1
    MaxUses = 2
    MaxCalls = 2
    MaxSse = 5
    MaxSseBlocks = 2
    Tools <- DeclaredTools
    CalledAs = {"exec", "run"}
    BridgeRounds = 2
    BridgeRetries = 1
    BridgeSearches = 1
    RoundBlocks <- BlocksOfRound
    Answers <- AnswersInPieces
    Presentation = "presented"
    Conforming = {"fit", "other fit", "presented"}
    OutputBudget = 5
    OutputFloor = 1
    OutputLengths <- Conversations
INVARIANTS
      RepliesSame RepliesSettledOnce
CHECK_DEADLOCK FALSE
